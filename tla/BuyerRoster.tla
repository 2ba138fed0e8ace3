---------------------------- MODULE BuyerRoster ----------------------------
(***************************************************************************)
(* The buyers as operators manage them: create_buyer, update_buyer and the *)
(* daily GuardrailEvaluation task.                                         *)
(*                                                                         *)
(* A zip should belong to one active buyer.  The check is a transaction of *)
(* its own, it looks at active buyers, and an update that does not name    *)
(* exclusive_zips does without it.  update_buyer then loads the row,       *)
(* assigns what the payload names, and the flush writes the attributes     *)
(* that differ from what was loaded.                                       *)
(*                                                                         *)
(* The evaluation is one transaction: it lists the active buyers, computes *)
(* a rate for each with two SELECTs and pauses those above the threshold.  *)
(* The row lock of an UPDATE makes other writers wait for its commit.      *)
(* What it counts goes up and down meanwhile: leads are sold, returns are  *)
(* approved, and a review that overlaps an approval takes it back.         *)
(* (Its other reason, a mean ping answer above 600 s, cannot occur: a ping *)
(* is given 2.5 s.)                                                        *)
(***************************************************************************)
EXTENDS Integers, FiniteSetsExt

CONSTANTS
    Buyers,
    Zips,
    Calls,       \* requests to the two handlers that may be under way
    NoBuyer,
    Wanted,      \* the statuses that updates ask for
    Tolerance,   \* leads per tolerated return: 4 (ADJUSTMENT_RATE_THRESHOLD)
    MaxCalls,    \* bound: calls that are made
    MaxSales,    \* bound: delivered leads, of all buyers
    MaxReturns,  \* bound: approved returns, of all buyers
    MaxFailures  \* bound: evaluations that fail

BuyerStatuses == {"pending_verification", "active", "paused", "suspended"}

ASSUME RosterAssumption ==
    /\ NoBuyer \notin Buyers
    /\ Wanted \subseteq BuyerStatuses
    /\ Tolerance \in Nat \ {0}

VARIABLES
    status,     \* buyers.status, "absent" before the row exists
    exclusive,  \* buyers.exclusive_zips
    delivered,  \* delivered rows of post_results, per buyer
    approved,   \* approved rows of return_requests, per buyer
    call,       \* call[c]: the request c is busy with
    eval,       \* the guardrail evaluation
    calls,      \* history: calls made so far
    failures,   \* history: evaluations that failed
    unsure,     \* history: buyers last written without a check, or with a
                \*   check that another write had overtaken
    served,     \* history: buyers that have been active
    touched,    \* history: buyers an operator wrote since the listing
    skewed      \* history: buyers whose counts changed, in their favour, after
                \*   the evaluation had read them

salesVars == <<delivered, approved>>
vars == <<status, exclusive, salesVars, call, eval, calls, failures, unsure,
          served, touched, skewed>>

IdleCall == [pc |-> "idle", buyer |-> NoBuyer, names |-> FALSE, zips |-> {},
             want |-> "keep", seen |-> "absent", seenZips |-> {},
             overtaken |-> FALSE]

CallRecord == [pc : {"idle", "insert", "load", "write"},
               buyer : Buyers \cup {NoBuyer},
               names : BOOLEAN,            \* the payload has exclusive_zips
               zips : SUBSET Zips,
               want : Wanted \cup {"keep"},
               seen : BuyerStatuses \cup {"absent"},
               seenZips : SUBSET Zips,
               overtaken : BOOLEAN]        \* history: another call wrote since
                                           \*   this one began

IdleEval == [pc |-> "idle", todo |-> {}, buyer |-> NoBuyer, total |-> 0,
             paused |-> {}]

EvalRecord == [pc : {"idle", "next", "rate", "pause"},
               todo : SUBSET Buyers, buyer : Buyers \cup {NoBuyer},
               total : Nat,
               paused : SUBSET Buyers]     \* rows updated, not yet committed

-----------------------------------------------------------------------------

\* Some buyers have been created already, with zips of their own or in common.
RosterInit ==
    /\ status \in [Buyers -> {"absent", "pending_verification"}]
    /\ exclusive \in [Buyers -> SUBSET Zips]
    /\ \A b \in Buyers : status[b] = "absent" => exclusive[b] = {}
    /\ delivered = [b \in Buyers |-> 0]
    /\ approved = [b \in Buyers |-> 0]
    /\ call = [c \in Calls |-> IdleCall]
    /\ eval = IdleEval
    /\ calls = 0
    /\ failures = 0
    /\ unsure = {}
    /\ served = {}
    /\ touched = {}
    /\ skewed = {}

Exists(b) == status[b] # "absent"
Active(b) == status[b] = "active"

\* check_exclusive_zip_conflict
Conflict(b, zips) ==
    \E other \in Buyers \ {b} : Active(other) /\ exclusive[other] \cap zips # {}

\* Call c is over, and those under way have been overtaken by its write.
WriteEnds(c) ==
    call' = [d \in Calls |->
               IF d = c THEN IdleCall
               ELSE [call[d] EXCEPT !.overtaken = (call[d].pc # "idle")]]

-----------------------------------------------------------------------------
(* create_buyer                                                            *)

BeginCreate(c, b, zips) ==
    /\ calls < MaxCalls
    /\ call[c].pc = "idle"
    /\ ~Exists(b)
    /\ \A d \in Calls : call[d].buyer # b
    /\ ~Conflict(b, zips)
    /\ call' = [call EXCEPT ![c] = [IdleCall EXCEPT !.pc = "insert",
                                      !.buyer = b, !.names = TRUE,
                                      !.zips = zips]]
    /\ calls' = calls + 1
    /\ UNCHANGED <<status, exclusive, salesVars, eval, failures, unsure,
                   served, touched, skewed>>

InsertBuyer(c) ==
    LET b == call[c].buyer
    IN  /\ call[c].pc = "insert"
        /\ status' = [status EXCEPT ![b] = "pending_verification"]
        /\ exclusive' = [exclusive EXCEPT ![b] = call[c].zips]
        /\ WriteEnds(c)
        /\ UNCHANGED <<salesVars, eval, calls, failures, unsure, served,
                       touched, skewed>>

-----------------------------------------------------------------------------
(* update_buyer                                                            *)

\* Mutant of BeginUpdate: no check.
BeginUpdateUnchecked(c, b, names, zips, want) ==
    /\ calls < MaxCalls
    /\ call[c].pc = "idle"
    /\ Exists(b)
    /\ call' = [call EXCEPT ![c] = [IdleCall EXCEPT !.pc = "load",
                                      !.buyer = b, !.names = names,
                                      !.zips = zips, !.want = want]]
    /\ calls' = calls + 1
    /\ UNCHANGED <<status, exclusive, salesVars, eval, failures, unsure,
                   served, touched, skewed>>

\* An update in conflict is answered 409 and changes nothing.
BeginUpdate(c, b, names, zips, want) ==
    /\ calls < MaxCalls
    /\ call[c].pc = "idle"
    /\ Exists(b)
    /\ names => ~Conflict(b, zips)
    /\ call' = [call EXCEPT ![c] = [IdleCall EXCEPT !.pc = "load",
                                      !.buyer = b, !.names = names,
                                      !.zips = zips, !.want = want]]
    /\ calls' = calls + 1
    /\ UNCHANGED <<status, exclusive, salesVars, eval, failures, unsure,
                   served, touched, skewed>>

LoadBuyer(c) ==
    LET b == call[c].buyer
    IN  /\ call[c].pc = "load"
        /\ call' = [call EXCEPT ![c].pc = "write", ![c].seen = status[b],
                                ![c].seenZips = exclusive[b]]
        /\ UNCHANGED <<status, exclusive, salesVars, eval, calls, failures,
                       unsure, served, touched, skewed>>

\* setattr, flush and commit.
WriteBuyer(c) ==
    LET b == call[c].buyer
        want == call[c].want
    IN  /\ call[c].pc = "write"
        /\ b \notin eval.paused
        /\ status' = IF want \in {"keep", call[c].seen} THEN status
                     ELSE [status EXCEPT ![b] = want]
        /\ exclusive' = IF ~call[c].names \/ call[c].zips = call[c].seenZips
                        THEN exclusive
                        ELSE [exclusive EXCEPT ![b] = call[c].zips]
        /\ unsure' = IF call[c].names /\ ~call[c].overtaken
                     THEN unsure \ {b} ELSE unsure \cup {b}
        /\ served' = IF status'[b] = "active" THEN served \cup {b} ELSE served
        /\ touched' = IF eval.pc = "idle" THEN {} ELSE touched \cup {b}
        /\ WriteEnds(c)
        /\ UNCHANGED <<salesVars, eval, calls, failures, skewed>>

-----------------------------------------------------------------------------
(* What auctions and return reviews do meanwhile.                          *)

Total(count) == MapThenSumSet(LAMBDA b : count[b], Buyers)

\* The buyers found above the threshold, and those whose deliveries were read.
Judged == eval.paused \cup (IF eval.pc = "pause" THEN {eval.buyer} ELSE {})
Counted == Judged \cup (IF eval.pc = "rate" THEN {eval.buyer} ELSE {})

\* A run reserves the wallet of an active buyer and records the sale some
\* calls later, whatever has become of the buyer's status.
DeliverLead(b) ==
    /\ b \in served
    /\ Total(delivered) < MaxSales
    /\ delivered' = [delivered EXCEPT ![b] = @ + 1]
    /\ skewed' = skewed \cup ({b} \cap Counted)
    /\ UNCHANGED <<status, exclusive, approved, call, eval, calls, failures,
                   unsure, served, touched>>

\* (Reviews that overlap may approve two requests of one sale.)
ApproveReturn(b) ==
    /\ delivered[b] > 0
    /\ Total(approved) < MaxReturns
    /\ approved' = [approved EXCEPT ![b] = @ + 1]
    /\ UNCHANGED <<status, exclusive, delivered, call, eval, calls, failures,
                   unsure, served, touched, skewed>>

\* A hold or a rejection that loaded the request before its approval was
\* committed writes its own verdict over it.
OverwriteApproval(b) ==
    /\ approved[b] > 0
    /\ approved' = [approved EXCEPT ![b] = @ - 1]
    /\ skewed' = skewed \cup ({b} \cap Judged)
    /\ UNCHANGED <<status, exclusive, delivered, call, eval, calls, failures,
                   unsure, served, touched>>

-----------------------------------------------------------------------------
(* evaluate_buyer_guardrails                                               *)

\* Mutant of ListActive: whatever the status.
ListAll ==
    /\ eval.pc = "idle"
    /\ eval' = [IdleEval EXCEPT !.pc = "next",
                                !.todo = {b \in Buyers : Exists(b)}]
    /\ UNCHANGED <<status, exclusive, salesVars, call, calls, failures, unsure,
                   served, touched, skewed>>

ListActive ==
    /\ eval.pc = "idle"
    /\ eval' = [IdleEval EXCEPT !.pc = "next",
                                !.todo = {b \in Buyers : Active(b)}]
    /\ UNCHANGED <<status, exclusive, salesVars, call, calls, failures, unsure,
                   served, touched, skewed>>

\* The first SELECT of _adjustment_rate.  Without a delivery the rate is zero.
CountDelivered(b) ==
    /\ eval.pc = "next"
    /\ b \in eval.todo
    /\ eval' = [eval EXCEPT !.todo = @ \ {b}, !.buyer = b,
                            !.total = delivered[b],
                            !.pc = IF delivered[b] = 0 THEN "next" ELSE "rate"]
    /\ UNCHANGED <<status, exclusive, salesVars, call, calls, failures, unsure,
                   served, touched, skewed>>

Above(returned, total) == Tolerance * returned > total

\* Mutant of CountApproved: the threshold itself is too much.
CountApprovedInclusive ==
    /\ eval.pc = "rate"
    /\ eval' = [eval EXCEPT !.pc = IF Tolerance * approved[eval.buyer]
                                      >= eval.total
                                   THEN "pause" ELSE "next"]
    /\ UNCHANGED <<status, exclusive, salesVars, call, calls, failures, unsure,
                   served, touched, skewed>>

\* Its second SELECT, and the comparison.
CountApproved ==
    /\ eval.pc = "rate"
    /\ eval' = [eval EXCEPT !.pc = IF Above(approved[eval.buyer], eval.total)
                                   THEN "pause" ELSE "next"]
    /\ UNCHANGED <<status, exclusive, salesVars, call, calls, failures, unsure,
                   served, touched, skewed>>

\* UPDATE buyers SET status = 'paused' WHERE id = ...
PauseBuyer ==
    /\ eval.pc = "pause"
    /\ eval' = [eval EXCEPT !.pc = "next", !.paused = @ \cup {eval.buyer}]
    /\ UNCHANGED <<status, exclusive, salesVars, call, calls, failures, unsure,
                   served, touched, skewed>>

CommitPauses ==
    /\ eval.pc = "next"
    /\ eval.todo = {}
    /\ status' = [b \in Buyers |-> IF b \in eval.paused THEN "paused"
                                   ELSE status[b]]
    /\ eval' = IdleEval
    /\ touched' = {}
    /\ skewed' = {}
    /\ UNCHANGED <<exclusive, salesVars, call, calls, failures, unsure, served>>

\* A time-out or an exception: every pause of the evaluation is rolled back.
FailEvaluation ==
    /\ eval.pc # "idle"
    /\ failures < MaxFailures
    /\ failures' = failures + 1
    /\ eval' = IdleEval
    /\ touched' = {}
    /\ skewed' = {}
    /\ UNCHANGED <<status, exclusive, salesVars, call, calls, unsure, served>>

Evaluate ==
    \/ ListActive
    \/ \E b \in Buyers : CountDelivered(b)
    \/ CountApproved
    \/ PauseBuyer
    \/ CommitPauses

-----------------------------------------------------------------------------

\* Updates that name neither the status nor the zips change nothing of this.
RosterNext ==
    \/ \E c \in Calls, b \in Buyers, zips \in SUBSET Zips :
         \/ BeginCreate(c, b, zips)
         \/ \E want \in Wanted \cup {"keep"} :
                BeginUpdate(c, b, TRUE, zips, want)
         \/ \E want \in Wanted : BeginUpdate(c, b, FALSE, {}, want)
    \/ \E c \in Calls : InsertBuyer(c) \/ LoadBuyer(c) \/ WriteBuyer(c)
    \/ \E b \in Buyers : DeliverLead(b) \/ ApproveReturn(b) \/ OverwriteApproval(b)
    \/ Evaluate
    \/ FailEvaluation

RosterSpec == RosterInit /\ [][RosterNext]_vars

-----------------------------------------------------------------------------

\* Every variable has its type.
RosterTypeOK ==
    /\ status \in [Buyers -> BuyerStatuses \cup {"absent"}]
    /\ exclusive \in [Buyers -> SUBSET Zips]
    /\ delivered \in [Buyers -> Nat]
    /\ approved \in [Buyers -> Nat]
    /\ call \in [Calls -> CallRecord]
    /\ eval \in EvalRecord
    /\ calls \in Nat
    /\ failures \in Nat
    /\ unsure \subseteq Buyers
    /\ served \subseteq Buyers
    /\ touched \subseteq Buyers
    /\ skewed \subseteq Buyers

Shared(b, c) == exclusive[b] \cap exclusive[c] # {}

\* Two active buyers own a zip only if one of them was last written by an
\* update that was not checked (an activation, say), or whose check another
\* call had overtaken.
ExclusiveUnlessUnchecked ==
    \A b, c \in Buyers :
        b # c /\ Active(b) /\ Active(c) /\ Shared(b, c) =>
            b \in unsure \/ c \in unsure

\* The evaluation takes a buyer out of the auctions, and does nothing else: a
\* status other than active gives way to its pause only if an operator wrote
\* that buyer after the listing.
PausesActiveBuyers ==
    [][\A b \in Buyers :
         b \in eval.paused /\ status'[b] # status[b] =>
            Active(b) \/ b \in touched]_vars

\* A pause stays due until it is committed, unless the buyer's counts changed
\* under the evaluation: it was sold a lead after its deliveries had been
\* counted, or an approved return of its own was overwritten by an overlapping
\* review after its approvals had been.
PausesAreJustified ==
    \A b \in eval.paused : Above(approved[b], delivered[b]) \/ b \in skewed

=============================================================================
