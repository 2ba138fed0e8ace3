------------------------------ MODULE Auction ------------------------------
(***************************************************************************)
(* The ping-post auction (ping_post/auction.py, run_auction).              *)
(*                                                                         *)
(* A run reads one lead, checks that it may be sold, selects buyers, pings *)
(* them, picks a winner, reserves its wallet, posts the lead to it and     *)
(* records the outcome.  Every step between two commits, webhook calls or  *)
(* event pushes is one action, so that other runs, operators and the       *)
(* nurture worker interleave wherever the code awaits.  Nothing locks a    *)
(* lead: a run is started by the lead.qualified event, by POST /v1/auction *)
(* or by a replay, and several may work on the same lead.  A run may be    *)
(* cut off at any step (crash, the 30 s task timeout, an exception);       *)
(* Hatchet then starts the whole function again.                           *)
(*                                                                         *)
(* Wallets, ledger and operator deposits are those of module Wallet.       *)
(***************************************************************************)
EXTENDS Wallet

CONSTANTS
    Leads,
    NoLead,
    Routing,         \* Routing[l]: what _lead_can_enter_auction says of l's
                     \*   class, score and fraud flag
    Matches,         \* lead-buyer pairs that pass the CEL filter and the
                     \*   paid-pilot zip and service rules
    DailyCap,        \* daily_cap of every buyer
    MonthlyBudget,   \* monthly_budget of every buyer, in cents
    MaxAttempts,     \* POST_MAX_ATTEMPTS
    PingsMayOverrun, \* whether a ping can outlast BID_WINDOW_S
    MaxStarts,       \* bound: auctions requested
    MaxCrashes,      \* bound: runs cut off
    MaxDeposited     \* bound: cents an operator deposits per buyer

RoutingKinds == {"route", "blocked", "class_c", "class_d", "low_score"}

ASSUME AuctionAssumption ==
    /\ Routing \in [Leads -> RoutingKinds]
    /\ Matches \subseteq Leads \X Buyers
    /\ NoLead \notin Leads
    /\ DailyCap \in Nat \ {0}
    /\ MaxAttempts \in Nat \ {0}
    /\ PingsMayOverrun \in BOOLEAN

VARIABLES
    run,       \* run[r]: the locals of a run and where it stands
    post,      \* post_results by its unique key (lead, buyer, bid)
    status,    \* leads.status
    held,      \* leads.hold_for_review
    timeline,  \* lead_state_transitions: the (from, to) edges recorded by
               \*   the auction and the nurture worker (not review rows)
    events,    \* lead.unsold and lead.rejected events not yet handled
    sold,      \* sold[b]: number of lead.posted rows of buyer b today
    starts,    \* auctions requested so far
    crashes    \* runs cut off so far

auctionVars == <<run, post, status, held, timeline, events, sold,
                 starts, crashes>>
leadVars == <<post, status, held, timeline, events, sold>>

vars == <<walletVars, auctionVars>>

Keys == Leads \X Buyers \X Cents

\* Where the timeline has a lead.
Stages == {"start", "qualified", "auctioned", "sold", "unsold", "rejected",
           "nurtured"}
Edges == Stages \X Stages

NoFunds == [b \in Buyers |-> 0]

IdleRun == [pc |-> "idle", lead |-> NoLead, allowed |-> FALSE,
            funds |-> NoFunds, answers |-> NoFunds, pick |-> NoHold,
            tries |-> 0, ok |-> FALSE]

PCs == {"idle", "retry", "gate", "select", "mark", "ping", "pick", "key",
        "reserve", "post", "record", "credit", "unsold", "announce", "close"}

RunRecord == [pc : PCs, lead : Leads \cup {NoLead}, allowed : BOOLEAN,
              funds : [Buyers -> Nat], answers : [Buyers -> Cents \cup {0}],
              pick : Hold \cup {NoHold}, tries : 0 .. MaxAttempts,
              ok : BOOLEAN]

-----------------------------------------------------------------------------
(* What the code computes from the rows it has read.                       *)

\* _lead_can_enter_auction, on the row as the run loaded it.
CanEnter(l) == Routing[l] = "route" /\ ~held[l]

Delivered(l) == {k \in Keys : k[1] = l /\ post[k] = "delivered"}

\* Mutant of WithinCaps: one sale too many.
WithinCapsInclusive(b) ==
    /\ sold[b] <= DailyCap
    /\ billed[b]["lead.posted"] < MonthlyBudget

\* _buyer_within_caps
WithinCaps(b) ==
    /\ sold[b] < DailyCap
    /\ billed[b]["lead.posted"] < MonthlyBudget

\* _select_eligible_buyers
Eligible(l) == {b \in Buyers : /\ active[b]
                               /\ balance[b] > 0
                               /\ <<l, b>> \in Matches
                               /\ WithinCaps(b)}

\* _ping_one, over the fan-out: every eligible buyer bids, or it declines, errs
\* or times out (no bid).
Answers(r) == {answers \in [Buyers -> Cents \cup {0}] :
                 \A b \in Buyers : run[r].funds[b] = 0 => answers[b] = 0}

\* The bids _pick_winner considers: accepted, and covered by the balance the
\* run loaded when it selected the buyers.
Affordable(r) == {b \in Buyers : /\ run[r].answers[b] > 0
                                 /\ run[r].answers[b] <= run[r].funds[b]}

\* _pick_winner sorts by bid, then by response time: any highest bidder may
\* have been the fastest.
Winners(r) == {b \in Affordable(r) :
                 \A o \in Affordable(r) : run[r].answers[o] <= run[r].answers[b]}

KeyOf(r) == <<run[r].lead, run[r].pick.buyer, run[r].pick.cents>>

Goto(r, label) == run' = [run EXCEPT ![r].pc = label]
Finish(r) == run' = [run EXCEPT ![r] = IdleRun]
At(r, label) == run[r].pc = label

\* record_transition: inserting a row whose key exists does nothing.
RecordTransition(l, from, to) ==
    timeline' = [timeline EXCEPT ![l] = @ \cup {<<from, to>>}]

-----------------------------------------------------------------------------

AuctionInit ==
    /\ WalletInit
    /\ run = [r \in Runs |-> IdleRun]
    /\ post = [k \in Keys |-> "none"]
    /\ status = [l \in Leads |-> "qualified"]
    /\ held = [l \in Leads |-> FALSE]
    /\ timeline = [l \in Leads |-> {}]
    /\ events = {}
    /\ sold = [b \in Buyers |-> 0]
    /\ starts = 0
    /\ crashes = 0

\* _auction_step or POST /v1/auction: load the lead row.
Load(r, l) ==
    run' = [run EXCEPT ![r] = [IdleRun EXCEPT !.pc = "gate", !.lead = l,
                                              !.allowed = CanEnter(l)]]

Start(r, l) ==
    /\ At(r, "idle")
    /\ starts < MaxStarts
    /\ starts' = starts + 1
    /\ Load(r, l)
    /\ UNCHANGED <<walletVars, leadVars, crashes>>

\* Hatchet runs the function again after a failure.
Retry(r) ==
    /\ At(r, "retry")
    /\ Load(r, run[r].lead)
    /\ UNCHANGED <<walletVars, leadVars, starts, crashes>>

\* _persist_unauctionable_lead: class d and blocked leads are rejected, the
\* others are held for review.
RefuseLead(r) ==
    /\ At(r, "gate")
    /\ ~run[r].allowed
    /\ LET l == run[r].lead
       IN  IF Routing[l] \in {"blocked", "class_d"}
           THEN /\ status' = [status EXCEPT ![l] = "rejected"]
                /\ RecordTransition(l, "start", "rejected")
                /\ events' = events \cup {<<l, "rejected">>}
                /\ UNCHANGED held
           ELSE /\ held' = [held EXCEPT ![l] = TRUE]
                /\ RecordTransition(l, "start", "qualified")
                /\ UNCHANGED <<status, events>>
    /\ Finish(r)
    /\ UNCHANGED <<walletVars, post, sold, starts, crashes>>

\* Mutant of CheckSale: a retried run does not look for an earlier sale.
SkipSaleCheck(r) ==
    /\ At(r, "gate")
    /\ run[r].allowed
    /\ Goto(r, "select")
    /\ UNCHANGED <<walletVars, leadVars, starts, crashes>>

\* A lead with a delivered sale is not auctioned again.
CheckSale(r) ==
    /\ At(r, "gate")
    /\ run[r].allowed
    /\ IF Delivered(run[r].lead) # {} THEN Finish(r) ELSE Goto(r, "select")
    /\ UNCHANGED <<walletVars, leadVars, starts, crashes>>

\* The run keeps the balances it loaded; a buyer that is not eligible counts
\* as having none.
SelectBuyers(r) ==
    /\ At(r, "select")
    /\ run' = [run EXCEPT ![r].pc = "mark",
                          ![r].funds = [b \in Buyers |->
                              IF b \in Eligible(run[r].lead) THEN balance[b]
                              ELSE 0]]
    /\ UNCHANGED <<walletVars, leadVars, starts, crashes>>

RecordAuctioned(r) ==
    /\ At(r, "mark")
    /\ RecordTransition(run[r].lead, "qualified", "auctioned")
    /\ Goto(r, IF run[r].funds = NoFunds THEN "unsold" ELSE "ping")
    /\ UNCHANGED <<walletVars, post, status, held, events, sold,
                   starts, crashes>>

\* The fan-out, within the bid window.
PingBuyers(r) ==
    /\ At(r, "ping")
    /\ \E answers \in Answers(r) :
         run' = [run EXCEPT ![r].pc = "pick", ![r].answers = answers]
    /\ UNCHANGED <<walletVars, leadVars, starts, crashes>>

PickWinner(r) ==
    /\ At(r, "pick")
    /\ IF Winners(r) = {}
       THEN Goto(r, "unsold")
       ELSE \E b \in Winners(r) :
              run' = [run EXCEPT ![r].pc = "key",
                        ![r].pick = [buyer |-> b, cents |-> run[r].answers[b]]]
    /\ UNCHANGED <<walletVars, leadVars, starts, crashes>>

\* wait_for cancels the whole gather: one ping that outlasts the window drops
\* every response.
BidWindowExpires(r) ==
    /\ PingsMayOverrun
    /\ At(r, "pick")
    /\ Goto(r, "unsold")
    /\ UNCHANGED <<walletVars, leadVars, starts, crashes>>

\* A run that finds a row under its delivery key returns without recording
\* anything.
CheckDeliveryKey(r) ==
    /\ At(r, "key")
    /\ IF post[KeyOf(r)] # "none" THEN Finish(r) ELSE Goto(r, "reserve")
    /\ UNCHANGED <<walletVars, leadVars, starts, crashes>>

\* Mutant of Reserve: the debit is computed from the balance the run loaded.
ReserveFromSnapshot(r) ==
    LET b == run[r].pick.buyer
        c == run[r].pick.cents
    IN  /\ At(r, "reserve")
        /\ hold[r] = NoHold
        /\ active[b]
        /\ balance' = [balance EXCEPT ![b] = run[r].funds[b] - c]
        /\ spend' = [spend EXCEPT ![b] = @ + c]
        /\ Bill(b, "lead.reserved", c)
        /\ hold' = [hold EXCEPT ![r] = run[r].pick]
        /\ Goto(r, "post")
        /\ UNCHANGED <<active, orphaned, req, raced, leadVars, starts, crashes>>

Reserve(r) ==
    /\ At(r, "reserve")
    /\ ReserveBuyerWallet(r, run[r].pick.buyer, run[r].pick.cents)
    /\ Goto(r, "post")
    /\ UNCHANGED <<leadVars, starts, crashes>>

\* The wallet or the status changed since the buyers were selected.
ReserveRejected(r) ==
    /\ At(r, "reserve")
    /\ ~(active[run[r].pick.buyer] /\ balance[run[r].pick.buyer] >= run[r].pick.cents)
    /\ Goto(r, "record")
    /\ UNCHANGED <<walletVars, leadVars, starts, crashes>>

-----------------------------------------------------------------------------
(* _post_to_winner: up to MaxAttempts calls of the winner's webhook.  A   *)
(* call that fails may have reached the buyer nevertheless.                *)

PostAccepted(r) ==
    /\ At(r, "post")
    /\ run' = [run EXCEPT ![r].pc = "record", ![r].ok = TRUE]
    /\ UNCHANGED <<walletVars, leadVars, starts, crashes>>

\* A status that is neither 2xx, 429 nor 5xx, or an error that is neither a
\* timeout nor a network error: no retry.
PostRefused(r) ==
    /\ At(r, "post")
    /\ Goto(r, "record")
    /\ UNCHANGED <<walletVars, leadVars, starts, crashes>>

\* 429, 5xx, timeout or network error.  After the last attempt the post has
\* failed.
PostFailed(r) ==
    /\ At(r, "post")
    /\ IF run[r].tries + 1 < MaxAttempts
       THEN run' = [run EXCEPT ![r].tries = @ + 1]
       ELSE Goto(r, "record")
    /\ UNCHANGED <<walletVars, leadVars, starts, crashes>>

-----------------------------------------------------------------------------
(* The outcome: one transaction for the post_results row, the lead status, *)
(* the transition and, for a sale, the lead.posted row.                    *)

\* Mutant of RecordDelivered: nothing keeps the delivery key unique.
RecordTwice(r) ==
    /\ At(r, "record")
    /\ run[r].ok
    /\ post' = [post EXCEPT ![KeyOf(r)] = "delivered"]
    /\ status' = [status EXCEPT ![run[r].lead] = "sold"]
    /\ RecordTransition(run[r].lead, "auctioned", "sold")
    /\ sold' = [sold EXCEPT ![run[r].pick.buyer] = @ + 1]
    /\ BillPosted(r)
    /\ Finish(r)
    /\ UNCHANGED <<held, events, starts, crashes>>

RecordDelivered(r) ==
    /\ At(r, "record")
    /\ run[r].ok
    /\ post[KeyOf(r)] = "none"
    /\ post' = [post EXCEPT ![KeyOf(r)] = "delivered"]
    /\ status' = [status EXCEPT ![run[r].lead] = "sold"]
    /\ RecordTransition(run[r].lead, "auctioned", "sold")
    /\ sold' = [sold EXCEPT ![run[r].pick.buyer] = @ + 1]
    /\ BillPosted(r)
    /\ Finish(r)
    /\ UNCHANGED <<held, events, starts, crashes>>

\* Mutant of RecordFailed: the status is set whatever the buyer answered.
RecordFailedAsSold(r) ==
    /\ At(r, "record")
    /\ ~run[r].ok
    /\ post[KeyOf(r)] = "none"
    /\ post' = [post EXCEPT ![KeyOf(r)] = "failed"]
    /\ status' = [status EXCEPT ![run[r].lead] = "sold"]
    /\ RecordTransition(run[r].lead, "auctioned", "unsold")
    /\ IF hold[r] # NoHold THEN Goto(r, "credit") ELSE Finish(r)
    /\ UNCHANGED <<walletVars, held, events, sold, starts, crashes>>

\* Mutant of RecordFailed: the reservation is not given back.
RecordFailedUncredited(r) ==
    /\ At(r, "record")
    /\ ~run[r].ok
    /\ post[KeyOf(r)] = "none"
    /\ post' = [post EXCEPT ![KeyOf(r)] = "failed"]
    /\ status' = [status EXCEPT ![run[r].lead] = "unsold"]
    /\ RecordTransition(run[r].lead, "auctioned", "unsold")
    /\ events' = events \cup {<<run[r].lead, "unsold">>}
    /\ Finish(r)
    /\ UNCHANGED <<walletVars, held, sold, starts, crashes>>

\* lead.unsold is pushed before the commit, the credit is a transaction of its
\* own after it.
RecordFailed(r) ==
    /\ At(r, "record")
    /\ ~run[r].ok
    /\ post[KeyOf(r)] = "none"
    /\ post' = [post EXCEPT ![KeyOf(r)] = "failed"]
    /\ status' = [status EXCEPT ![run[r].lead] = "unsold"]
    /\ RecordTransition(run[r].lead, "auctioned", "unsold")
    /\ events' = events \cup {<<run[r].lead, "unsold">>}
    /\ IF hold[r] # NoHold THEN Goto(r, "credit") ELSE Finish(r)
    /\ UNCHANGED <<walletVars, held, sold, starts, crashes>>

Credit(r) ==
    /\ At(r, "credit")
    /\ CreditFailedDelivery(r)
    /\ Finish(r)
    /\ UNCHANGED <<leadVars, starts, crashes>>

\* No buyer, or no accepted bid: the transition is committed first, the event
\* pushed next, and with eligible buyers the status is set last.
RecordUnsold(r) ==
    /\ At(r, "unsold")
    /\ RecordTransition(run[r].lead, "auctioned", "unsold")
    /\ Goto(r, "announce")
    /\ UNCHANGED <<walletVars, post, status, held, events, sold,
                   starts, crashes>>

\* Mutant of AnnounceUnsold: the event is not pushed.
AnnounceNothing(r) ==
    /\ At(r, "announce")
    /\ IF run[r].funds = NoFunds THEN Finish(r) ELSE Goto(r, "close")
    /\ UNCHANGED <<walletVars, leadVars, starts, crashes>>

AnnounceUnsold(r) ==
    /\ At(r, "announce")
    /\ events' = events \cup {<<run[r].lead, "unsold">>}
    /\ IF run[r].funds = NoFunds THEN Finish(r) ELSE Goto(r, "close")
    /\ UNCHANGED <<walletVars, post, status, held, timeline, sold,
                   starts, crashes>>

CloseUnsold(r) ==
    /\ At(r, "close")
    /\ status' = [status EXCEPT ![run[r].lead] = "unsold"]
    /\ Finish(r)
    /\ UNCHANGED <<walletVars, post, held, timeline, events, sold,
                   starts, crashes>>

-----------------------------------------------------------------------------
(* Runs that do not get to the end.                                        *)

\* The run is gone; Hatchet retries it or has no retries left.
Abandon(r) ==
    /\ run' \in {[run EXCEPT ![r] = IdleRun],
                 [run EXCEPT ![r] = [IdleRun EXCEPT !.pc = "retry",
                                                    !.lead = run[r].lead]]}
    /\ IF hold[r] # NoHold THEN OrphanHold(r) ELSE UNCHANGED walletVars

\* The unique index refuses a second row for the delivery key: the whole
\* transaction rolls back and the exception ends the run.
RecordConflict(r) ==
    /\ At(r, "record")
    /\ post[KeyOf(r)] # "none"
    /\ Abandon(r)
    /\ UNCHANGED <<leadVars, starts, crashes>>

\* The open transaction is rolled back; an event may have left before.
CutOff(r) ==
    /\ crashes < MaxCrashes
    /\ run[r].pc \notin {"idle", "retry"}
    /\ crashes' = crashes + 1
    /\ Abandon(r)
    /\ \/ UNCHANGED events
       \/ /\ At(r, "record") /\ ~run[r].ok
          /\ events' = events \cup {<<run[r].lead, "unsold">>}
       \/ /\ At(r, "gate") /\ ~run[r].allowed
          /\ Routing[run[r].lead] \in {"blocked", "class_d"}
          /\ events' = events \cup {<<run[r].lead, "rejected">>}
    /\ UNCHANGED <<post, status, held, timeline, sold, starts>>

-----------------------------------------------------------------------------
(* The other actors.                                                       *)

\* nurture_lead handles lead.unsold and lead.rejected.
NurtureLead(l, from) ==
    /\ <<l, from>> \in events
    /\ events' = events \ {<<l, from>>}
    /\ status' = [status EXCEPT ![l] = "nurtured"]
    /\ RecordTransition(l, from, "nurtured")
    /\ UNCHANGED <<walletVars, run, post, held, sold, starts, crashes>>

\* review_lead: hold and approve set the flag; status and class stay.
ReviewLead(l, hold_for_review) ==
    /\ held' = [held EXCEPT ![l] = hold_for_review]
    /\ UNCHANGED <<walletVars, run, post, status, timeline, events, sold,
                   starts, crashes>>

\* add_deposit and update_buyer, concurrently with the runs.
Operator ==
    /\ \/ \E b \in Buyers, on \in BOOLEAN : SetActive(b, on)
       \/ \E q \in Requests, b \in Buyers, c \in Cents :
            /\ billed[b]["deposit.added"] + c <= MaxDeposited
            /\ OrmRead(q, "deposit.added", b, c)
       \/ \E q \in Requests : OrmWrite(q) \/ OrmAbort(q)
    /\ UNCHANGED auctionVars

\* The steps a live worker takes without anybody's help.
RunStep(r) ==
    \/ RefuseLead(r) \/ CheckSale(r) \/ SelectBuyers(r) \/ RecordAuctioned(r)
    \/ PingBuyers(r) \/ PickWinner(r) \/ BidWindowExpires(r)
    \/ CheckDeliveryKey(r) \/ Reserve(r) \/ ReserveRejected(r)
    \/ PostAccepted(r) \/ PostRefused(r) \/ PostFailed(r)
    \/ RecordDelivered(r) \/ RecordFailed(r) \/ Credit(r)
    \/ RecordUnsold(r) \/ AnnounceUnsold(r) \/ CloseUnsold(r)
    \/ RecordConflict(r) \/ Retry(r)

AuctionNext ==
    \/ \E r \in Runs, l \in Leads : Start(r, l)
    \/ \E r \in Runs : RunStep(r)
    \/ \E r \in Runs : CutOff(r)
    \/ \E l \in Leads, from \in {"unsold", "rejected"} : NurtureLead(l, from)
    \/ \E l \in Leads, on \in BOOLEAN : ReviewLead(l, on)
    \/ Operator

AuctionSpec == AuctionInit /\ [][AuctionNext]_vars

\* Workers keep running the tasks they have taken (Hatchet reassigns a task
\* whose worker is gone) and events are delivered; nobody has to start an
\* auction, fail, review or deposit.
AuctionFairness ==
    /\ \A r \in Runs : WF_vars(RunStep(r))
    /\ \A l \in Leads, from \in {"unsold", "rejected"} :
         WF_vars(NurtureLead(l, from))

FairAuctionSpec == AuctionSpec /\ AuctionFairness

-----------------------------------------------------------------------------

\* Every variable of the auction has its type.
AuctionTypeOK ==
    /\ run \in [Runs -> RunRecord]
    /\ post \in [Keys -> {"none", "failed", "delivered"}]
    /\ status \in [Leads -> {"qualified", "sold", "unsold", "rejected", "nurtured"}]
    /\ held \in [Leads -> BOOLEAN]
    /\ timeline \in [Leads -> SUBSET Edges]
    /\ sold \in [Buyers -> Nat]

\* The auction moves money only the way a wallet allows: every step is a step
\* of Wallet or leaves the wallets alone (theorem AuctionImplementsWallet).
WalletRefined == WalletSpec

\* A lead is sold once: no sequence of runs, retries after a cut-off and
\* repeated triggers leaves two delivered rows for it, as long as the runs of
\* one lead do not overlap.  CheckSale, not the unique key, is what gives
\* this: the key differs between buyers and between bids.
OneSalePerLead == \A l \in Leads : Cardinality(Delivered(l)) <= 1

DeliveredTo(b) == {k \in Keys : k[2] = b /\ post[k] = "delivered"}

SumOfBids(keys) == SumFunctionOnSet([k \in Keys |-> k[3]], keys)

\* Retried and overlapping runs bill a delivery once: the lead.posted rows of
\* a buyer, on which the daily cap, the monthly budget and the reports rest,
\* are exactly its delivered post_results.
DeliveriesBilledOnce ==
    \A b \in Buyers :
        /\ billed[b]["lead.posted"] = SumOfBids(DeliveredTo(b))
        /\ sold[b] = Cardinality(DeliveredTo(b))

\* The audit timeline tells the truth about sales, whatever was cut off: the
\* edge auctioned -> sold is there iff a delivery is, and a lead is shown as
\* sold only if one is.
TimelineShowsSales ==
    \A l \in Leads :
        /\ (<<"auctioned", "sold">> \in timeline[l]) = (Delivered(l) # {})
        /\ status[l] = "sold" => Delivered(l) # {}

\* No buyer is sold more leads in a day than its daily_cap, as long as runs
\* follow one another: the count is read when the buyers are selected, the row
\* that raises it is written several network calls later.
DailyCapKept == \A b \in Buyers : sold[b] <= DailyCap

\* A reserved amount does not stay reserved: the run that holds it delivers the
\* lead or gives the money back, unless it is cut off.
ReservationsSettle ==
    \A b \in Buyers :
        (Outstanding(b) > orphaned[b]) ~> (Outstanding(b) = orphaned[b])

\* An auction that ends without a sale reaches the nurture worker, unless a run
\* is cut off: the event is pushed after the commit and only once.
UnsoldIsNurtured ==
    \A l \in Leads :
        (<<"auctioned", "unsold">> \in timeline[l])
            ~> (<<"unsold", "nurtured">> \in timeline[l] \/ crashes > 0)

=============================================================================
