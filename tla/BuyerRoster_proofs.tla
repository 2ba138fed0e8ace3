------------------------- MODULE BuyerRoster_proofs -------------------------
(***************************************************************************)
(* What holds of the roster for any number of buyers, zips and overlapping *)
(* requests: who can share an exclusive zip, and whom the guardrails can   *)
(* pause.                                                                  *)
(***************************************************************************)
EXTENDS BuyerRoster, TLAPS

Updating(c) == call[c].pc \in {"load", "write"}
Inserting(c) == call[c].pc = "insert"
Trusted(c) == Updating(c) /\ call[c].names /\ ~call[c].overtaken

\* Requests and the rows they work on.
CallsOK ==
    /\ \A c \in Calls : Updating(c) => /\ call[c].buyer \in Buyers
                                       /\ Exists(call[c].buyer)
    /\ \A c \in Calls : Inserting(c) => /\ call[c].buyer \in Buyers
                                        /\ ~Exists(call[c].buyer)
    /\ \A c, d \in Calls : c # d /\ Inserting(c) /\ Inserting(d) =>
                             call[c].buyer # call[d].buyer
    /\ \A c \in Calls : call[c].pc = "idle" => call[c].buyer = NoBuyer

\* A check that nothing has overtaken still holds.
ChecksHold ==
    \A c \in Calls :
        Trusted(c) => /\ ~Conflict(call[c].buyer, call[c].zips)
                      /\ call[c].pc = "write" =>
                           call[c].seenZips = exclusive[call[c].buyer]

\* The buyers the evaluation deals with.
Listed == eval.todo \cup eval.paused
          \cup (IF eval.pc \in {"rate", "pause"} THEN {eval.buyer} ELSE {})

\* They were active, until an operator wrote them.
ListedOK ==
    \A b \in Listed : b \in Buyers /\ Exists(b) /\ (Active(b) \/ b \in touched)

\* What the evaluation counted is so, or has changed since in the buyer's favour.
CountsOK ==
    /\ eval.pc = "idle" => eval = IdleEval
    /\ eval.paused \cap eval.todo = {}
    /\ eval.pc \in {"rate", "pause"} => eval.buyer \notin eval.todo
    /\ eval.pc = "rate" =>
         eval.total = delivered[eval.buyer] \/ eval.buyer \in skewed
    /\ eval.pc = "pause" =>
         \/ Above(approved[eval.buyer], delivered[eval.buyer])
         \/ eval.buyer \in skewed
    /\ PausesAreJustified

\* The inductive invariant.
RosterInv ==
    /\ RosterTypeOK
    /\ CallsOK
    /\ ChecksHold
    /\ ListedOK
    /\ CountsOK
    /\ ExclusiveUnlessUnchecked

-----------------------------------------------------------------------------

LEMMA IdleTypes == IdleCall \in CallRecord /\ IdleEval \in EvalRecord
BY RosterAssumption
   DEF IdleCall, CallRecord, IdleEval, EvalRecord, BuyerStatuses

LEMMA RosterInitInv == RosterInit => RosterInv
<1>. SUFFICES ASSUME RosterInit  PROVE RosterInv
  OBVIOUS
<1>1. RosterTypeOK
  BY IdleTypes DEF RosterInit, RosterTypeOK, BuyerStatuses
<1>2. \A c \in Calls : call[c] = IdleCall
  BY DEF RosterInit
<1>3. CallsOK /\ ChecksHold
  BY <1>2
     DEF CallsOK, ChecksHold, Trusted, Updating, Inserting, IdleCall
<1>4. ListedOK /\ CountsOK
  BY DEF RosterInit, ListedOK, CountsOK, Listed, IdleEval, PausesAreJustified
<1>5. ExclusiveUnlessUnchecked
  BY DEF RosterInit, ExclusiveUnlessUnchecked, Active
<1>. QED  BY <1>1, <1>3, <1>4, <1>5 DEF RosterInv

-----------------------------------------------------------------------------
(* The requests.                                                           *)

\* A request begins: an update of a buyer there is, or an insert of one that
\* nobody else inserts.
LEMMA BeginInv ==
    ASSUME RosterInv, NEW c \in Calls, NEW new \in CallRecord,
           call[c].pc = "idle", call' = [call EXCEPT ![c] = new],
           new.buyer \in Buyers, ~new.overtaken,
           \/ /\ new.pc = "load" /\ Exists(new.buyer)
              /\ new.names => ~Conflict(new.buyer, new.zips)
           \/ /\ new.pc = "insert" /\ ~Exists(new.buyer)
              /\ \A d \in Calls : call[d].buyer # new.buyer,
           calls' \in Nat,
           UNCHANGED <<status, exclusive, salesVars, eval, failures, unsure,
                       served, touched, skewed>>
    PROVE  RosterInv'
<1>1. call \in [Calls -> CallRecord]
  BY DEF RosterInv, RosterTypeOK
<1>2. /\ call' \in [Calls -> CallRecord]
      /\ call'[c] = new
      /\ \A d \in Calls : d # c => call'[d] = call[d]
  BY <1>1
<1>3. RosterTypeOK'
  BY <1>2 DEF RosterInv, RosterTypeOK, salesVars
<1>4. CallsOK'
  BY <1>2 DEF RosterInv, CallsOK, Updating, Inserting, Exists
<1>5. ChecksHold'
  BY <1>2
     DEF RosterInv, ChecksHold, Trusted, Updating, Conflict, Active
<1>6. ListedOK' /\ CountsOK' /\ ExclusiveUnlessUnchecked'
  BY DEF RosterInv, ListedOK, Listed, CountsOK, PausesAreJustified,
         ExclusiveUnlessUnchecked, Active, Exists, Shared, salesVars
<1>. QED  BY <1>3, <1>4, <1>5, <1>6 DEF RosterInv

LEMMA BeginCreateInv ==
    ASSUME RosterInv, NEW c \in Calls, NEW b \in Buyers, NEW zips \in SUBSET Zips,
           BeginCreate(c, b, zips)
    PROVE  RosterInv'
<1>1. PICK new \in CallRecord :
          new = [IdleCall EXCEPT !.pc = "insert", !.buyer = b, !.names = TRUE,
                                 !.zips = zips]
  BY IdleTypes DEF IdleCall, CallRecord
<1>2. new.buyer = b /\ ~new.overtaken /\ new.pc = "insert"
  BY <1>1 DEF IdleCall
<1>3. calls' \in Nat
  BY DEF BeginCreate, RosterInv, RosterTypeOK
<1>. QED  BY <1>1, <1>2, <1>3, BeginInv DEF BeginCreate

LEMMA BeginUpdateInv ==
    ASSUME RosterInv, NEW c \in Calls, NEW b \in Buyers,
           NEW names \in BOOLEAN, NEW zips \in SUBSET Zips,
           NEW want \in Wanted \cup {"keep"},
           BeginUpdate(c, b, names, zips, want)
    PROVE  RosterInv'
<1>1. PICK new \in CallRecord :
          new = [IdleCall EXCEPT !.pc = "load", !.buyer = b, !.names = names,
                                 !.zips = zips, !.want = want]
  BY IdleTypes DEF IdleCall, CallRecord
<1>2. /\ new.buyer = b /\ ~new.overtaken /\ new.pc = "load"
      /\ new.names = names /\ new.zips = zips
  BY <1>1 DEF IdleCall
<1>3. calls' \in Nat
  BY DEF BeginUpdate, RosterInv, RosterTypeOK
<1>. QED  BY <1>1, <1>2, <1>3, BeginInv DEF BeginUpdate

LEMMA LoadBuyerInv ==
    ASSUME RosterInv, NEW c \in Calls, LoadBuyer(c)
    PROVE  RosterInv'
<1>1. /\ call \in [Calls -> CallRecord] /\ call[c].pc = "load"
      /\ call[c].buyer \in Buyers /\ Exists(call[c].buyer)
      /\ status \in [Buyers -> BuyerStatuses \cup {"absent"}]
      /\ exclusive \in [Buyers -> SUBSET Zips]
  BY DEF RosterInv, RosterTypeOK, LoadBuyer, CallsOK, Updating
<1>2. PICK new \in CallRecord :
          new = [call[c] EXCEPT !.pc = "write",
                                !.seen = status[call[c].buyer],
                                !.seenZips = exclusive[call[c].buyer]]
  BY <1>1 DEF CallRecord
<1>3. /\ new.pc = "write" /\ new.buyer = call[c].buyer
      /\ new.names = call[c].names /\ new.zips = call[c].zips
      /\ new.overtaken = call[c].overtaken
      /\ new.seenZips = exclusive[call[c].buyer]
  BY <1>1, <1>2 DEF CallRecord
<1>4. call' = [call EXCEPT ![c] = new]
  BY <1>1, <1>2 DEF LoadBuyer
<1>5. /\ call' \in [Calls -> CallRecord]
      /\ call'[c] = new
      /\ \A d \in Calls : d # c => call'[d] = call[d]
  BY <1>1, <1>4
<1>6. RosterTypeOK'
  BY <1>5 DEF RosterInv, RosterTypeOK, LoadBuyer, salesVars
<1>7. CallsOK'
  BY <1>1, <1>3, <1>5
     DEF RosterInv, CallsOK, Updating, Inserting, Exists, LoadBuyer
<1>8. ChecksHold'
  BY <1>1, <1>3, <1>5
     DEF RosterInv, ChecksHold, Trusted, Updating, Conflict, Active, LoadBuyer
<1>9. ListedOK' /\ CountsOK' /\ ExclusiveUnlessUnchecked'
  BY DEF LoadBuyer, RosterInv, ListedOK, Listed, CountsOK, PausesAreJustified,
         ExclusiveUnlessUnchecked, Active, Exists, Shared, salesVars
<1>. QED  BY <1>6, <1>7, <1>8, <1>9 DEF RosterInv

\* After a write no request that is under way is trusted, and the one that
\* wrote is over.
LEMMA WriteOvertakes ==
    ASSUME call \in [Calls -> CallRecord], NEW c \in Calls, WriteEnds(c)
    PROVE  /\ call' \in [Calls -> CallRecord]
           /\ call'[c] = IdleCall
           /\ \A d \in Calls : d # c =>
                /\ call'[d].pc = call[d].pc
                /\ call'[d].buyer = call[d].buyer
                /\ call[d].pc # "idle" => call'[d].overtaken
<1>1. ASSUME NEW d \in Calls
      PROVE  [call[d] EXCEPT !.overtaken = (call[d].pc # "idle")] \in CallRecord
  BY DEF CallRecord
<1>2. call' \in [Calls -> CallRecord]
  BY <1>1, IdleTypes DEF WriteEnds
<1>3. ASSUME NEW d \in Calls, d # c
      PROVE  call'[d] = [call[d] EXCEPT !.overtaken = (call[d].pc # "idle")]
  BY <1>3 DEF WriteEnds
<1>4. ASSUME NEW d \in Calls, d # c
      PROVE  /\ call'[d].pc = call[d].pc
             /\ call'[d].buyer = call[d].buyer
             /\ call[d].pc # "idle" => call'[d].overtaken
  <2>1. PICK t \in CallRecord : t = call[d]
    OBVIOUS
  <2>2. call'[d] = [t EXCEPT !.overtaken = (t.pc # "idle")]
    BY <1>3, <1>4, <2>1
  <2>3. call'[d].pc = t.pc /\ call'[d].buyer = t.buyer
    BY <2>2 DEF CallRecord
  <2>4. call'[d].overtaken = (t.pc # "idle")
    BY <2>2 DEF CallRecord
  <2>. QED  BY <2>1, <2>3, <2>4
<1>. QED  BY <1>2, <1>4 DEF WriteEnds

LEMMA InsertBuyerInv ==
    ASSUME RosterInv, NEW c \in Calls, InsertBuyer(c)
    PROVE  RosterInv'
<1>1. /\ call \in [Calls -> CallRecord]
      /\ call[c].pc = "insert" /\ WriteEnds(c)
  BY DEF RosterInv, RosterTypeOK, InsertBuyer
<1>2. PICK b \in Buyers : b = call[c].buyer /\ ~Exists(b)
  BY <1>1 DEF RosterInv, CallsOK, Inserting
<1>3. /\ status' = [status EXCEPT ![b] = "pending_verification"]
      /\ exclusive' = [exclusive EXCEPT ![b] = call[c].zips]
  BY <1>2 DEF InsertBuyer
<1>4. /\ status \in [Buyers -> BuyerStatuses \cup {"absent"}]
      /\ exclusive \in [Buyers -> SUBSET Zips]
      /\ call[c].zips \in SUBSET Zips
  BY <1>1 DEF RosterInv, RosterTypeOK, CallRecord
<1>5. /\ status' \in [Buyers -> BuyerStatuses \cup {"absent"}]
      /\ exclusive' \in [Buyers -> SUBSET Zips]
      /\ status'[b] = "pending_verification"
      /\ \A o \in Buyers \ {b} : /\ status'[o] = status[o]
                                 /\ exclusive'[o] = exclusive[o]
  BY <1>3, <1>4 DEF BuyerStatuses
<1>6. RosterTypeOK'
  BY <1>1, <1>5, WriteOvertakes
     DEF RosterInv, RosterTypeOK, InsertBuyer, salesVars
<1>7. CallsOK'
  <2>1. \A d \in Calls : d # c => call'[d].pc = call[d].pc
                                  /\ call'[d].buyer = call[d].buyer
    BY <1>1, WriteOvertakes
  <2>2. call'[c].pc = "idle" /\ call'[c].buyer = NoBuyer
    BY <1>1, WriteOvertakes DEF IdleCall
  <2>. QED
    BY <1>1, <1>2, <1>5, <2>1, <2>2
       DEF RosterInv, CallsOK, Updating, Inserting, Exists
<1>8. ChecksHold'
  BY <1>1, WriteOvertakes
     DEF ChecksHold, Trusted, Updating, IdleCall
<1>9. ListedOK'
  BY <1>2, <1>5
     DEF InsertBuyer, RosterInv, ListedOK, Listed, Exists, Active
<1>10. CountsOK'
  BY DEF InsertBuyer, RosterInv, CountsOK, PausesAreJustified, salesVars
<1>11. ExclusiveUnlessUnchecked'
  BY <1>5
     DEF InsertBuyer, RosterInv, ExclusiveUnlessUnchecked, Active, Shared
<1>. QED  BY <1>6, <1>7, <1>8, <1>9, <1>10, <1>11 DEF RosterInv

LEMMA WriteBuyerInv ==
    ASSUME RosterInv, NEW c \in Calls, WriteBuyer(c)
    PROVE  RosterInv'
<1>1. /\ call \in [Calls -> CallRecord]
      /\ call[c].pc = "write" /\ WriteEnds(c)
  BY DEF RosterInv, RosterTypeOK, WriteBuyer
<1>2. PICK b \in Buyers : b = call[c].buyer /\ Exists(b)
  BY <1>1 DEF RosterInv, CallsOK, Updating
<1>3. /\ status \in [Buyers -> BuyerStatuses \cup {"absent"}]
      /\ exclusive \in [Buyers -> SUBSET Zips]
      /\ call[c].zips \in SUBSET Zips
      /\ call[c].want \in BuyerStatuses \cup {"keep"}
  BY <1>1, RosterAssumption DEF RosterInv, RosterTypeOK, CallRecord
<1>4. /\ status' \in [Buyers -> BuyerStatuses \cup {"absent"}]
      /\ status'[b] # "absent"
      /\ \A o \in Buyers \ {b} : status'[o] = status[o]
  BY <1>2, <1>3 DEF WriteBuyer, Exists, BuyerStatuses
<1>5. /\ exclusive' \in [Buyers -> SUBSET Zips]
      /\ \A o \in Buyers \ {b} : exclusive'[o] = exclusive[o]
  BY <1>2, <1>3 DEF WriteBuyer
<1>6. /\ touched' \subseteq Buyers
      /\ eval.pc # "idle" => touched' = touched \cup {b}
  BY <1>2 DEF WriteBuyer, RosterInv, RosterTypeOK
<1>7. unsure' \subseteq Buyers /\ served' \subseteq Buyers
  BY <1>2 DEF WriteBuyer, RosterInv, RosterTypeOK
<1>8. RosterTypeOK'
  BY <1>1, <1>4, <1>5, <1>6, <1>7, WriteOvertakes
     DEF RosterInv, RosterTypeOK, WriteBuyer, salesVars
<1>9. CallsOK'
  <2>1. \A d \in Calls : d # c => call'[d].pc = call[d].pc
                                  /\ call'[d].buyer = call[d].buyer
    BY <1>1, WriteOvertakes
  <2>2. call'[c].pc = "idle" /\ call'[c].buyer = NoBuyer
    BY <1>1, WriteOvertakes DEF IdleCall
  <2>. QED
    BY <1>1, <1>2, <1>4, <2>1, <2>2
       DEF RosterInv, CallsOK, Updating, Inserting, Exists
<1>10. ChecksHold'
  BY <1>1, WriteOvertakes DEF ChecksHold, Trusted, Updating, IdleCall
<1>11. ListedOK'
  <2>1. CASE eval.pc = "idle"
    BY <2>1
       DEF WriteBuyer, RosterInv, CountsOK, ListedOK, Listed, IdleEval
  <2>2. CASE eval.pc # "idle"
    BY <1>4, <1>6, <2>2
       DEF WriteBuyer, RosterInv, ListedOK, Listed, Exists, Active
  <2>. QED  BY <2>1, <2>2
<1>12. CountsOK'
  BY DEF WriteBuyer, RosterInv, CountsOK, PausesAreJustified, salesVars
<1>13. ExclusiveUnlessUnchecked'
  <2>1. CASE Trusted(c)
    <3>1. ~Conflict(b, call[c].zips) /\ call[c].seenZips = exclusive[b]
      BY <1>1, <1>2, <2>1 DEF RosterInv, ChecksHold
    <3>2. exclusive'[b] = call[c].zips
      BY <1>2, <1>3, <2>1, <3>1 DEF WriteBuyer, Trusted
    <3>3. \A o \in Buyers \ {b} : Active(o)' => ~Shared(b, o)' /\ ~Shared(o, b)'
      BY <1>4, <1>5, <3>1, <3>2 DEF Conflict, Active, Shared
    <3>4. \A o \in Buyers \ {b} : o \in unsure => o \in unsure'
      BY <1>2 DEF WriteBuyer
    <3>. QED
      BY <1>4, <1>5, <3>3, <3>4
         DEF RosterInv, ExclusiveUnlessUnchecked, Active, Shared
  <2>2. CASE ~Trusted(c)
    <3>1. unsure' = unsure \cup {b}
      BY <1>1, <1>2, <2>2 DEF WriteBuyer, Trusted, Updating
    <3>. QED
      BY <1>4, <1>5, <3>1
         DEF RosterInv, ExclusiveUnlessUnchecked, Active, Shared
  <2>. QED  BY <2>1, <2>2
<1>. QED  BY <1>8, <1>9, <1>10, <1>11, <1>12, <1>13 DEF RosterInv

-----------------------------------------------------------------------------
(* Sales, returns and the evaluation.                                      *)

\* One more return does not lower a rate.
LEMMA MoreReturnsAbove ==
    ASSUME Tolerance \in Nat, NEW total \in Nat, NEW few \in Nat,
           NEW many \in Nat, few <= many, Above(few, total)
    PROVE  Above(many, total)
<1>1. PICK more \in Nat : many = few + more
  <2>1. many - few \in Nat /\ many = few + (many - few)
    OBVIOUS
  <2>. QED  BY <2>1
<1>2. Tolerance * many = Tolerance * few + Tolerance * more
  BY <1>1
<1>3. Tolerance * more \in Nat /\ Tolerance * few \in Nat
  OBVIOUS
<1>. QED  BY <1>2, <1>3 DEF Above

\* Sales and verdicts leave the evaluation what it has read of a buyer, or are
\* remembered to have changed it.
LEMMA CountsMove ==
    ASSUME RosterInv, UNCHANGED eval, skewed \subseteq skewed',
           \A o \in Counted : delivered'[o] = delivered[o] \/ o \in skewed',
           \A o \in Judged : Above(approved[o], delivered'[o]) =>
                                 \/ Above(approved'[o], delivered'[o])
                                 \/ o \in skewed'
    PROVE  CountsOK'
<1>1. Judged \subseteq Counted
  BY DEF Counted
<1>2. eval.paused \subseteq Judged
  BY DEF Judged
<1>3. eval.pc = "pause" => eval.buyer \in Judged
  BY DEF Judged
<1>4. eval.pc = "rate" => eval.buyer \in Counted
  BY DEF Counted
<1>5. \A o \in Judged : Above(approved[o], delivered[o]) =>
         Above(approved'[o], delivered'[o]) \/ o \in skewed'
  BY <1>1
<1>6. PausesAreJustified'
  BY <1>2, <1>5 DEF RosterInv, CountsOK, PausesAreJustified
<1>. QED  BY <1>3, <1>4, <1>5, <1>6 DEF RosterInv, CountsOK

LEMMA SalesInv ==
    ASSUME RosterInv, NEW b \in Buyers,
           DeliverLead(b) \/ ApproveReturn(b) \/ OverwriteApproval(b)
    PROVE  RosterInv'
<1>1. /\ delivered \in [Buyers -> Nat] /\ approved \in [Buyers -> Nat]
      /\ Tolerance \in Nat \ {0}
  BY RosterAssumption DEF RosterInv, RosterTypeOK
<1>2. approved' \in [Buyers -> Nat] /\ delivered' \in [Buyers -> Nat]
  <2>1. ASSUME approved[b] > 0  PROVE approved[b] - 1 \in Nat
    BY <1>1, <2>1
  <2>. QED
    BY <1>1, <2>1 DEF DeliverLead, ApproveReturn, OverwriteApproval
<1>3. RosterTypeOK'
  BY <1>2
     DEF RosterInv, RosterTypeOK, DeliverLead, ApproveReturn, OverwriteApproval
<1>4. CallsOK' /\ ChecksHold' /\ ListedOK' /\ ExclusiveUnlessUnchecked'
  BY DEF DeliverLead, ApproveReturn, OverwriteApproval, RosterInv, CallsOK,
         ChecksHold, ListedOK, Listed, ExclusiveUnlessUnchecked, Updating,
         Inserting, Trusted, Conflict, Active, Exists, Shared
<1>5. Judged \subseteq Buyers /\ Counted \subseteq Buyers
  BY DEF RosterInv, RosterTypeOK, EvalRecord, ListedOK, Listed, Judged, Counted
<1>6. CASE DeliverLead(b)
  <2>1. /\ skewed' = skewed \cup ({b} \cap Counted)
        /\ UNCHANGED <<eval, approved>>
        /\ \A o \in Buyers \ {b} : delivered'[o] = delivered[o]
    BY <1>1, <1>6 DEF DeliverLead
  <2>2. CountsOK'
    BY <1>5, <2>1, CountsMove
  <2>. QED  BY <1>3, <1>4, <2>2 DEF RosterInv
<1>7. CASE ApproveReturn(b)
  <2>1. \A o \in Buyers : /\ approved[o] \in Nat /\ approved'[o] \in Nat
                          /\ approved[o] <= approved'[o]
                          /\ delivered[o] \in Nat
    BY <1>1, <1>7 DEF ApproveReturn
  <2>2. \A o \in Buyers : Above(approved[o], delivered[o]) =>
                              Above(approved'[o], delivered[o])
    BY <1>1, <2>1, MoreReturnsAbove
  <2>3. UNCHANGED <<eval, delivered, skewed>>
    BY <1>7 DEF ApproveReturn
  <2>4. CountsOK'
    BY <1>5, <2>2, <2>3, CountsMove
  <2>. QED  BY <1>3, <1>4, <2>4 DEF RosterInv
<1>8. CASE OverwriteApproval(b)
  <2>1. /\ skewed' = skewed \cup ({b} \cap Judged)
        /\ UNCHANGED <<eval, delivered>>
        /\ \A o \in Buyers \ {b} : approved'[o] = approved[o]
    BY <1>1, <1>8 DEF OverwriteApproval
  <2>2. CountsOK'
    BY <1>5, <2>1, CountsMove
  <2>. QED  BY <1>3, <1>4, <2>2 DEF RosterInv
<1>. QED  BY <1>6, <1>7, <1>8

\* The evaluation leaves rows and requests alone until it commits.
LEMMA QuietEvaluation ==
    ASSUME RosterInv, eval' \in EvalRecord, skewed' \subseteq Buyers,
           touched' \subseteq Buyers, failures' \in Nat,
           UNCHANGED <<status, exclusive, salesVars, call, calls, unsure, served>>
    PROVE  /\ RosterTypeOK' /\ CallsOK' /\ ChecksHold'
           /\ ExclusiveUnlessUnchecked'
BY DEF RosterInv, RosterTypeOK, CallsOK, ChecksHold, ExclusiveUnlessUnchecked,
       Updating, Inserting, Trusted, Conflict, Active, Exists, Shared,
       salesVars

LEMMA ListActiveInv ==
    ASSUME RosterInv, ListActive
    PROVE  RosterInv'
<1>1. PICK new \in EvalRecord :
          new = [IdleEval EXCEPT !.pc = "next",
                                 !.todo = {b \in Buyers : Active(b)}]
  BY IdleTypes DEF IdleEval, EvalRecord
<1>2. /\ eval' = new /\ new.pc = "next" /\ new.paused = {}
      /\ new.todo = {b \in Buyers : Active(b)}
  BY <1>1 DEF ListActive, IdleEval
<1>3. RosterTypeOK' /\ CallsOK' /\ ChecksHold' /\ ExclusiveUnlessUnchecked'
  BY <1>2, QuietEvaluation DEF ListActive, RosterInv, RosterTypeOK
<1>4. ListedOK'
  BY <1>2 DEF ListActive, ListedOK, Listed, Active, Exists
<1>5. CountsOK'
  BY <1>2 DEF CountsOK, PausesAreJustified
<1>. QED  BY <1>3, <1>4, <1>5 DEF RosterInv

LEMMA CountDeliveredInv ==
    ASSUME RosterInv, NEW b \in Buyers, CountDelivered(b)
    PROVE  RosterInv'
<1>1. /\ eval \in EvalRecord /\ eval.pc = "next" /\ b \in eval.todo
      /\ delivered[b] \in Nat
  BY DEF RosterInv, RosterTypeOK, CountDelivered
<1>2. PICK new \in EvalRecord :
          new = [eval EXCEPT !.todo = @ \ {b}, !.buyer = b,
                   !.total = delivered[b],
                   !.pc = IF delivered[b] = 0 THEN "next" ELSE "rate"]
  BY <1>1 DEF EvalRecord
<1>3. /\ eval' = new /\ new.pc \in {"next", "rate"} /\ new.buyer = b
      /\ new.todo = eval.todo \ {b} /\ new.paused = eval.paused
      /\ new.total = delivered[b]
  BY <1>1, <1>2 DEF CountDelivered, EvalRecord
<1>4. RosterTypeOK' /\ CallsOK' /\ ChecksHold' /\ ExclusiveUnlessUnchecked'
  BY <1>3, QuietEvaluation DEF CountDelivered, RosterInv, RosterTypeOK
<1>5. ListedOK'
  BY <1>1, <1>3
     DEF CountDelivered, RosterInv, ListedOK, Listed, Active, Exists
<1>6. CountsOK'
  BY <1>1, <1>3
     DEF CountDelivered, RosterInv, CountsOK, PausesAreJustified, salesVars
<1>. QED  BY <1>4, <1>5, <1>6 DEF RosterInv

LEMMA CountApprovedInv ==
    ASSUME RosterInv, CountApproved
    PROVE  RosterInv'
<1>1. eval \in EvalRecord /\ eval.pc = "rate"
  BY DEF RosterInv, RosterTypeOK, CountApproved
<1>2. PICK new \in EvalRecord :
          new = [eval EXCEPT !.pc =
                   IF Above(approved[eval.buyer], eval.total)
                   THEN "pause" ELSE "next"]
  BY <1>1 DEF EvalRecord
<1>3. /\ eval' = new /\ new.buyer = eval.buyer
      /\ new.todo = eval.todo /\ new.paused = eval.paused
      /\ new.pc \in {"next", "pause"}
      /\ new.pc = "pause" => Above(approved[eval.buyer], eval.total)
  BY <1>1, <1>2 DEF CountApproved, EvalRecord
<1>4. RosterTypeOK' /\ CallsOK' /\ ChecksHold' /\ ExclusiveUnlessUnchecked'
  BY <1>3, QuietEvaluation DEF CountApproved, RosterInv, RosterTypeOK
<1>5. ListedOK'
  BY <1>1, <1>3
     DEF CountApproved, RosterInv, ListedOK, Listed, Active, Exists
<1>6. CountsOK'
  BY <1>1, <1>3
     DEF CountApproved, RosterInv, CountsOK, PausesAreJustified, salesVars
<1>. QED  BY <1>4, <1>5, <1>6 DEF RosterInv

LEMMA PauseBuyerInv ==
    ASSUME RosterInv, PauseBuyer
    PROVE  RosterInv'
<1>1. eval \in EvalRecord /\ eval.pc = "pause" /\ eval.buyer \in Buyers
  BY DEF RosterInv, RosterTypeOK, PauseBuyer, ListedOK, Listed
<1>2. PICK new \in EvalRecord :
          new = [eval EXCEPT !.pc = "next", !.paused = @ \cup {eval.buyer}]
  BY <1>1 DEF EvalRecord
<1>3. /\ eval' = new /\ new.pc = "next"
      /\ new.todo = eval.todo /\ new.paused = eval.paused \cup {eval.buyer}
  BY <1>1, <1>2 DEF PauseBuyer, EvalRecord
<1>4. RosterTypeOK' /\ CallsOK' /\ ChecksHold' /\ ExclusiveUnlessUnchecked'
  BY <1>3, QuietEvaluation DEF PauseBuyer, RosterInv, RosterTypeOK
<1>5. ListedOK'
  BY <1>1, <1>3
     DEF PauseBuyer, RosterInv, ListedOK, Listed, Active, Exists
<1>6. CountsOK'
  BY <1>1, <1>3
     DEF PauseBuyer, RosterInv, CountsOK, PausesAreJustified, salesVars
<1>. QED  BY <1>4, <1>5, <1>6 DEF RosterInv

LEMMA CommitPausesInv ==
    ASSUME RosterInv, CommitPauses
    PROVE  RosterInv'
<1>1. /\ status \in [Buyers -> BuyerStatuses \cup {"absent"}]
      /\ \A b \in eval.paused : Exists(b)
  BY DEF RosterInv, RosterTypeOK, ListedOK, Listed
<1>2. /\ status' \in [Buyers -> BuyerStatuses \cup {"absent"}]
      /\ \A b \in Buyers : /\ Exists(b) <=> Exists(b)'
                           /\ Active(b)' => Active(b)
  BY <1>1 DEF CommitPauses, Exists, Active, BuyerStatuses
<1>3. RosterTypeOK'
  BY <1>2, IdleTypes DEF CommitPauses, RosterInv, RosterTypeOK, salesVars
<1>4. CallsOK'
  BY <1>2 DEF CommitPauses, RosterInv, CallsOK, Updating, Inserting
<1>5. ChecksHold'
  <2>1. ASSUME NEW b \in Buyers, NEW zips, ~Conflict(b, zips)
        PROVE  ~Conflict(b, zips)'
    BY <1>2, <2>1 DEF CommitPauses, Conflict
  <2>2. \A c \in Calls : Trusted(c)' => Trusted(c) /\ call[c].buyer \in Buyers
    BY DEF CommitPauses, RosterInv, CallsOK, Trusted, Updating
  <2>. QED  BY <2>1, <2>2 DEF CommitPauses, RosterInv, ChecksHold
<1>6. ListedOK' /\ CountsOK'
  BY DEF CommitPauses, ListedOK, Listed, CountsOK, IdleEval,
         PausesAreJustified
<1>7. ExclusiveUnlessUnchecked'
  BY <1>2 DEF CommitPauses, RosterInv, ExclusiveUnlessUnchecked, Shared
<1>. QED  BY <1>3, <1>4, <1>5, <1>6, <1>7 DEF RosterInv

LEMMA FailEvaluationInv ==
    ASSUME RosterInv, FailEvaluation
    PROVE  RosterInv'
<1>1. RosterTypeOK' /\ CallsOK' /\ ChecksHold' /\ ExclusiveUnlessUnchecked'
  BY IdleTypes, QuietEvaluation DEF FailEvaluation, RosterInv, RosterTypeOK
<1>2. ListedOK' /\ CountsOK'
  BY DEF FailEvaluation, ListedOK, Listed, CountsOK, IdleEval,
         PausesAreJustified
<1>. QED  BY <1>1, <1>2 DEF RosterInv

LEMMA RosterStepInv ==
    ASSUME RosterInv, [RosterNext]_vars
    PROVE  RosterInv'
<1>1. ASSUME NEW c \in Calls, NEW b \in Buyers, NEW want \in Wanted,
             BeginUpdate(c, b, FALSE, {}, want)
      PROVE  RosterInv'
  BY <1>1, BeginUpdateInv
<1>2. CASE Evaluate
  BY <1>2, ListActiveInv, CountDeliveredInv, CountApprovedInv, PauseBuyerInv,
     CommitPausesInv
     DEF Evaluate
<1>3. CASE UNCHANGED vars
  BY <1>3
     DEF vars, salesVars, RosterInv, RosterTypeOK, CallsOK, ChecksHold,
         ListedOK, Listed, CountsOK, PausesAreJustified,
         ExclusiveUnlessUnchecked, Updating, Inserting, Trusted, Conflict,
         Active, Exists, Shared
<1>. QED
  BY <1>1, <1>2, <1>3, BeginCreateInv, BeginUpdateInv, InsertBuyerInv,
     LoadBuyerInv, WriteBuyerInv, SalesInv, FailEvaluationInv
     DEF RosterNext

-----------------------------------------------------------------------------

\* The invariant holds in every state.
THEOREM RosterInvariant == RosterSpec => []RosterInv
<1>1. RosterInit => RosterInv
  BY RosterInitInv
<1>2. RosterInv /\ [RosterNext]_vars => RosterInv'
  BY RosterStepInv
<1>. QED  BY <1>1, <1>2, PTL DEF RosterSpec

\* Every variable keeps its type.
THEOREM RosterTypes == RosterSpec => []RosterTypeOK
<1>1. RosterInv => RosterTypeOK
  BY DEF RosterInv
<1>. QED  BY <1>1, RosterInvariant, PTL

\* Two active buyers own a zip only if one of them was last written unchecked,
\* or with a check that another call had overtaken.
THEOREM OnlyUncheckedShare == RosterSpec => []ExclusiveUnlessUnchecked
<1>1. RosterInv => ExclusiveUnlessUnchecked
  BY DEF RosterInv
<1>. QED  BY <1>1, RosterInvariant, PTL

\* A pause of guardrails.py is due until it is committed, or a sale or an
\* overwritten approval (api.py, review_return_request) came after the count.
THEOREM PausesAreDue == RosterSpec => []PausesAreJustified
<1>1. RosterInv => PausesAreJustified
  BY DEF RosterInv, CountsOK
<1>. QED  BY <1>1, RosterInvariant, PTL

\* The evaluation ends no status but active, unless an operator wrote the buyer
\* after the listing.
THEOREM OnlyActiveArePaused == RosterSpec => PausesActiveBuyers
<1>1. ASSUME RosterInv, [RosterNext]_vars
      PROVE  [\A b \in Buyers : b \in eval.paused /\ status'[b] # status[b] =>
                Active(b) \/ b \in touched]_vars
  BY <1>1 DEF RosterInv, ListedOK, Listed
<1>. QED
  BY <1>1, RosterInvariant, PTL DEF RosterSpec, PausesActiveBuyers

=============================================================================
