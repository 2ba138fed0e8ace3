--------------------------- MODULE Returns_proofs ---------------------------
(***************************************************************************)
(* What the two return handlers guarantee for any number of sales, return  *)
(* requests and overlapping calls: wallets move as Wallet allows, a sale   *)
(* has one active request, and the records of an approval agree; and, for  *)
(* a sale whose handlers do not overlap, one credit and a settled verdict. *)
(***************************************************************************)
EXTENDS Returns, Wallet_proofs, FiniteSetTheorems

Rows == [sale : Sales, status : {"pending_review", "held", "approved", "rejected"}]

ReturnCalls == [pc : {"active", "insert"}, kind : {"return"}, sale : Sales]

ReviewCalls == [pc : {"sale", "buyer", "write"}, kind : DOMAIN Verdict,
                sale : Sales, id : RequestIds, status : ActiveStatuses,
                returned : BOOLEAN]

Busy(q)      == call[q] # NoCall
Reviewing(q) == call[q] \in ReviewCalls

\* Every variable and every call in flight has its type.
TypesInv ==
    /\ sale \in [Sales -> Runs \cup {"open", "delivered", "failed"}]
    /\ returned \in [Sales -> BOOLEAN]
    /\ rows \in [RequestIds -> {NoRow} \cup Rows]
    /\ call \in [Requests -> {NoCall} \cup ReturnCalls \cup ReviewCalls]
    /\ timeline \in [Sales -> SUBSET ({"lead.return_requested"} \cup
                                      {Event[k] : k \in DOMAIN Verdict})]
    /\ credits \in [Sales -> Nat]
    /\ overlapped \in [Sales -> BOOLEAN]

\* A review works on an existing request, of the sale it has loaded.
ReviewsKnowTheirRow ==
    \A q \in Requests : Reviewing(q) =>
        /\ rows[call[q].id] \in Rows
        /\ rows[call[q].id].sale = call[q].sale

\* At most one active request, without counting.
ActiveIsUnique == \A s \in Sales : \A i, j \in ActiveRows(s) : i = j

\* Two calls on one sale have been noticed.
OverlapsAreNoted ==
    \A p, q \in Requests :
        Busy(p) /\ Busy(q) /\ call[p].sale = call[q].sale /\ p # q
            => overlapped[call[q].sale]

\* What a call that is alone on its sale has read is still so.
ReadsAreFresh ==
    \A q \in Requests : Busy(q) /\ ~overlapped[call[q].sale] =>
        /\ call[q].kind = "return" => ~returned[call[q].sale]
        /\ Reviewing(q) => rows[call[q].id].status = call[q].status
        /\ At(q, "write") /\ call[q].kind = "approve" => ~returned[call[q].sale]
        /\ At(q, "buyer") => call[q].returned = returned[call[q].sale]

\* What concerns the sales and their requests.
SalesInv ==
    /\ TypesInv
    /\ ReviewsKnowTheirRow
    /\ ActiveIsUnique
    /\ ApprovalsAgree
    /\ OverlapsAreNoted
    /\ ReadsAreFresh
    /\ ReturnsConsistent
    /\ CreditedOnceAlone

\* The inductive invariant of the returns.
ReturnsInv == WalletInv /\ SalesInv

-----------------------------------------------------------------------------
(* Calls in flight.                                                        *)

LEMMA NoCallIsIdle == NoCall.pc = "idle" /\ NoCall \notin ReturnCalls \cup ReviewCalls
BY DEF NoCall, ReturnCalls, ReviewCalls

LEMMA VerdictsAreThree == DOMAIN Verdict = {"hold", "reject", "approve"}
BY DEF Verdict

\* A call that is in flight is of a return or of a review, by its step.
LEMMA CallIsTyped ==
    ASSUME TypesInv, NEW q \in Requests, Busy(q)
    PROVE  /\ call[q].sale \in Sales
           /\ \/ /\ call[q] \in ReturnCalls
                 /\ call[q].kind = "return"
                 /\ call[q].pc \in {"active", "insert"}
                 /\ ~Reviewing(q)
              \/ /\ Reviewing(q)
                 /\ call[q].kind \in {"hold", "reject", "approve"}
                 /\ call[q].pc \in {"sale", "buyer", "write"}
                 /\ call[q].id \in RequestIds
                 /\ call[q].status \in ActiveStatuses
                 /\ call[q].returned \in BOOLEAN
<1>1. call[q] \in ReturnCalls \/ call[q] \in ReviewCalls
  BY DEF TypesInv, Busy
<1>2. CASE call[q] \in ReturnCalls
  BY <1>2 DEF ReturnCalls, ReviewCalls, Reviewing
<1>3. CASE call[q] \in ReviewCalls
  BY <1>3, VerdictsAreThree DEF ReviewCalls, Reviewing
<1>. QED  BY <1>1, <1>2, <1>3

\* A call that ends disturbs nothing.
LEMMA DoneKept ==
    ASSUME SalesInv, NEW q \in Requests, Done(q),
           UNCHANGED <<saleVars, overlapped>>
    PROVE  SalesInv'
<1>1. TypesInv'
  BY DEF SalesInv, TypesInv, Done, saleVars
<1>2. call'[q] = NoCall /\ \A p \in Requests : p # q => call'[p] = call[p]
  BY DEF Done, SalesInv, TypesInv
<1>3. ReviewsKnowTheirRow' /\ OverlapsAreNoted' /\ ReadsAreFresh'
  BY <1>2, NoCallIsIdle
     DEF SalesInv, ReviewsKnowTheirRow, OverlapsAreNoted, ReadsAreFresh, Busy,
         Reviewing, At, saleVars
<1>4. ActiveIsUnique' /\ ApprovalsAgree' /\ ReturnsConsistent' /\ CreditedOnceAlone'
  BY DEF SalesInv, ActiveIsUnique, ApprovalsAgree, ReturnsConsistent,
         CreditedOnceAlone, ActiveRows, saleVars
<1>. QED  BY <1>1, <1>3, <1>4 DEF SalesInv

\* A wallet step, of a run or of a deposit.
LEMMA SaleStepKept ==
    ASSUME SalesInv, sale' \in [Sales -> Runs \cup {"open", "delivered", "failed"}],
           UNCHANGED <<returned, rows, call, timeline, credits, overlapped>>
    PROVE  SalesInv'
BY DEF SalesInv, TypesInv, ReviewsKnowTheirRow, ActiveIsUnique, ApprovalsAgree,
       OverlapsAreNoted, ReadsAreFresh, ReturnsConsistent, CreditedOnceAlone,
       Busy, Reviewing, At, ActiveRows

\* A call goes on with what it knows, and perhaps with what it has just read.
LEMMA AdvanceKept ==
    ASSUME SalesInv, NEW q \in Requests, Busy(q),
           NEW new \in ReturnCalls \cup ReviewCalls,
           call' = [call EXCEPT ![q] = new],
           UNCHANGED <<saleVars, overlapped>>,
           new.sale = call[q].sale, new.kind = call[q].kind,
           new \in ReviewCalls =>
               Reviewing(q) /\ new.id = call[q].id /\ new.status = call[q].status,
           new.pc = "write" /\ new.kind = "approve" /\ ~overlapped[new.sale]
               => ~returned[new.sale],
           new.pc = "buyer" => new.returned = returned[new.sale]
    PROVE  SalesInv'
<1>1. TypesInv'
  BY DEF SalesInv, TypesInv, saleVars
<1>2. call'[q] = new /\ \A p \in Requests : p # q => call'[p] = call[p]
  BY DEF SalesInv, TypesInv
<1>3. ReviewsKnowTheirRow' /\ OverlapsAreNoted' /\ ReadsAreFresh'
  BY <1>2
     DEF SalesInv, ReviewsKnowTheirRow, OverlapsAreNoted, ReadsAreFresh, Busy,
         Reviewing, At, saleVars
<1>4. ActiveIsUnique' /\ ApprovalsAgree' /\ ReturnsConsistent' /\ CreditedOnceAlone'
  BY DEF SalesInv, ActiveIsUnique, ApprovalsAgree, ReturnsConsistent,
         CreditedOnceAlone, ActiveRows, saleVars
<1>. QED  BY <1>1, <1>3, <1>4 DEF SalesInv

-----------------------------------------------------------------------------
(* The first and the last step of the two handlers.                        *)

\* A call begins: alone, it has just read the row it decides on; not alone, the
\* overlap is noted.
LEMMA BeginKept ==
    ASSUME SalesInv, NEW q \in Requests, call[q] = NoCall,
           NEW new \in ReturnCalls \cup ReviewCalls,
           Begin(q, new.sale, new), UNCHANGED saleVars,
           new.sale \in Sales,
           new.kind = "return" => ~returned[new.sale],
           new \in ReviewCalls =>
               /\ new.pc = "sale"
               /\ rows[new.id] \in Rows
               /\ rows[new.id].sale = new.sale
               /\ rows[new.id].status = new.status,
           new.pc \notin {"write", "buyer"}
    PROVE  SalesInv'
<1>1. /\ call' = [call EXCEPT ![q] = new]
      /\ overlapped' = [overlapped EXCEPT ![new.sale] =
            @ \/ \E p \in Requests : call[p] # NoCall /\ call[p].sale = new.sale]
  BY DEF Begin
<1>2. call'[q] = new /\ \A p \in Requests : p # q => call'[p] = call[p]
  BY <1>1 DEF SalesInv, TypesInv
<1>3. /\ overlapped' \in [Sales -> BOOLEAN]
      /\ \A s \in Sales : overlapped[s] => overlapped'[s]
      /\ \A p \in Requests : Busy(p) /\ call[p].sale = new.sale => overlapped'[new.sale]
  BY <1>1 DEF SalesInv, TypesInv, Busy
<1>4. TypesInv'
  BY <1>1, <1>3 DEF SalesInv, TypesInv, saleVars
<1>5. \A p \in Requests : Busy(p) => call[p].sale \in Sales
  BY CallIsTyped DEF SalesInv
<1>6. ReviewsKnowTheirRow'
  BY <1>2 DEF SalesInv, ReviewsKnowTheirRow, Reviewing, saleVars
<1>7. OverlapsAreNoted'
  BY <1>2, <1>3, <1>5 DEF SalesInv, OverlapsAreNoted, Busy
<1>8. ReadsAreFresh'
  BY <1>2, <1>3, <1>5
     DEF SalesInv, ReadsAreFresh, Busy, Reviewing, At, saleVars
<1>9. ActiveIsUnique' /\ ApprovalsAgree'
  BY DEF SalesInv, ActiveIsUnique, ApprovalsAgree, ActiveRows, saleVars
<1>10. ReturnsConsistent' /\ CreditedOnceAlone'
  BY <1>3 DEF SalesInv, ReturnsConsistent, CreditedOnceAlone, ActiveRows, saleVars
<1>. QED  BY <1>4, <1>6, <1>7, <1>8, <1>9, <1>10 DEF SalesInv

LEMMA BeginReturnKept ==
    ASSUME SalesInv, NEW q \in Requests, NEW s \in Sales, BeginReturn(q, s)
    PROVE  SalesInv'
<1>. DEFINE new == [pc |-> "active", kind |-> "return", sale |-> s]
<1>1. new \in ReturnCalls /\ new \notin ReviewCalls
  BY DEF ReturnCalls, ReviewCalls
<1>2. new.sale = s /\ new.kind = "return" /\ new.pc = "active"
  OBVIOUS
<1>3. call[q] = NoCall /\ Begin(q, s, new) /\ ~returned[s] /\ UNCHANGED saleVars
  BY DEF BeginReturn, Free
<1>. HIDE DEF new
<1>. QED  BY <1>1, <1>2, <1>3, BeginKept

LEMMA BeginReviewKept ==
    ASSUME SalesInv, NEW q \in Requests, NEW i \in RequestIds,
           NEW action \in DOMAIN Verdict, BeginReview(q, i, action)
    PROVE  SalesInv'
<1>. DEFINE new == [pc |-> "sale", kind |-> action, sale |-> rows[i].sale,
                    id |-> i, status |-> rows[i].status, returned |-> FALSE]
<1>1. rows[i] \in Rows /\ rows[i].sale \in Sales /\ rows[i].status \in ActiveStatuses
  BY DEF BeginReview, SalesInv, TypesInv, Rows
<1>2. new \in ReviewCalls
  BY <1>1 DEF ReviewCalls
<1>3. /\ new.sale = rows[i].sale /\ new.kind = action /\ new.pc = "sale"
      /\ new.id = i /\ new.status = rows[i].status
  OBVIOUS
<1>4. action # "return"
  BY VerdictsAreThree
<1>5. call[q] = NoCall /\ Begin(q, rows[i].sale, new) /\ UNCHANGED saleVars
  BY DEF BeginReview, Free
<1>. HIDE DEF new
<1>. QED  BY <1>1, <1>2, <1>3, <1>4, <1>5, BeginKept

\* A call that has read more and goes on, ends or fails.
LEMMA ReadsKept ==
    ASSUME SalesInv, NEW q \in Requests,
           FindActive(q) \/ LoadSale(q) \/ LoadBuyer(q) \/ Abort(q)
    PROVE  SalesInv'
<1>1. CASE Abort(q)
  BY <1>1, DoneKept DEF Abort
<1>2. CASE FindActive(q)
  <2>1. Busy(q)
    BY <1>2, NoCallIsIdle DEF FindActive, At, Busy
  <2>2. CASE Done(q)
    BY <1>2, <2>2, DoneKept DEF FindActive
  <2>3. CASE Advance(q, "insert")
    <3>. DEFINE new == [call[q] EXCEPT !.pc = "insert"]
    <3>1. call[q] \in ReturnCalls /\ call[q].kind = "return"
      BY <1>2, <2>1, CallIsTyped DEF SalesInv, FindActive, At
    <3>2. /\ new \in ReturnCalls /\ new \notin ReviewCalls
          /\ new.sale = call[q].sale /\ new.kind = call[q].kind /\ new.pc = "insert"
      BY <3>1 DEF ReturnCalls, ReviewCalls
    <3>3. call' = [call EXCEPT ![q] = new]
      BY <2>3 DEF Advance
    <3>. HIDE DEF new
    <3>. QED  BY <1>2, <2>1, <3>2, <3>3, AdvanceKept DEF FindActive
  <2>. QED  BY <1>2, <2>2, <2>3 DEF FindActive
<1>3. CASE LoadSale(q)
  <2>. DEFINE new == [call[q] EXCEPT !.pc = "buyer", !.returned = returned[call[q].sale]]
  <2>1. Busy(q)
    BY <1>3, NoCallIsIdle DEF LoadSale, At, Busy
  <2>2. Reviewing(q) /\ call[q].sale \in Sales
    BY <1>3, <2>1, CallIsTyped DEF SalesInv, LoadSale, At
  <2>3. returned[call[q].sale] \in BOOLEAN
    BY <2>2 DEF SalesInv, TypesInv
  <2>4. /\ new \in ReviewCalls
        /\ new.sale = call[q].sale /\ new.kind = call[q].kind /\ new.pc = "buyer"
        /\ new.id = call[q].id /\ new.status = call[q].status
        /\ new.returned = returned[call[q].sale]
    BY <2>2, <2>3 DEF ReviewCalls, Reviewing
  <2>5. call' = [call EXCEPT ![q] = new] /\ UNCHANGED <<saleVars, overlapped>>
    BY <1>3 DEF LoadSale
  <2>. HIDE DEF new
  <2>. QED  BY <2>1, <2>2, <2>4, <2>5, AdvanceKept
<1>4. CASE LoadBuyer(q)
  <2>1. Busy(q)
    BY <1>4, NoCallIsIdle DEF LoadBuyer, At, Busy
  <2>2. Reviewing(q)
    BY <1>4, <2>1, CallIsTyped DEF SalesInv, LoadBuyer, At
  <2>3. CASE Done(q)
    BY <1>4, <2>3, DoneKept DEF LoadBuyer
  <2>4. CASE /\ Advance(q, "write")
             /\ ~(call[q].kind = "approve" /\ call[q].returned)
    <3>. DEFINE new == [call[q] EXCEPT !.pc = "write"]
    <3>1. /\ new \in ReviewCalls
          /\ new.sale = call[q].sale /\ new.kind = call[q].kind /\ new.pc = "write"
          /\ new.id = call[q].id /\ new.status = call[q].status
      BY <2>2 DEF ReviewCalls, Reviewing
    <3>2. call' = [call EXCEPT ![q] = new] /\ UNCHANGED <<saleVars, overlapped>>
      BY <1>4, <2>4 DEF LoadBuyer, Advance
    <3>3. call[q].kind = "approve" /\ ~overlapped[call[q].sale]
             => ~returned[call[q].sale]
      BY <1>4, <2>1, <2>4 DEF SalesInv, ReadsAreFresh, LoadBuyer, At
    <3>. HIDE DEF new
    <3>. QED  BY <2>1, <2>2, <3>1, <3>2, <3>3, AdvanceKept
  <2>. QED  BY <1>4, <2>3, <2>4 DEF LoadBuyer
<1>. QED  BY <1>1, <1>2, <1>3, <1>4

-----------------------------------------------------------------------------
(* The commits.                                                            *)

\* A call commits one row of its sale: no other call relied on it, or the
\* overlap is noted; and the unique index keeps the active request unique.
LEMMA RowWritten ==
    ASSUME SalesInv, NEW q \in Requests, Busy(q), Done(q),
           NEW i \in RequestIds, NEW row \in Rows,
           rows' = [rows EXCEPT ![i] = row],
           row.sale = call[q].sale,
           rows[i] = NoRow \/ rows[i].sale = row.sale,
           row.status \in ActiveStatuses => ActiveRows(row.sale) \subseteq {i},
           UNCHANGED <<sale, overlapped>>,
           \A s \in Sales : s # row.sale => returned'[s] = returned[s]
    PROVE  /\ rows' \in [RequestIds -> {NoRow} \cup Rows]
           /\ call' \in [Requests -> {NoCall} \cup ReturnCalls \cup ReviewCalls]
           /\ ReviewsKnowTheirRow' /\ ActiveIsUnique'
           /\ OverlapsAreNoted' /\ ReadsAreFresh'
<1>1. /\ rows' \in [RequestIds -> {NoRow} \cup Rows]
      /\ call' \in [Requests -> {NoCall} \cup ReturnCalls \cup ReviewCalls]
  BY DEF SalesInv, TypesInv, Done
<1>2. /\ call'[q] = NoCall
      /\ \A p \in Requests : p # q => call'[p] = call[p]
      /\ rows'[i] = row
      /\ \A j \in RequestIds : j # i => rows'[j] = rows[j]
  BY DEF SalesInv, TypesInv, Done
<1>3. ReviewsKnowTheirRow'
  <2>. SUFFICES ASSUME NEW p \in Requests, Reviewing(p)'
                PROVE  /\ rows'[call'[p].id] \in Rows
                       /\ rows'[call'[p].id].sale = call'[p].sale
    BY DEF ReviewsKnowTheirRow
  <2>1. p # q /\ call'[p] = call[p] /\ Reviewing(p)
    BY <1>2, NoCallIsIdle DEF Reviewing
  <2>2. rows[call[p].id] \in Rows /\ rows[call[p].id].sale = call[p].sale
    BY <2>1 DEF SalesInv, ReviewsKnowTheirRow
  <2>3. rows[call[p].id] # NoRow
    BY <2>2 DEF Rows, NoRow
  <2>4. call[p].id \in RequestIds
    BY <2>1 DEF Reviewing, ReviewCalls
  <2>. QED  BY <1>2, <2>1, <2>2, <2>3, <2>4
<1>4. ActiveIsUnique'
  <2>. SUFFICES ASSUME NEW s \in Sales, NEW j \in ActiveRows(s)', NEW k \in ActiveRows(s)'
                PROVE  j = k
    BY DEF ActiveIsUnique
  <2>1. ASSUME NEW h \in ActiveRows(s)', h # i
        PROVE  h \in ActiveRows(s)
    BY <1>2, <2>1 DEF ActiveRows
  <2>2. i \in ActiveRows(s)' => row.sale = s /\ row.status \in ActiveStatuses
    BY <1>2 DEF ActiveRows
  <2>. QED  BY <2>1, <2>2 DEF SalesInv, ActiveIsUnique
<1>5. OverlapsAreNoted'
  BY <1>2 DEF SalesInv, OverlapsAreNoted, Busy
<1>6. ReadsAreFresh'
  <2>. SUFFICES ASSUME NEW p \in Requests, Busy(p)', ~overlapped'[call'[p].sale]
                PROVE  /\ call'[p].kind = "return" => ~returned'[call'[p].sale]
                       /\ Reviewing(p)' => rows'[call'[p].id].status = call'[p].status
                       /\ call'[p].pc = "write" /\ call'[p].kind = "approve"
                             => ~returned'[call'[p].sale]
                       /\ call'[p].pc = "buyer"
                             => call'[p].returned = returned'[call'[p].sale]
    BY DEF ReadsAreFresh, At
  <2>1. p # q /\ call'[p] = call[p] /\ Busy(p)
    BY <1>2 DEF Busy
  <2>2. call[p].sale # row.sale /\ call[p].sale \in Sales
    BY <2>1, CallIsTyped DEF SalesInv, OverlapsAreNoted
  <2>3. /\ call[p].kind = "return" => ~returned[call[p].sale]
        /\ Reviewing(p) => rows[call[p].id].status = call[p].status
        /\ call[p].pc = "write" /\ call[p].kind = "approve" => ~returned[call[p].sale]
        /\ call[p].pc = "buyer" => call[p].returned = returned[call[p].sale]
    BY <2>1 DEF SalesInv, ReadsAreFresh, At
  <2>4. Reviewing(p) => rows'[call[p].id] = rows[call[p].id]
    <3>. SUFFICES ASSUME Reviewing(p) PROVE rows'[call[p].id] = rows[call[p].id]
      OBVIOUS
    <3>1. rows[call[p].id] \in Rows /\ rows[call[p].id].sale = call[p].sale
      BY DEF SalesInv, ReviewsKnowTheirRow
    <3>2. rows[call[p].id] # NoRow /\ call[p].id \in RequestIds
      BY <3>1 DEF Rows, NoRow, Reviewing, ReviewCalls
    <3>. QED  BY <1>2, <2>2, <3>1, <3>2
  <2>5. Reviewing(p)' => Reviewing(p)
    BY <2>1 DEF Reviewing
  <2>6. returned'[call[p].sale] = returned[call[p].sale]
    BY <2>2
  <2>. QED  BY <2>1, <2>3, <2>4, <2>5, <2>6
<1>. QED  BY <1>1, <1>3, <1>4, <1>5, <1>6

LEMMA InsertKept ==
    ASSUME SalesInv, NEW q \in Requests, NEW i \in RequestIds, InsertRequest(q, i)
    PROVE  SalesInv'
<1>. DEFINE s == call[q].sale
            row == [sale |-> s, status |-> "pending_review"]
<1>1. Busy(q)
  BY NoCallIsIdle DEF InsertRequest, At, Busy
<1>2. s \in Sales /\ call[q].kind = "return"
  BY <1>1, CallIsTyped DEF SalesInv, InsertRequest, At
<1>3. row \in Rows /\ row.sale = s /\ row.status = "pending_review"
  BY <1>2 DEF Rows
<1>4. /\ Done(q) /\ rows' = [rows EXCEPT ![i] = row] /\ rows[i] = NoRow
      /\ ActiveRows(s) = {}
      /\ UNCHANGED <<sale, returned, credits, overlapped>>
      /\ timeline' = [timeline EXCEPT ![s] = @ \cup {"lead.return_requested"}]
  BY DEF InsertRequest, RecordEvent
<1>. HIDE DEF row
<1>5. /\ rows' \in [RequestIds -> {NoRow} \cup Rows]
      /\ call' \in [Requests -> {NoCall} \cup ReturnCalls \cup ReviewCalls]
      /\ ReviewsKnowTheirRow' /\ ActiveIsUnique'
      /\ OverlapsAreNoted' /\ ReadsAreFresh'
  BY <1>1, <1>3, <1>4, RowWritten
<1>6. TypesInv'
  BY <1>2, <1>4, <1>5 DEF SalesInv, TypesInv
<1>7. /\ rows'[i] = row
      /\ \A j \in RequestIds : j # i => rows'[j] = rows[j]
      /\ \A t \in Sales : ("lead.return_approved" \in timeline'[t])
                               = ("lead.return_approved" \in timeline[t])
  BY <1>2, <1>4 DEF SalesInv, TypesInv
<1>8. ApprovalsAgree'
  BY <1>3, <1>4, <1>7 DEF SalesInv, ApprovalsAgree
<1>9. ReturnsConsistent'
  <2>. SUFFICES ASSUME NEW t \in Sales, returned'[t], ~overlapped'[t]
                PROVE  /\ \E j \in RequestIds : /\ rows'[j].status = "approved"
                                                 /\ rows'[j].sale = t
                       /\ ActiveRows(t)' = {}
    BY DEF ReturnsConsistent
  <2>1. returned[t] /\ ~overlapped[t]
    BY <1>4
  <2>2. t # s
    BY <1>1, <1>2, <2>1 DEF SalesInv, ReadsAreFresh
  <2>3. PICK j \in RequestIds : rows[j].status = "approved" /\ rows[j].sale = t
    BY <2>1 DEF SalesInv, ReturnsConsistent
  <2>4. ActiveRows(t) = {}
    BY <2>1 DEF SalesInv, ReturnsConsistent
  <2>5. j # i
    BY <1>4, <2>3 DEF NoRow
  <2>. QED  BY <1>3, <1>7, <2>2, <2>3, <2>4, <2>5 DEF ActiveRows
<1>10. CreditedOnceAlone'
  BY <1>4 DEF SalesInv, CreditedOnceAlone
<1>. QED  BY <1>5, <1>6, <1>8, <1>9, <1>10 DEF SalesInv

\* The row a review leaves: its verdict, or what another review of the same
\* request made of it while this one set the status it had read.
LEMMA StatusWritten ==
    ASSUME SalesInv, NEW q \in Requests, Reviewing(q), WriteStatus(q)
    PROVE  \E row \in Rows :
             /\ rows' = [rows EXCEPT ![call[q].id] = row]
             /\ row.sale = call[q].sale
             /\ row.status = (IF Verdict[call[q].kind] = call[q].status
                              THEN rows[call[q].id].status ELSE Verdict[call[q].kind])
             /\ row.status \in ActiveStatuses => ActiveRows(row.sale) \subseteq {call[q].id}
<1>. DEFINE i == call[q].id
            verdict == Verdict[call[q].kind]
            row == IF verdict = call[q].status THEN rows[i]
                   ELSE [rows[i] EXCEPT !.status = verdict]
<1>1. i \in RequestIds /\ rows[i] \in Rows /\ rows[i].sale = call[q].sale
  BY DEF SalesInv, ReviewsKnowTheirRow, Reviewing, ReviewCalls
<1>2. verdict \in {"held", "rejected", "approved"}
  BY DEF Verdict, Reviewing, ReviewCalls
<1>3. /\ row \in Rows /\ row.sale = call[q].sale
      /\ row.status = IF verdict = call[q].status THEN rows[i].status ELSE verdict
  BY <1>1, <1>2 DEF Rows
<1>4. rows' = [rows EXCEPT ![i] = row]
  BY <1>1 DEF WriteStatus, SalesInv, TypesInv
<1>5. rows'[i] = row
  BY <1>1, <1>4 DEF SalesInv, TypesInv
<1>6. row.status \in ActiveStatuses => ActiveRows(row.sale) \subseteq {i}
  BY <1>3, <1>5 DEF WriteStatus
<1>. HIDE DEF row
<1>. QED  BY <1>3, <1>4, <1>6

\* What a review commits, whatever its verdict.
LEMMA ReviewCommits ==
    ASSUME SalesInv, NEW q \in Requests, At(q, "write"), WriteStatus(q), Done(q),
           UNCHANGED <<sale, overlapped>>,
           \A s \in Sales : s # call[q].sale => returned'[s] = returned[s]
    PROVE  /\ Reviewing(q) /\ Busy(q)
           /\ call[q].kind \in {"hold", "reject", "approve"}
           /\ call[q].sale \in Sales /\ call[q].id \in RequestIds
           /\ call[q].status \in ActiveStatuses
           /\ rows[call[q].id] \in Rows /\ rows[call[q].id].sale = call[q].sale
           /\ ~overlapped[call[q].sale] => call[q].id \in ActiveRows(call[q].sale)
           /\ \A j \in RequestIds : j # call[q].id => rows'[j] = rows[j]
           /\ rows'[call[q].id].sale = call[q].sale
           /\ rows'[call[q].id].status =
                (IF Verdict[call[q].kind] = call[q].status
                 THEN rows[call[q].id].status ELSE Verdict[call[q].kind])
           /\ rows' \in [RequestIds -> {NoRow} \cup Rows]
           /\ call' \in [Requests -> {NoCall} \cup ReturnCalls \cup ReviewCalls]
           /\ ReviewsKnowTheirRow' /\ ActiveIsUnique'
           /\ OverlapsAreNoted' /\ ReadsAreFresh'
<1>1. Busy(q)
  BY NoCallIsIdle DEF At, Busy
<1>2. /\ Reviewing(q)
      /\ call[q].kind \in {"hold", "reject", "approve"}
      /\ call[q].sale \in Sales /\ call[q].id \in RequestIds
      /\ call[q].status \in ActiveStatuses
  BY <1>1, CallIsTyped DEF SalesInv, At
<1>3. rows[call[q].id] \in Rows /\ rows[call[q].id].sale = call[q].sale
  BY <1>2 DEF SalesInv, ReviewsKnowTheirRow
<1>4. ~overlapped[call[q].sale] => call[q].id \in ActiveRows(call[q].sale)
  <2>1. rows[call[q].id] # NoRow
    BY <1>3 DEF Rows, NoRow
  <2>. QED  BY <1>1, <1>2, <1>3, <2>1 DEF SalesInv, ReadsAreFresh, ActiveRows
<1>5. PICK row \in Rows :
         /\ rows' = [rows EXCEPT ![call[q].id] = row]
         /\ row.sale = call[q].sale
         /\ row.status = (IF Verdict[call[q].kind] = call[q].status
                          THEN rows[call[q].id].status ELSE Verdict[call[q].kind])
         /\ row.status \in ActiveStatuses => ActiveRows(row.sale) \subseteq {call[q].id}
  BY <1>2, StatusWritten
<1>6. /\ rows'[call[q].id] = row
      /\ \A j \in RequestIds : j # call[q].id => rows'[j] = rows[j]
  BY <1>2, <1>5 DEF SalesInv, TypesInv
<1>7. /\ rows' \in [RequestIds -> {NoRow} \cup Rows]
      /\ call' \in [Requests -> {NoCall} \cup ReturnCalls \cup ReviewCalls]
      /\ ReviewsKnowTheirRow' /\ ActiveIsUnique'
      /\ OverlapsAreNoted' /\ ReadsAreFresh'
  <2>1. \A t \in Sales : t # row.sale => returned'[t] = returned[t]
    BY <1>5
  <2>2. call[q].id \in RequestIds /\ rows[call[q].id].sale = row.sale
    BY <1>2, <1>3, <1>5
  <2>3. row.status \in ActiveStatuses => ActiveRows(row.sale) \subseteq {call[q].id}
    BY <1>5
  <2>4. rows' = [rows EXCEPT ![call[q].id] = row] /\ row.sale = call[q].sale
    BY <1>5
  <2>. QED  BY <1>1, <2>1, <2>2, <2>3, <2>4, RowWritten
<1>. QED  BY <1>1, <1>2, <1>3, <1>4, <1>5, <1>6, <1>7

LEMMA CommitReviewKept ==
    ASSUME SalesInv, NEW q \in Requests, CommitReview(q)
    PROVE  SalesInv'
<1>. DEFINE s == call[q].sale
            i == call[q].id
<1>1. /\ At(q, "write") /\ WriteStatus(q) /\ Done(q) /\ call[q].kind # "approve"
      /\ UNCHANGED <<sale, returned, credits, overlapped>>
      /\ timeline' = [timeline EXCEPT ![s] = @ \cup {Event[call[q].kind]}]
  BY DEF CommitReview, RecordEvent
<1>2. /\ call[q].kind \in {"hold", "reject"}
      /\ s \in Sales /\ i \in RequestIds
      /\ rows[i] \in Rows /\ rows[i].sale = s
      /\ ~overlapped[s] => i \in ActiveRows(s)
      /\ \A j \in RequestIds : j # i => rows'[j] = rows[j]
      /\ rows'[i].sale = s
      /\ rows'[i].status = (IF Verdict[call[q].kind] = call[q].status
                            THEN rows[i].status ELSE Verdict[call[q].kind])
      /\ rows' \in [RequestIds -> {NoRow} \cup Rows]
      /\ call' \in [Requests -> {NoCall} \cup ReturnCalls \cup ReviewCalls]
      /\ ReviewsKnowTheirRow' /\ ActiveIsUnique'
      /\ OverlapsAreNoted' /\ ReadsAreFresh'
  BY <1>1, ReviewCommits
<1>3. /\ Event[call[q].kind] \in {Event[k] : k \in DOMAIN Verdict}
      /\ Event[call[q].kind] # "lead.return_approved"
      /\ Verdict[call[q].kind] # "approved"
  BY <1>2, VerdictsAreThree DEF Event, Verdict
<1>. HIDE DEF s, i
<1>4. TypesInv'
  BY <1>1, <1>2, <1>3 DEF SalesInv, TypesInv
<1>5. ApprovalsAgree'
  <2>1. \A t \in Sales : ("lead.return_approved" \in timeline'[t])
                           = ("lead.return_approved" \in timeline[t])
    BY <1>1, <1>2, <1>3 DEF SalesInv, TypesInv
  <2>2. rows'[i].status = "approved" => rows[i].status = "approved"
    BY <1>2, <1>3
  <2>. QED  BY <1>1, <1>2, <2>1, <2>2 DEF SalesInv, ApprovalsAgree
<1>6. ReturnsConsistent'
  <2>. SUFFICES ASSUME NEW t \in Sales, returned'[t], ~overlapped'[t]
                PROVE  /\ \E j \in RequestIds : /\ rows'[j].status = "approved"
                                                 /\ rows'[j].sale = t
                       /\ ActiveRows(t)' = {}
    BY DEF ReturnsConsistent
  <2>1. PICK j \in RequestIds : rows[j].status = "approved" /\ rows[j].sale = t
    BY <1>1 DEF SalesInv, ReturnsConsistent
  <2>2. ActiveRows(t) = {}
    BY <1>1 DEF SalesInv, ReturnsConsistent
  <2>3. t # s
    BY <1>1, <1>2, <2>2
  <2>. QED  BY <1>2, <2>1, <2>2, <2>3 DEF ActiveRows
<1>7. CreditedOnceAlone'
  BY <1>1 DEF SalesInv, CreditedOnceAlone
<1>. QED  BY <1>2, <1>4, <1>5, <1>6, <1>7 DEF SalesInv

LEMMA CommitApprovalKept ==
    ASSUME SalesInv, NEW q \in Requests, CommitApproval(q)
    PROVE  SalesInv'
<1>. DEFINE s == call[q].sale
            i == call[q].id
<1>1. /\ At(q, "write") /\ WriteStatus(q) /\ Done(q) /\ call[q].kind = "approve"
      /\ UNCHANGED <<sale, overlapped>>
      /\ returned' = [returned EXCEPT ![s] = TRUE]
      /\ credits' = [credits EXCEPT ![s] = @ + 1]
      /\ timeline' = [timeline EXCEPT ![s] = @ \cup {"lead.return_approved"}]
  BY DEF CommitApproval, RecordEvent, Event
<1>2. \A t \in Sales : t # s => returned'[t] = returned[t]
  BY <1>1 DEF SalesInv, TypesInv
<1>3. /\ Busy(q) /\ s \in Sales /\ i \in RequestIds
      /\ call[q].status \in ActiveStatuses
      /\ rows[i] \in Rows /\ rows[i].sale = s
      /\ ~overlapped[s] => i \in ActiveRows(s)
      /\ \A j \in RequestIds : j # i => rows'[j] = rows[j]
      /\ rows'[i].sale = s
      /\ rows'[i].status = (IF Verdict[call[q].kind] = call[q].status
                            THEN rows[i].status ELSE Verdict[call[q].kind])
      /\ rows' \in [RequestIds -> {NoRow} \cup Rows]
      /\ call' \in [Requests -> {NoCall} \cup ReturnCalls \cup ReviewCalls]
      /\ ReviewsKnowTheirRow' /\ ActiveIsUnique'
      /\ OverlapsAreNoted' /\ ReadsAreFresh'
  BY <1>1, <1>2, ReviewCommits
<1>4. rows'[i].status = "approved"
  BY <1>1, <1>3 DEF Verdict, ActiveStatuses
<1>5. ~overlapped[s] => ~returned[s]
  BY <1>1, <1>3 DEF SalesInv, ReadsAreFresh
<1>6. "lead.return_approved" \in {Event[k] : k \in DOMAIN Verdict}
  BY VerdictsAreThree DEF Event
<1>. HIDE DEF s, i
<1>7. TypesInv'
  BY <1>1, <1>3, <1>6 DEF SalesInv, TypesInv
<1>8. /\ returned'[s] /\ credits'[s] = credits[s] + 1 /\ credits[s] \in Nat
      /\ "lead.return_approved" \in timeline'[s]
      /\ \A t \in Sales : t # s => /\ credits'[t] = credits[t]
                                    /\ timeline'[t] = timeline[t]
  BY <1>1, <1>3 DEF SalesInv, TypesInv
<1>9. ApprovalsAgree'
  <2>1. \A t \in Sales : returned[t] => returned'[t]
    BY <1>2, <1>8
  <2>2. \A t \in Sales : /\ returned'[t] = (credits'[t] > 0)
                          /\ returned'[t] = ("lead.return_approved" \in timeline'[t])
    <3>1. returned'[s] = TRUE /\ (credits'[s] > 0) = TRUE
      BY <1>1, <1>3, <1>8 DEF SalesInv, TypesInv
    <3>2. ("lead.return_approved" \in timeline'[s]) = TRUE
      BY <1>8
    <3>3. ASSUME NEW t \in Sales, t # s
          PROVE  /\ returned'[t] = (credits'[t] > 0)
                 /\ returned'[t] = ("lead.return_approved" \in timeline'[t])
      BY <1>2, <1>8, <3>3 DEF SalesInv, ApprovalsAgree
    <3>. QED  BY <3>1, <3>2, <3>3
  <2>3. ASSUME NEW j \in RequestIds, rows'[j].status = "approved"
        PROVE  returned'[rows'[j].sale]
    <3>1. CASE j = i
      BY <1>3, <1>8, <3>1
    <3>2. CASE j # i
      <4>1. rows'[j] = rows[j] /\ returned[rows[j].sale]
        BY <1>3, <2>3, <3>2 DEF SalesInv, ApprovalsAgree
      <4>2. rows[j].sale \in Sales
        BY <2>3, <4>1 DEF SalesInv, TypesInv, Rows, NoRow
      <4>. QED  BY <2>1, <4>1, <4>2
    <3>. QED  BY <3>1, <3>2
  <2>. QED  BY <2>2, <2>3 DEF ApprovalsAgree
<1>10. ReturnsConsistent'
  <2>. SUFFICES ASSUME NEW t \in Sales, returned'[t], ~overlapped'[t]
                PROVE  /\ \E j \in RequestIds : /\ rows'[j].status = "approved"
                                                 /\ rows'[j].sale = t
                       /\ ActiveRows(t)' = {}
    BY DEF ReturnsConsistent
  <2>1. CASE t = s
    <3>1. i \in ActiveRows(t)
      BY <1>1, <1>3, <2>1
    <3>2. \A j \in ActiveRows(t)' : j = i \/ j \in ActiveRows(t)
      BY <1>3 DEF ActiveRows
    <3>3. i \notin ActiveRows(t)'
      BY <1>4 DEF ActiveRows, ActiveStatuses
    <3>. QED  BY <1>3, <1>4, <2>1, <3>1, <3>2, <3>3 DEF SalesInv, ActiveIsUnique
  <2>2. CASE t # s
    <3>1. returned[t] /\ ~overlapped[t]
      BY <1>1, <1>2, <2>2
    <3>2. PICK j \in RequestIds : rows[j].status = "approved" /\ rows[j].sale = t
      BY <3>1 DEF SalesInv, ReturnsConsistent
    <3>3. ActiveRows(t) = {}
      BY <3>1 DEF SalesInv, ReturnsConsistent
    <3>. QED  BY <1>3, <2>2, <3>2, <3>3 DEF ActiveRows
  <2>. QED  BY <2>1, <2>2
<1>11. CreditedOnceAlone'
  <2>1. ~overlapped[s] => credits[s] = 0
    BY <1>3, <1>5, <1>8 DEF SalesInv, TypesInv, ApprovalsAgree
  <2>. QED  BY <1>1, <1>8, <2>1 DEF SalesInv, CreditedOnceAlone
<1>. QED  BY <1>3, <1>7, <1>9, <1>10, <1>11 DEF SalesInv

-----------------------------------------------------------------------------
(* Every step.                                                             *)

\* Money moves by wallet steps only, of the right buyer and price.
LEMMA MoneyMovesByWallet ==
    ASSUME TypesInv, [ReturnsNext]_vars
    PROVE  [WalletNext]_walletVars
<1>1. ASSUME NEW r \in Runs, NEW s \in Sales,
             ReserveSale(r, s) \/ DeliverSale(r, s) \/ FailSale(r, s)
      PROVE  [WalletNext]_walletVars
  <2>1. BuyerOf[s] \in Buyers /\ PriceOf[s] \in Cents
    BY ReturnsAssumption
  <2>. QED  BY <1>1, <2>1 DEF ReserveSale, DeliverSale, FailSale, WalletNext
<1>2. ASSUME NEW q \in Requests, NEW b \in Buyers, NEW c \in Cents, BeginDeposit(q, b, c)
      PROVE  [WalletNext]_walletVars
  BY <1>2 DEF BeginDeposit, WalletNext, OrmTypes
<1>3. ASSUME NEW q \in Requests,
             CommitDeposit(q) \/ CommitReview(q) \/ CommitApproval(q) \/ Abort(q)
      PROVE  [WalletNext]_walletVars
  BY <1>3 DEF CommitDeposit, CommitReview, CommitApproval, Abort, WalletNext
<1>4. ASSUME NEW q \in Requests, LoadBuyer(q)
      PROVE  [WalletNext]_walletVars
  <2>1. call[q].sale \in Sales
    BY <1>4, CallIsTyped, NoCallIsIdle DEF LoadBuyer, At, Busy
  <2>2. BuyerOf[call[q].sale] \in Buyers /\ PriceOf[call[q].sale] \in Cents
    BY <2>1, ReturnsAssumption
  <2>. QED  BY <1>4, <2>2 DEF LoadBuyer, WalletNext, OrmTypes
<1>5. CASE \/ \E q \in Requests, s \in Sales : BeginReturn(q, s)
           \/ \E q \in Requests, i \in RequestIds : InsertRequest(q, i)
           \/ \E q \in Requests, i \in RequestIds, action \in DOMAIN Verdict :
                 BeginReview(q, i, action)
           \/ \E q \in Requests : FindActive(q) \/ LoadSale(q)
           \/ UNCHANGED vars
  BY <1>5 DEF BeginReturn, InsertRequest, BeginReview, FindActive, LoadSale, vars
<1>. QED  BY <1>1, <1>2, <1>3, <1>4, <1>5 DEF ReturnsNext

LEMMA SalesStepInv ==
    ASSUME SalesInv, [ReturnsNext]_vars
    PROVE  SalesInv'
<1>1. ASSUME NEW r \in Runs, NEW s \in Sales,
             ReserveSale(r, s) \/ DeliverSale(r, s) \/ FailSale(r, s)
      PROVE  SalesInv'
  BY <1>1, SaleStepKept DEF ReserveSale, DeliverSale, FailSale, SalesInv, TypesInv
<1>2. CASE \/ \E q \in Requests, b \in Buyers, c \in Cents : BeginDeposit(q, b, c)
           \/ \E q \in Requests : CommitDeposit(q)
           \/ UNCHANGED vars
  BY <1>2, SaleStepKept
     DEF BeginDeposit, CommitDeposit, vars, returnsVars, saleVars, SalesInv, TypesInv
<1>. QED  BY <1>1, <1>2, BeginReturnKept, BeginReviewKept, ReadsKept, InsertKept,
             CommitReviewKept, CommitApprovalKept DEF ReturnsNext

LEMMA ReturnsInitInv == ReturnsInit => ReturnsInv
<1>. SUFFICES ASSUME ReturnsInit PROVE ReturnsInv
  OBVIOUS
<1>1. WalletInv
  BY WalletInitInv DEF ReturnsInit
<1>2. TypesInv /\ ReviewsKnowTheirRow /\ OverlapsAreNoted /\ ReadsAreFresh
  BY NoCallIsIdle
     DEF ReturnsInit, TypesInv, ReviewsKnowTheirRow, OverlapsAreNoted,
         ReadsAreFresh, Busy, Reviewing
<1>3. /\ \A s \in Sales : /\ returned[s] = FALSE /\ credits[s] = 0
                          /\ timeline[s] = {}
      /\ \A i \in RequestIds : rows[i] = NoRow /\ rows[i].status = "none"
  BY DEF ReturnsInit, NoRow
<1>4. ActiveIsUnique /\ ReturnsConsistent /\ CreditedOnceAlone
  BY <1>3 DEF ActiveIsUnique, ReturnsConsistent, CreditedOnceAlone, ActiveRows
<1>5. ApprovalsAgree
  <2>1. \A s \in Sales : /\ returned[s] = (credits[s] > 0)
                         /\ returned[s] = ("lead.return_approved" \in timeline[s])
    <3>. SUFFICES ASSUME NEW s \in Sales
                  PROVE  /\ returned[s] = (credits[s] > 0)
                         /\ returned[s] = ("lead.return_approved" \in timeline[s])
      OBVIOUS
    <3>1. (credits[s] > 0) = FALSE
      BY <1>3
    <3>2. ("lead.return_approved" \in timeline[s]) = FALSE
      BY <1>3
    <3>. QED  BY <1>3, <3>1, <3>2, Zenon
  <2>. QED  BY <1>3, <2>1 DEF ApprovalsAgree
<1>. QED  BY <1>1, <1>2, <1>4, <1>5 DEF ReturnsInv, SalesInv

LEMMA ReturnsStepInv == ReturnsInv /\ [ReturnsNext]_vars => ReturnsInv'
BY MoneyMovesByWallet, WalletStepInv, SalesStepInv DEF ReturnsInv, SalesInv

-----------------------------------------------------------------------------

\* The invariant of the returns holds in every reachable state.
THEOREM ReturnsInvariant == ReturnsSpec => []ReturnsInv
BY ReturnsInitInv, ReturnsStepInv, PTL DEF ReturnsSpec

\* Type correctness of the sales, the requests and the calls in flight.
THEOREM ReturnsTypeCorrect == ReturnsSpec => []ReturnsTypeOK
<1>1. ReturnsInv => ReturnsTypeOK
  BY CallIsTyped DEF ReturnsInv, SalesInv, TypesInv, ReturnsTypeOK, Rows, Busy
<1>. QED  BY <1>1, ReturnsInvariant, PTL

\* return_lead and review_return_request implement the abstract wallet.
THEOREM ReturnsImplementWallet == ReturnsSpec => WalletRefined
<1>1. ReturnsInit => WalletInit
  BY DEF ReturnsInit
<1>2. ReturnsInv /\ [ReturnsNext]_vars => [WalletNext]_walletVars
  BY MoneyMovesByWallet DEF ReturnsInv, SalesInv
<1>. QED  BY <1>1, <1>2, ReturnsInvariant, PTL DEF ReturnsSpec, WalletRefined, WalletSpec

\* Overlapping returns, reviews and deposits never overdraw a wallet.
THEOREM ReturnsNeverOverdraw == ReturnsSpec => []NoOverdraft
BY ReturnsImplementWallet, WalletNeverOverdrawn, PTL DEF WalletRefined

\* Only a lost update of an approved return or a deposit makes a wallet differ
\* from its ledger.
THEOREM ReturnsExplainedByLedger == ReturnsSpec => []LedgerExplainsWallet
BY ReturnsImplementWallet, WalletExplainedByLedger, PTL DEF WalletRefined

\* At most one request of a sale is pending or held, however calls overlap.
THEOREM OneRequestIsActive == ReturnsSpec => []OneActiveRequest
<1>1. ReturnsInv => OneActiveRequest
  <2>. SUFFICES ASSUME ActiveIsUnique, NEW s \in Sales
                PROVE  Cardinality(ActiveRows(s)) <= 1
    BY DEF ReturnsInv, SalesInv, OneActiveRequest
  <2>1. CASE ActiveRows(s) = {}
    BY <2>1, FS_EmptySet
  <2>2. ASSUME NEW i \in ActiveRows(s)
        PROVE  Cardinality(ActiveRows(s)) <= 1
    <3>1. ActiveRows(s) = {i}
      BY <2>2 DEF ActiveIsUnique
    <3>2. Cardinality({i}) = 1
      BY FS_Singleton
    <3>. QED  BY <3>1, <3>2
  <2>. QED  BY <2>1, <2>2
<1>. QED  BY <1>1, ReturnsInvariant, PTL

\* The mark on the sale, the ledger, the timeline and the approved requests
\* agree, however calls overlap.
THEOREM ApprovalRecordsAgree == ReturnsSpec => []ApprovalsAgree
<1>1. ReturnsInv => ApprovalsAgree
  BY DEF ReturnsInv, SalesInv
<1>. QED  BY <1>1, ReturnsInvariant, PTL

\* A sale whose calls do not overlap is credited once.
THEOREM AloneCreditedOnce == ReturnsSpec => []CreditedOnceAlone
<1>1. ReturnsInv => CreditedOnceAlone
  BY DEF ReturnsInv, SalesInv
<1>. QED  BY <1>1, ReturnsInvariant, PTL

\* The other half of what a review promises: a returned sale whose calls did
\* not overlap has its approved request, and none left open.
THEOREM ReturnsAreConsistent == ReturnsSpec => []ReturnsConsistent
<1>1. ReturnsInv => ReturnsConsistent
  BY DEF ReturnsInv, SalesInv
<1>. QED  BY <1>1, ReturnsInvariant, PTL

\* A settled request stays settled if the calls of its sale do not overlap: a
\* review only writes to the request it has loaded as an active one.
THEOREM SettledStaysSettled == ReturnsSpec => VerdictIsFinal
<1>. DEFINE Kept == \A i \in RequestIds :
                      rows[i].status \in {"approved", "rejected"}
                      /\ ~overlapped[rows[i].sale] => rows'[i] = rows[i]
<1>1. ReturnsInv /\ [ReturnsNext]_vars => [Kept]_rows
  <2>. SUFFICES ASSUME SalesInv, [ReturnsNext]_vars, NEW i \in RequestIds,
                       rows[i].status \in {"approved", "rejected"},
                       ~overlapped[rows[i].sale]
                PROVE  rows'[i] = rows[i]
    BY DEF ReturnsInv
  <2>1. ASSUME NEW q \in Requests, NEW j \in RequestIds, InsertRequest(q, j)
        PROVE  rows'[i] = rows[i]
    BY <2>1 DEF InsertRequest, NoRow, SalesInv, TypesInv
  <2>2. ASSUME NEW q \in Requests, CommitReview(q) \/ CommitApproval(q)
        PROVE  rows'[i] = rows[i]
    <3>1. \A s \in Sales : s # call[q].sale => returned'[s] = returned[s]
      BY <2>2 DEF CommitReview, CommitApproval, SalesInv, TypesInv
    <3>2. /\ rows[call[q].id].sale = call[q].sale
          /\ ~overlapped[call[q].sale] => call[q].id \in ActiveRows(call[q].sale)
          /\ \A j \in RequestIds : j # call[q].id => rows'[j] = rows[j]
      BY <2>2, <3>1, ReviewCommits DEF CommitReview, CommitApproval
    <3>3. i # call[q].id
      BY <3>2 DEF ActiveRows, ActiveStatuses
    <3>. QED  BY <3>2, <3>3
  <2>. QED
    BY <2>1, <2>2
       DEF ReturnsNext, vars, returnsVars, saleVars, ReserveSale, DeliverSale, FailSale,
           BeginDeposit, CommitDeposit, BeginReturn, FindActive, BeginReview,
           LoadSale, LoadBuyer, Abort
<1>. QED  BY <1>1, ReturnsInvariant, PTL DEF ReturnsSpec, VerdictIsFinal

=============================================================================
