------------------------------ MODULE Returns ------------------------------
(***************************************************************************)
(* Buyer returns (ping_post/api.py, return_lead and review_return_request).*)
(*                                                                         *)
(* A buyer asks for its money back on a delivered lead; an operator holds, *)
(* rejects or approves the request, and an approval credits the wallet.    *)
(* Each handler is one transaction at READ COMMITTED: it reads its rows    *)
(* with one SELECT after the other, decides, and flushes what it changed.  *)
(* Another handler may commit between any two of these statements, so each *)
(* SELECT is an action and the flush and commit is another.  The flush     *)
(* writes the attributes that differ from what was loaded, without testing *)
(* the row again.  One index helps: at most one active request per sale.   *)
(*                                                                         *)
(* The auction that makes the sales is reduced to its wallet steps.        *)
(***************************************************************************)
EXTENDS Wallet

CONSTANTS
    Sales,        \* delivered post_results, one per lead
    BuyerOf,      \* buyer_id of a sale
    PriceOf,      \* bid_cents of a sale
    RequestIds,   \* bound: return_requests rows
    MaxDeposited  \* bound: cents an operator deposits per buyer

ASSUME ReturnsAssumption ==
    /\ BuyerOf \in [Sales -> Buyers]
    /\ PriceOf \in [Sales -> Cents]

VARIABLES
    sale,       \* sale[s]: the run that posts it, or how that ended
    returned,   \* post_results.returned
    rows,       \* return_requests by id
    call,       \* the handlers in flight, by request slot
    timeline,   \* the return events recorded of a sale's lead
    credits,    \* number of lead.returned rows of a sale
    overlapped  \* history: two handlers worked on a sale at the same time

saleVars    == <<sale, returned, rows, timeline, credits>>
returnsVars == <<saleVars, call, overlapped>>
vars        == <<walletVars, returnsVars>>

ActiveStatuses == {"pending_review", "held"}
Verdict == [hold |-> "held", reject |-> "rejected", approve |-> "approved"]
Event   == [hold |-> "lead.return_held", reject |-> "lead.return_rejected",
            approve |-> "lead.return_approved"]

NoRow  == [status |-> "none"]
NoCall == [pc |-> "idle"]

ActiveRows(s) == {i \in RequestIds : /\ rows[i] # NoRow
                                     /\ rows[i].sale = s
                                     /\ rows[i].status \in ActiveStatuses}

Free(q) == call[q] = NoCall /\ req[q] = Idle

\* A handler starts working on a sale.
Begin(q, s, new) ==
    /\ call' = [call EXCEPT ![q] = new]
    /\ overlapped' = [overlapped EXCEPT ![s] =
                         @ \/ \E p \in Requests : call[p] # NoCall /\ call[p].sale = s]

Advance(q, pc) == call' = [call EXCEPT ![q].pc = pc]
Done(q)        == call' = [call EXCEPT ![q] = NoCall]
At(q, pc)      == call[q].pc = pc

RecordEvent(s, event) == timeline' = [timeline EXCEPT ![s] = @ \cup {event}]

-----------------------------------------------------------------------------

ReturnsInit ==
    /\ WalletInit
    /\ sale = [s \in Sales |-> "open"]
    /\ returned = [s \in Sales |-> FALSE]
    /\ rows = [i \in RequestIds |-> NoRow]
    /\ call = [q \in Requests |-> NoCall]
    /\ timeline = [s \in Sales |-> {}]
    /\ credits = [s \in Sales |-> 0]
    /\ overlapped = [s \in Sales |-> FALSE]

\* The wallet steps of an auction run that sells, or fails to sell, s.
ReserveSale(r, s) ==
    /\ sale[s] = "open"
    /\ ReserveBuyerWallet(r, BuyerOf[s], PriceOf[s])
    /\ sale' = [sale EXCEPT ![s] = r]
    /\ UNCHANGED <<returned, rows, call, timeline, credits, overlapped>>

DeliverSale(r, s) ==
    /\ sale[s] = r
    /\ BillPosted(r)
    /\ sale' = [sale EXCEPT ![s] = "delivered"]
    /\ UNCHANGED <<returned, rows, call, timeline, credits, overlapped>>

FailSale(r, s) ==
    /\ sale[s] = r
    /\ CreditFailedDelivery(r)
    /\ sale' = [sale EXCEPT ![s] = "failed"]
    /\ UNCHANGED <<returned, rows, call, timeline, credits, overlapped>>

\* add_deposit loads the buyer row.
BeginDeposit(q, b, c) ==
    /\ Free(q)
    /\ billed[b]["deposit.added"] + c <= MaxDeposited
    /\ OrmRead(q, "deposit.added", b, c)
    /\ UNCHANGED returnsVars

CommitDeposit(q) ==
    /\ call[q] = NoCall
    /\ OrmWrite(q)
    /\ UNCHANGED returnsVars

-----------------------------------------------------------------------------
(* return_lead                                                             *)

\* Mutant of BeginReturn: a returned lead can be returned again.
BeginReturnAgain(q, s) ==
    /\ Free(q)
    /\ sale[s] = "delivered"
    /\ Begin(q, s, [pc |-> "active", kind |-> "return", sale |-> s])
    /\ UNCHANGED <<walletVars, saleVars>>

\* The delivered sale is loaded and not yet returned.
BeginReturn(q, s) ==
    /\ Free(q)
    /\ sale[s] = "delivered"
    /\ ~returned[s]
    /\ Begin(q, s, [pc |-> "active", kind |-> "return", sale |-> s])
    /\ UNCHANGED <<walletVars, saleVars>>

\* An active request is answered with 409.
FindActive(q) ==
    /\ At(q, "active")
    /\ IF ActiveRows(call[q].sale) = {} THEN Advance(q, "insert") ELSE Done(q)
    /\ UNCHANGED <<walletVars, saleVars, overlapped>>

\* Mutant of InsertRequest: no partial unique index.
InsertUnchecked(q, i) ==
    /\ At(q, "insert")
    /\ rows[i] = NoRow
    /\ rows' = [rows EXCEPT ![i] = [sale |-> call[q].sale, status |-> "pending_review"]]
    /\ RecordEvent(call[q].sale, "lead.return_requested")
    /\ Done(q)
    /\ UNCHANGED <<walletVars, sale, returned, credits, overlapped>>

\* The unique index lets the row in only if no other request is active.
InsertRequest(q, i) ==
    /\ At(q, "insert")
    /\ rows[i] = NoRow
    /\ ActiveRows(call[q].sale) = {}
    /\ rows' = [rows EXCEPT ![i] = [sale |-> call[q].sale, status |-> "pending_review"]]
    /\ RecordEvent(call[q].sale, "lead.return_requested")
    /\ Done(q)
    /\ UNCHANGED <<walletVars, sale, returned, credits, overlapped>>

-----------------------------------------------------------------------------
(* review_return_request                                                   *)

\* Mutant of BeginReview: a rejected request can be reviewed again.
BeginReviewAgain(q, i, action) ==
    /\ Free(q)
    /\ rows[i] # NoRow
    /\ rows[i].status # "approved"
    /\ Begin(q, rows[i].sale,
             [pc |-> "sale", kind |-> action, sale |-> rows[i].sale, id |-> i,
              status |-> rows[i].status, returned |-> FALSE])
    /\ UNCHANGED <<walletVars, saleVars>>

\* The request row is loaded; a settled one is answered with 409.
BeginReview(q, i, action) ==
    /\ Free(q)
    /\ rows[i] # NoRow
    /\ rows[i].status \in ActiveStatuses
    /\ Begin(q, rows[i].sale,
             [pc |-> "sale", kind |-> action, sale |-> rows[i].sale, id |-> i,
              status |-> rows[i].status, returned |-> FALSE])
    /\ UNCHANGED <<walletVars, saleVars>>

LoadSale(q) ==
    /\ At(q, "sale")
    /\ call' = [call EXCEPT ![q].pc = "buyer", ![q].returned = returned[call[q].sale]]
    /\ UNCHANGED <<walletVars, saleVars, overlapped>>

\* Only an approval changes the buyer row it loads.  A sale that is already
\* credited is answered with 409.
LoadBuyer(q) ==
    /\ At(q, "buyer")
    /\ LET s == call[q].sale
       IN  CASE call[q].kind # "approve" ->
                  Advance(q, "write") /\ UNCHANGED walletVars
             [] call[q].kind = "approve" /\ call[q].returned ->
                  Done(q) /\ UNCHANGED walletVars
             [] OTHER ->
                  /\ Advance(q, "write")
                  /\ OrmRead(q, "lead.returned", BuyerOf[s], PriceOf[s])
    /\ UNCHANGED <<saleVars, overlapped>>

\* The flush of the request row: status is written if it differs from the one
\* loaded, and the unique index refuses a second active row.
WriteStatus(q) ==
    LET i == call[q].id
        verdict == Verdict[call[q].kind]
    IN  /\ rows' = IF verdict = call[q].status THEN rows
                   ELSE [rows EXCEPT ![i].status = verdict]
        /\ rows'[i].status \in ActiveStatuses => ActiveRows(call[q].sale) \subseteq {i}

\* Hold and reject.
CommitReview(q) ==
    /\ At(q, "write")
    /\ call[q].kind # "approve"
    /\ WriteStatus(q)
    /\ RecordEvent(call[q].sale, Event[call[q].kind])
    /\ Done(q)
    /\ UNCHANGED <<walletVars, sale, returned, credits, overlapped>>

\* Mutant of CommitApproval: the sale is not marked as returned.
CommitUnmarked(q) ==
    /\ At(q, "write")
    /\ call[q].kind = "approve"
    /\ OrmWrite(q)
    /\ WriteStatus(q)
    /\ credits' = [credits EXCEPT ![call[q].sale] = @ + 1]
    /\ RecordEvent(call[q].sale, Event["approve"])
    /\ Done(q)
    /\ UNCHANGED <<sale, returned, overlapped>>

\* Mutant of CommitApproval: no billing row.
CommitUnbilled(q) ==
    /\ At(q, "write")
    /\ call[q].kind = "approve"
    /\ balance' = [balance EXCEPT ![req[q].buyer] = req[q].balance + req[q].cents]
    /\ spend' = [spend EXCEPT ![req[q].buyer] = req[q].spend - req[q].cents]
    /\ req' = [req EXCEPT ![q] = Idle]
    /\ WriteStatus(q)
    /\ returned' = [returned EXCEPT ![call[q].sale] = TRUE]
    /\ credits' = [credits EXCEPT ![call[q].sale] = @ + 1]
    /\ RecordEvent(call[q].sale, Event["approve"])
    /\ Done(q)
    /\ UNCHANGED <<active, billed, hold, orphaned, raced, sale, overlapped>>

\* An approval credits the wallet and marks the sale, in the same transaction.
CommitApproval(q) ==
    /\ At(q, "write")
    /\ call[q].kind = "approve"
    /\ OrmWrite(q)
    /\ WriteStatus(q)
    /\ returned' = [returned EXCEPT ![call[q].sale] = TRUE]
    /\ credits' = [credits EXCEPT ![call[q].sale] = @ + 1]
    /\ RecordEvent(call[q].sale, Event["approve"])
    /\ Done(q)
    /\ UNCHANGED <<sale, overlapped>>

\* The handler fails (a lost connection, an index violation) and is rolled back.
Abort(q) ==
    /\ ~Free(q)
    /\ Done(q)
    /\ IF req[q] # Idle THEN OrmAbort(q) ELSE UNCHANGED walletVars
    /\ UNCHANGED <<saleVars, overlapped>>

ReturnsNext ==
    \/ \E r \in Runs, s \in Sales :
          ReserveSale(r, s) \/ DeliverSale(r, s) \/ FailSale(r, s)
    \/ \E q \in Requests, b \in Buyers, c \in Cents : BeginDeposit(q, b, c)
    \/ \E q \in Requests, s \in Sales : BeginReturn(q, s)
    \/ \E q \in Requests, i \in RequestIds : InsertRequest(q, i)
    \/ \E q \in Requests, i \in RequestIds, action \in DOMAIN Verdict :
          BeginReview(q, i, action)
    \/ \E q \in Requests :
          \/ CommitDeposit(q) \/ FindActive(q) \/ LoadSale(q) \/ LoadBuyer(q)
          \/ CommitReview(q) \/ CommitApproval(q) \/ Abort(q)

ReturnsSpec == ReturnsInit /\ [][ReturnsNext]_vars

-----------------------------------------------------------------------------

\* Every variable of the returns has its type.
ReturnsTypeOK ==
    /\ sale \in [Sales -> Runs \cup {"open", "delivered", "failed"}]
    /\ returned \in [Sales -> BOOLEAN]
    /\ rows \in [RequestIds -> {NoRow} \cup
          [sale : Sales, status : {"pending_review", "held", "approved", "rejected"}]]
    /\ \A q \in Requests : call[q] = NoCall \/ call[q].sale \in Sales
    /\ credits \in [Sales -> Nat]
    /\ overlapped \in [Sales -> BOOLEAN]

\* Returns move money only the way a wallet allows.
WalletRefined == WalletSpec

\* However requests and reviews overlap, a sale has at most one request that is
\* pending or held: a late "held" over a rejection included.
OneActiveRequest == \A s \in Sales : Cardinality(ActiveRows(s)) <= 1

\* The three records of an approval agree, whatever overlaps: the sale is
\* marked as returned iff the ledger has a lead.returned row for it, iff the
\* timeline shows an approval; and an approved request is one for such a sale.
ApprovalsAgree ==
    /\ \A s \in Sales :
         /\ returned[s] = (credits[s] > 0)
         /\ returned[s] = ("lead.return_approved" \in timeline[s])
    /\ \A i \in RequestIds :
         rows[i].status = "approved" => returned[rows[i].sale]

\* If the handlers of a sale do not overlap, the credit is explained by an
\* approved request and no request is left open on a returned sale.
ReturnsConsistent ==
    \A s \in Sales : returned[s] /\ ~overlapped[s] =>
        /\ \E i \in RequestIds : /\ rows[i].status = "approved"
                                 /\ rows[i].sale = s
        /\ ActiveRows(s) = {}

\* If the handlers of a sale do not overlap, it is credited once at most.
CreditedOnceAlone == \A s \in Sales : credits[s] > 1 => overlapped[s]

\* A request that was settled stays as it was settled, unless handlers of its
\* sale overlap.
VerdictIsFinal ==
    [][\A i \in RequestIds :
          rows[i].status \in {"approved", "rejected"} /\ ~overlapped[rows[i].sale]
              => rows'[i] = rows[i]]_rows

=============================================================================
