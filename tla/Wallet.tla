------------------------------- MODULE Wallet -------------------------------
(***************************************************************************)
(* The prepaid wallet of a buyer and its ledger.                           *)
(*                                                                         *)
(* A buyer row carries deposit_balance and lifetime_spend, and every       *)
(* movement of money also appends a row to billing_events.  Two kinds of   *)
(* writers touch the row:                                                  *)
(*                                                                         *)
(*   - auction runs (ping_post/auction.py) issue one conditional           *)
(*     UPDATE ... SET deposit_balance = deposit_balance - x, which the     *)
(*     database applies to the row as it is at that moment: one action;    *)
(*                                                                         *)
(*   - operator requests (ping_post/api.py: deposits, approved returns)    *)
(*     load the row through the ORM, add to the attribute in Python and    *)
(*     flush an absolute value: a read and, later, a write.  The engine    *)
(*     runs at READ COMMITTED and the row has no version column, so the    *)
(*     write lands whatever happened in between: two actions.              *)
(*                                                                         *)
(* Amounts are integer cents.  billed[b][t] is the total of the rows of    *)
(* type t in billing_events for buyer b, without its sign.                 *)
(***************************************************************************)
EXTENDS Integers, FiniteSetsExt, Functions

CONSTANTS
    Buyers,     \* buyer rows
    Cents,      \* amounts that are bid, deposited or credited
    Opening,    \* opening balances: deposit_balance of a create request
    Runs,       \* slots of the workers that execute run_auction
    Requests    \* operator requests in flight

ASSUME CentsAssumption ==
    /\ Cents \subseteq Nat \ {0}
    /\ Opening \subseteq Nat

\* The workers have finitely many slots.
ASSUME RunsAssumption == IsFiniteSet(Runs)

VARIABLES
    active,     \* active[b]: status = "active"
    balance,    \* deposit_balance
    spend,      \* lifetime_spend
    billed,     \* billing_events, totalled by buyer and event type
    hold,       \* the reservation a run has made and not yet settled
    orphaned,   \* history: cents reserved by runs that were cut off
    req,        \* operator requests between their read and their write
    raced       \* history: an ORM write hit a row changed since its read

walletVars == <<active, balance, spend, billed, hold, orphaned, req, raced>>

EventTypes == {"deposit.added", "lead.reserved", "lead.posted",
               "lead.delivery_failed_credit", "lead.returned"}

\* The two handlers that move money through the ORM, by the row they bill.
OrmTypes == {"deposit.added", "lead.returned"}

NoHold == [cents |-> 0]
Hold   == [buyer : Buyers, cents : Cents]

Idle        == [type |-> "idle"]
OpenRequest == [type : OrmTypes, buyer : Buyers, cents : Cents,
                balance : Int, spend : Int]

-----------------------------------------------------------------------------

\* Append one row of type t to billing_events.
Bill(b, t, c) == billed' = [billed EXCEPT ![b][t] = @ + c]

\* What the ledger says the wallet holds, and what it says was spent.
LedgerBalance(b) ==
    billed[b]["deposit.added"] - billed[b]["lead.reserved"]
        + billed[b]["lead.delivery_failed_credit"] + billed[b]["lead.returned"]

LedgerSpend(b) ==
    billed[b]["lead.reserved"] - billed[b]["lead.delivery_failed_credit"]
        - billed[b]["lead.returned"]

\* Reserved and neither delivered nor credited back.
Outstanding(b) ==
    billed[b]["lead.reserved"] - billed[b]["lead.posted"]
        - billed[b]["lead.delivery_failed_credit"]

-----------------------------------------------------------------------------

\* A buyer is created with an opening balance, billed as deposit.added, and
\* lifetime_spend 0; an operator activates it later.
WalletInit ==
    /\ active \in [Buyers -> BOOLEAN]
    /\ balance \in [Buyers -> Opening]
    /\ spend = [b \in Buyers |-> 0]
    /\ billed = [b \in Buyers |-> [t \in EventTypes |->
                    IF t = "deposit.added" THEN balance[b] ELSE 0]]
    /\ hold = [r \in Runs |-> NoHold]
    /\ orphaned = [b \in Buyers |-> 0]
    /\ req = [q \in Requests |-> Idle]
    /\ raced = [b \in Buyers |-> FALSE]

\* The operator's PATCH of a buyer's status, or the guardrail's pause.
SetActive(b, on) ==
    /\ active' = [active EXCEPT ![b] = on]
    /\ UNCHANGED <<balance, spend, billed, hold, orphaned, req, raced>>

\* Mutant of ReserveBuyerWallet: the UPDATE does not test the balance.
ReserveUnchecked(r, b, c) ==
    /\ hold[r] = NoHold
    /\ active[b]
    /\ balance' = [balance EXCEPT ![b] = @ - c]
    /\ spend' = [spend EXCEPT ![b] = @ + c]
    /\ Bill(b, "lead.reserved", c)
    /\ hold' = [hold EXCEPT ![r] = [buyer |-> b, cents |-> c]]
    /\ UNCHANGED <<active, orphaned, req, raced>>

\* The conditional UPDATE of _reserve_buyer_wallet matches the row.
ReserveBuyerWallet(r, b, c) ==
    /\ hold[r] = NoHold
    /\ active[b]
    /\ balance[b] >= c
    /\ balance' = [balance EXCEPT ![b] = @ - c]
    /\ spend' = [spend EXCEPT ![b] = @ + c]
    /\ Bill(b, "lead.reserved", c)
    /\ hold' = [hold EXCEPT ![r] = [buyer |-> b, cents |-> c]]
    /\ UNCHANGED <<active, orphaned, req, raced>>

\* The billing part of the transaction that records a delivered lead.
BillPosted(r) ==
    /\ hold[r] # NoHold
    /\ Bill(hold[r].buyer, "lead.posted", hold[r].cents)
    /\ hold' = [hold EXCEPT ![r] = NoHold]
    /\ UNCHANGED <<active, balance, spend, orphaned, req, raced>>

\* Mutant of CreditFailedDelivery: no billing row for the credit.
CreditUnbilled(r) ==
    /\ hold[r] # NoHold
    /\ balance' = [balance EXCEPT ![hold[r].buyer] = @ + hold[r].cents]
    /\ spend' = [spend EXCEPT ![hold[r].buyer] = @ - hold[r].cents]
    /\ hold' = [hold EXCEPT ![r] = NoHold]
    /\ UNCHANGED <<active, billed, orphaned, req, raced>>

\* Mutant of CreditFailedDelivery: the credit can be given again.
CreditAgain(r) ==
    /\ hold[r] # NoHold
    /\ balance' = [balance EXCEPT ![hold[r].buyer] = @ + hold[r].cents]
    /\ spend' = [spend EXCEPT ![hold[r].buyer] = @ - hold[r].cents]
    /\ Bill(hold[r].buyer, "lead.delivery_failed_credit", hold[r].cents)
    /\ UNCHANGED <<active, hold, orphaned, req, raced>>

\* _credit_failed_delivery gives the reservation back.
CreditFailedDelivery(r) ==
    /\ hold[r] # NoHold
    /\ LET b == hold[r].buyer
           c == hold[r].cents
       IN  /\ balance' = [balance EXCEPT ![b] = @ + c]
           /\ spend' = [spend EXCEPT ![b] = @ - c]
           /\ Bill(b, "lead.delivery_failed_credit", c)
    /\ hold' = [hold EXCEPT ![r] = NoHold]
    /\ UNCHANGED <<active, orphaned, req, raced>>

\* The run ends (crash, timeout, exception) without settling: its locals are
\* gone, the committed debit stays.
OrphanHold(r) ==
    /\ hold[r] # NoHold
    /\ orphaned' = [orphaned EXCEPT ![hold[r].buyer] = @ + hold[r].cents]
    /\ hold' = [hold EXCEPT ![r] = NoHold]
    /\ UNCHANGED <<active, balance, spend, billed, req, raced>>

\* add_deposit or an approved return loads the buyer row.
OrmRead(q, t, b, c) ==
    /\ req[q] = Idle
    /\ req' = [req EXCEPT ![q] = [type |-> t, buyer |-> b, cents |-> c,
                                  balance |-> balance[b], spend |-> spend[b]]]
    /\ UNCHANGED <<active, balance, spend, billed, hold, orphaned, raced>>

\* The flush and commit: absolute values computed from what was read.  Only
\* an approved return writes lifetime_spend.
OrmWrite(q) ==
    /\ req[q] # Idle
    /\ LET b == req[q].buyer
           c == req[q].cents
           returning == req[q].type = "lead.returned"
       IN  /\ balance' = [balance EXCEPT ![b] = req[q].balance + c]
           /\ spend' = IF returning
                       THEN [spend EXCEPT ![b] = req[q].spend - c]
                       ELSE spend
           /\ Bill(b, req[q].type, c)
           /\ raced' = [raced EXCEPT ![b] =
                           \/ @
                           \/ balance[b] # req[q].balance
                           \/ returning /\ spend[b] # req[q].spend]
    /\ req' = [req EXCEPT ![q] = Idle]
    /\ UNCHANGED <<active, hold, orphaned>>

\* The request fails before its commit and is rolled back.
OrmAbort(q) ==
    /\ req[q] # Idle
    /\ req' = [req EXCEPT ![q] = Idle]
    /\ UNCHANGED <<active, balance, spend, billed, hold, orphaned, raced>>

WalletNext ==
    \/ \E b \in Buyers, on \in BOOLEAN : SetActive(b, on)
    \/ \E r \in Runs, b \in Buyers, c \in Cents : ReserveBuyerWallet(r, b, c)
    \/ \E r \in Runs : BillPosted(r)
    \/ \E r \in Runs : CreditFailedDelivery(r)
    \/ \E r \in Runs : OrphanHold(r)
    \/ \E q \in Requests, t \in OrmTypes, b \in Buyers, c \in Cents :
          OrmRead(q, t, b, c)
    \/ \E q \in Requests : OrmWrite(q)
    \/ \E q \in Requests : OrmAbort(q)

WalletSpec == WalletInit /\ [][WalletNext]_walletVars

-----------------------------------------------------------------------------

\* Every variable has its type; a request in flight keeps what it read.
WalletTypeOK ==
    /\ active \in [Buyers -> BOOLEAN]
    /\ balance \in [Buyers -> Int]
    /\ spend \in [Buyers -> Int]
    /\ billed \in [Buyers -> [EventTypes -> Nat]]
    /\ hold \in [Runs -> Hold \cup {NoHold}]
    /\ orphaned \in [Buyers -> Nat]
    /\ req \in [Requests -> OpenRequest \cup {Idle}]
    /\ raced \in [Buyers -> BOOLEAN]

\* No interleaving of concurrent reservations, credits, deposits and
\* approved returns overdraws a wallet, lost updates included: the balance
\* test is in the UPDATE itself (_reserve_buyer_wallet), and an ORM write
\* only adds to a balance that was once current.
NoOverdraft == \A b \in Buyers : balance[b] >= 0

\* The wallet is explained by the ledger: unless an ORM write overwrote a
\* change that was committed after its read, deposit_balance is the sum of
\* the buyer's billing rows and lifetime_spend what they say was spent.  So a
\* lost update is the only way the two can ever differ.
LedgerExplainsWallet ==
    \A b \in Buyers :
        ~raced[b] => /\ balance[b] = LedgerBalance(b)
                     /\ spend[b] = LedgerSpend(b)

\* What makes NoOverdraft inductive: a balance kept by a request in flight was
\* current once, hence not negative either.
SeenBalancesNotNegative ==
    \A q \in Requests : req[q] # Idle => req[q].balance >= 0

\* The inductive invariant of the wallet.
WalletInv ==
    /\ WalletTypeOK
    /\ NoOverdraft
    /\ SeenBalancesNotNegative
    /\ LedgerExplainsWallet

\* The runs that hold money of buyer b.
HeldFrom(b) == {r \in Runs : hold[r] # NoHold /\ hold[r].buyer = b}

\* Every reserved cent is delivered, credited back, held by a run still in
\* flight, or orphaned by a run that was cut off: none settles twice.
ReservationsAccounted ==
    \A b \in Buyers :
        Outstanding(b) =
            orphaned[b] + SumFunctionOnSet([r \in Runs |-> hold[r].cents],
                                           HeldFrom(b))

=============================================================================
