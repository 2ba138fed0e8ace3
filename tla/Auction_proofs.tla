--------------------------- MODULE Auction_proofs ---------------------------
(***************************************************************************)
(* An auction moves money only as a wallet allows, so that what is proved  *)
(* of wallets holds of auctions; and the audit timeline agrees with the    *)
(* deliveries.  Any number of buyers, leads, overlapping runs and cut-offs.*)
(***************************************************************************)
EXTENDS Auction, Wallet_proofs, FiniteSetTheorems

\* From the choice of the winner on, a run carries a bid.
Committed == {"key", "reserve", "post", "record", "credit"}

RunsKnowTheirBid ==
    \A r \in Runs :
        /\ run[r].pc \notin {"idle"} => run[r].lead \in Leads
        /\ run[r].pc \in Committed => run[r].pick \in Hold

\* The inductive invariant of the auction.
AuctionInv ==
    /\ AuctionTypeOK
    /\ WalletInv
    /\ RunsKnowTheirBid

-----------------------------------------------------------------------------

LEMMA IdleRunIsTyped == IdleRun \in RunRecord
BY AuctionAssumption DEF IdleRun, RunRecord, PCs, NoFunds

\* Replacing the record of one run by a well-formed one keeps all of them so.
LEMMA RunReplaced ==
    ASSUME AuctionInv, NEW r \in Runs, NEW new \in RunRecord,
           run' = [run EXCEPT ![r] = new],
           new.pc # "idle" => new.lead \in Leads,
           new.pc \in Committed => new.pick \in Hold
    PROVE  run' \in [Runs -> RunRecord] /\ RunsKnowTheirBid'
BY DEF AuctionInv, AuctionTypeOK, RunsKnowTheirBid

\* A run that goes to its next step keeps its locals.
LEMMA GotoKeepsLocals ==
    ASSUME AuctionInv, NEW r \in Runs, NEW label \in PCs, Goto(r, label),
           run[r].pc # "idle",
           label \in Committed => run[r].pick \in Hold
    PROVE  run' \in [Runs -> RunRecord] /\ RunsKnowTheirBid'
<1>. DEFINE new == [run[r] EXCEPT !.pc = label]
<1>1. run[r] \in RunRecord /\ run[r].lead \in Leads
  BY DEF AuctionInv, AuctionTypeOK, RunsKnowTheirBid
<1>2. new \in RunRecord /\ new.lead = run[r].lead /\ new.pick = run[r].pick
      /\ new.pc = label
  BY <1>1 DEF RunRecord
<1>3. run' = [run EXCEPT ![r] = new]
  BY DEF Goto
<1>. HIDE DEF new
<1>. QED  BY <1>1, <1>2, <1>3, RunReplaced

LEMMA FinishKeepsLocals ==
    ASSUME AuctionInv, NEW r \in Runs, Finish(r)
    PROVE  run' \in [Runs -> RunRecord] /\ RunsKnowTheirBid'
<1>1. IdleRun.pc = "idle"
  BY DEF IdleRun
<1>. QED  BY <1>1, IdleRunIsTyped, RunReplaced DEF Finish, Committed

\* A run that is cut off leaves nothing but, perhaps, a request to try again.
LEMMA AbandonKeepsLocals ==
    ASSUME AuctionInv, NEW r \in Runs, Abandon(r), run[r].pc # "idle"
    PROVE  run' \in [Runs -> RunRecord] /\ RunsKnowTheirBid'
<1>. DEFINE new == [IdleRun EXCEPT !.pc = "retry", !.lead = run[r].lead]
<1>1. run[r].lead \in Leads
  BY DEF AuctionInv, RunsKnowTheirBid
<1>2. new \in RunRecord /\ new.pc = "retry" /\ new.lead \in Leads
  BY <1>1, IdleRunIsTyped DEF RunRecord, PCs, IdleRun
<1>3. IdleRun.pc = "idle"
  BY DEF IdleRun
<1>4. run' = [run EXCEPT ![r] = IdleRun] \/ run' = [run EXCEPT ![r] = new]
  BY DEF Abandon
<1>. HIDE DEF new
<1>. QED  BY <1>1, <1>2, <1>3, <1>4, IdleRunIsTyped, RunReplaced DEF Committed

\* A recorded edge is an edge between stages of the pipeline.
LEMMA TimelineGrows ==
    ASSUME AuctionTypeOK, NEW l \in Leads, NEW from \in Stages,
           NEW to \in Stages, RecordTransition(l, from, to)
    PROVE  timeline' \in [Leads -> SUBSET Edges]
<1>1. <<from, to>> \in Edges
  BY DEF Edges
<1>2. timeline \in [Leads -> SUBSET Edges]
  BY DEF AuctionTypeOK
<1>3. timeline[l] \cup {<<from, to>>} \in SUBSET Edges
  BY <1>1, <1>2
<1>. QED  BY <1>2, <1>3 DEF RecordTransition

LEMMA LoadKeepsLocals ==
    ASSUME AuctionInv, NEW r \in Runs, NEW l \in Leads, Load(r, l)
    PROVE  run' \in [Runs -> RunRecord] /\ RunsKnowTheirBid'
<1>. DEFINE new == [IdleRun EXCEPT !.pc = "gate", !.lead = l,
                                   !.allowed = CanEnter(l)]
<1>1. CanEnter(l) \in BOOLEAN
  BY DEF CanEnter
<1>2. new \in RunRecord /\ new.pc = "gate" /\ new.lead = l
  BY <1>1, IdleRunIsTyped DEF RunRecord, PCs, IdleRun
<1>3. run' = [run EXCEPT ![r] = new]
  BY DEF Load
<1>. HIDE DEF new
<1>. QED  BY <1>2, <1>3, RunReplaced DEF Committed

-----------------------------------------------------------------------------

\* What a step must show, apart from the wallets: its type and the bids.
StepKept ==
    /\ [WalletNext]_walletVars
    /\ AuctionTypeOK'
    /\ RunsKnowTheirBid'

\* Steps that change the locals of one run and no row.
LEMMA LocalStep ==
    ASSUME AuctionInv, UNCHANGED <<walletVars, leadVars>>,
           run' \in [Runs -> RunRecord], RunsKnowTheirBid'
    PROVE  StepKept
BY DEF StepKept, AuctionInv, AuctionTypeOK, leadVars

\* Reading the lead, the earlier sale, the buyers and the delivery key.
LEMMA ReadsKept ==
    ASSUME AuctionInv, NEW r \in Runs,
           Retry(r) \/ CheckSale(r) \/ SelectBuyers(r) \/ CheckDeliveryKey(r)
    PROVE  StepKept
<1>1. CASE Retry(r)
  <2>1. run[r].lead \in Leads
    BY <1>1 DEF Retry, At, AuctionInv, RunsKnowTheirBid
  <2>. QED  BY <1>1, <2>1, LoadKeepsLocals, LocalStep DEF Retry
<1>2. CASE CheckSale(r)
  BY <1>2, FinishKeepsLocals, GotoKeepsLocals, LocalStep
     DEF CheckSale, At, PCs, Committed
<1>3. CASE SelectBuyers(r)
  <2>. DEFINE funds == [b \in Buyers |-> IF b \in Eligible(run[r].lead)
                                         THEN balance[b] ELSE 0]
              new == [run[r] EXCEPT !.pc = "mark", !.funds = funds]
  <2>1. funds \in [Buyers -> Nat]
    BY DEF AuctionInv, WalletInv, WalletTypeOK, NoOverdraft
  <2>2. run[r] \in RunRecord /\ run[r].lead \in Leads
    BY <1>3 DEF SelectBuyers, At, AuctionInv, AuctionTypeOK, RunsKnowTheirBid
  <2>3. run' = [run EXCEPT ![r] = new]
    BY <1>3, <2>2 DEF SelectBuyers
  <2>. HIDE DEF funds
  <2>4. new \in RunRecord /\ new.pc = "mark" /\ new.lead = run[r].lead
    BY <2>1, <2>2 DEF RunRecord, PCs
  <2>. HIDE DEF new
  <2>. QED  BY <1>3, <2>2, <2>3, <2>4, RunReplaced, LocalStep
               DEF SelectBuyers, Committed
<1>4. CASE CheckDeliveryKey(r)
  <2>1. run[r].pick \in Hold
    BY <1>4 DEF CheckDeliveryKey, At, AuctionInv, RunsKnowTheirBid, Committed
  <2>. QED  BY <1>4, <2>1, FinishKeepsLocals, GotoKeepsLocals, LocalStep
               DEF CheckDeliveryKey, At, PCs
<1>. QED  BY <1>1, <1>2, <1>3, <1>4

\* Pinging the buyers and picking one.
LEMMA BidsKept ==
    ASSUME AuctionInv, NEW r \in Runs,
           PingBuyers(r) \/ PickWinner(r) \/ BidWindowExpires(r)
    PROVE  StepKept
<1>1. CASE PingBuyers(r)
  <2>1. PICK answers \in [Buyers -> Cents \cup {0}] :
          run' = [run EXCEPT ![r].pc = "pick", ![r].answers = answers]
    BY <1>1 DEF PingBuyers, Answers
  <2>. DEFINE new == [run[r] EXCEPT !.pc = "pick", !.answers = answers]
  <2>2. run[r] \in RunRecord /\ run[r].lead \in Leads
    BY <1>1 DEF PingBuyers, At, AuctionInv, AuctionTypeOK, RunsKnowTheirBid
  <2>3. run' = [run EXCEPT ![r] = new]
    BY <2>1, <2>2
  <2>4. new \in RunRecord /\ new.pc = "pick" /\ new.lead = run[r].lead
    BY <2>2 DEF RunRecord, PCs
  <2>. HIDE DEF new
  <2>. QED  BY <1>1, <2>2, <2>3, <2>4, RunReplaced, LocalStep
               DEF PingBuyers, Committed
<1>2. CASE PickWinner(r) /\ Winners(r) = {}
  BY <1>2, GotoKeepsLocals, LocalStep DEF PickWinner, At, PCs, Committed
<1>3. CASE PickWinner(r) /\ Winners(r) # {}
  <2>1. PICK b \in Winners(r) :
          run' = [run EXCEPT ![r].pc = "key",
                    ![r].pick = [buyer |-> b, cents |-> run[r].answers[b]]]
    BY <1>3 DEF PickWinner
  <2>. DEFINE pick == [buyer |-> b, cents |-> run[r].answers[b]]
              new == [run[r] EXCEPT !.pc = "key", !.pick = pick]
  <2>2. run[r] \in RunRecord /\ run[r].lead \in Leads
    BY <1>3 DEF PickWinner, At, AuctionInv, AuctionTypeOK, RunsKnowTheirBid
  <2>3. b \in Buyers /\ run[r].answers[b] > 0
    BY DEF Winners, Affordable
  <2>4. run[r].answers[b] \in Cents
    BY <2>2, <2>3 DEF RunRecord
  <2>5. pick \in Hold
    BY <2>3, <2>4 DEF Hold
  <2>6. run' = [run EXCEPT ![r] = new]
    BY <2>1, <2>2
  <2>. HIDE DEF pick
  <2>7. new \in RunRecord /\ new.pc = "key" /\ new.lead = run[r].lead
          /\ new.pick = pick
    BY <2>2, <2>5 DEF RunRecord, PCs
  <2>. HIDE DEF new
  <2>. QED  BY <1>3, <2>2, <2>5, <2>6, <2>7, RunReplaced, LocalStep
               DEF PickWinner
<1>4. CASE BidWindowExpires(r)
  BY <1>4, GotoKeepsLocals, LocalStep DEF BidWindowExpires, At, PCs, Committed
<1>. QED  BY <1>1, <1>2, <1>3, <1>4

\* The reservation is a step of the wallet, on the bid of the run.
LEMMA ReserveKept ==
    ASSUME AuctionInv, NEW r \in Runs, Reserve(r) \/ ReserveRejected(r)
    PROVE  StepKept
<1>1. run[r].pick \in Hold
  BY DEF Reserve, ReserveRejected, At, AuctionInv, RunsKnowTheirBid, Committed
<1>2. CASE Reserve(r)
  <2>1. WalletNext
    BY <1>1, <1>2 DEF Reserve, WalletNext, Hold
  <2>2. run' \in [Runs -> RunRecord] /\ RunsKnowTheirBid'
    BY <1>1, <1>2, GotoKeepsLocals DEF Reserve, At, PCs
  <2>. QED  BY <1>2, <2>1, <2>2
               DEF Reserve, StepKept, AuctionInv, AuctionTypeOK, leadVars
<1>3. CASE ReserveRejected(r)
  BY <1>1, <1>3, GotoKeepsLocals, LocalStep DEF ReserveRejected, At, PCs
<1>. QED  BY <1>2, <1>3

\* The calls of the winner's webhook.
LEMMA PostKept ==
    ASSUME AuctionInv, NEW r \in Runs,
           PostAccepted(r) \/ PostRefused(r) \/ PostFailed(r)
    PROVE  StepKept
<1>1. /\ run[r].pick \in Hold /\ run[r].lead \in Leads /\ run[r] \in RunRecord
      /\ run[r].pc = "post"
  BY DEF PostAccepted, PostRefused, PostFailed, At, AuctionInv, AuctionTypeOK,
         RunsKnowTheirBid, Committed
<1>2. UNCHANGED <<walletVars, post, status, held, timeline, sold>>
  BY DEF PostAccepted, PostRefused, PostFailed, leadVars
<1>3. run' \in [Runs -> RunRecord] /\ RunsKnowTheirBid'
  <2>1. CASE PostAccepted(r)
    <3>. DEFINE new == [run[r] EXCEPT !.pc = "record", !.ok = TRUE]
    <3>1. new \in RunRecord /\ new.pc = "record" /\ new.lead = run[r].lead
            /\ new.pick = run[r].pick
      BY <1>1 DEF RunRecord, PCs
    <3>2. run' = [run EXCEPT ![r] = new]
      BY <1>1, <2>1 DEF PostAccepted
    <3>. HIDE DEF new
    <3>. QED  BY <1>1, <3>1, <3>2, RunReplaced
  <2>2. CASE PostFailed(r) /\ run[r].tries + 1 < MaxAttempts
    <3>. DEFINE new == [run[r] EXCEPT !.tries = run[r].tries + 1]
    <3>1. run[r].tries + 1 \in 0 .. MaxAttempts
      BY <1>1, <2>2, AuctionAssumption DEF RunRecord
    <3>2. new \in RunRecord /\ new.pc = "post" /\ new.lead = run[r].lead
            /\ new.pick = run[r].pick
      BY <1>1, <3>1 DEF RunRecord, PCs
    <3>3. run' = [run EXCEPT ![r] = new]
      BY <1>1, <2>2 DEF PostFailed
    <3>. HIDE DEF new
    <3>. QED  BY <1>1, <3>2, <3>3, RunReplaced
  <2>3. CASE Goto(r, "record")
    BY <1>1, <2>3, GotoKeepsLocals DEF PCs
  <2>. QED  BY <2>1, <2>2, <2>3 DEF PostRefused, PostFailed
<1>. QED  BY <1>2, <1>3 DEF StepKept, AuctionInv, AuctionTypeOK

\* Refusing a lead and recording an auction without a sale.
LEMMA ClosingKept ==
    ASSUME AuctionInv, NEW r \in Runs,
           RefuseLead(r) \/ RecordAuctioned(r) \/ RecordUnsold(r)
             \/ AnnounceUnsold(r) \/ CloseUnsold(r)
    PROVE  StepKept
<1>1. run[r].lead \in Leads
  BY DEF RefuseLead, RecordAuctioned, RecordUnsold, AnnounceUnsold, CloseUnsold,
         At, AuctionInv, RunsKnowTheirBid
<1>2. UNCHANGED <<walletVars, post, sold>>
  BY DEF RefuseLead, RecordAuctioned, RecordUnsold, AnnounceUnsold, CloseUnsold
<1>3. /\ status' \in [Leads -> {"qualified", "sold", "unsold", "rejected", "nurtured"}]
      /\ held' \in [Leads -> BOOLEAN]
  BY DEF RefuseLead, RecordAuctioned, RecordUnsold, AnnounceUnsold, CloseUnsold,
         AuctionInv, AuctionTypeOK
<1>4. timeline' \in [Leads -> SUBSET Edges]
  BY <1>1, TimelineGrows
     DEF RefuseLead, RecordAuctioned, RecordUnsold, AnnounceUnsold, CloseUnsold,
         AuctionInv, AuctionTypeOK, Stages
<1>5. run' \in [Runs -> RunRecord] /\ RunsKnowTheirBid'
  BY FinishKeepsLocals, GotoKeepsLocals
     DEF RefuseLead, RecordAuctioned, RecordUnsold, AnnounceUnsold, CloseUnsold,
         At, PCs, Committed
<1>. QED  BY <1>2, <1>3, <1>5, <1>4 DEF StepKept, AuctionInv, AuctionTypeOK

\* Recording a delivery bills it; recording a failure moves no money yet.
LEMMA OutcomeKept ==
    ASSUME AuctionInv, NEW r \in Runs,
           RecordDelivered(r) \/ RecordFailed(r) \/ Credit(r)
    PROVE  StepKept
<1>1. run[r].pick \in Hold /\ run[r].lead \in Leads
  BY DEF RecordDelivered, RecordFailed, Credit, At, AuctionInv, RunsKnowTheirBid,
         Committed
<1>2. CASE RecordDelivered(r)
  <2>1. WalletNext
    BY <1>2 DEF RecordDelivered, WalletNext
  <2>2. run' \in [Runs -> RunRecord] /\ RunsKnowTheirBid'
    BY <1>2, FinishKeepsLocals DEF RecordDelivered
  <2>3. /\ post' \in [Keys -> {"none", "failed", "delivered"}]
        /\ status' \in [Leads -> {"qualified", "sold", "unsold", "rejected", "nurtured"}]
        /\ UNCHANGED <<held>>
    BY <1>2 DEF RecordDelivered, AuctionInv, AuctionTypeOK
  <2>4. sold' \in [Buyers -> Nat]
    BY <1>1, <1>2 DEF RecordDelivered, AuctionInv, AuctionTypeOK, Hold
  <2>5. timeline' \in [Leads -> SUBSET Edges]
    BY <1>1, <1>2, TimelineGrows DEF RecordDelivered, AuctionInv, AuctionTypeOK, Stages
  <2>. QED  BY <2>1, <2>2, <2>3, <2>4, <2>5 DEF StepKept, AuctionInv, AuctionTypeOK
<1>3. CASE RecordFailed(r)
  <2>1. run' \in [Runs -> RunRecord] /\ RunsKnowTheirBid'
    BY <1>1, <1>3, FinishKeepsLocals, GotoKeepsLocals DEF RecordFailed, At, PCs
  <2>2. /\ post' \in [Keys -> {"none", "failed", "delivered"}]
        /\ status' \in [Leads -> {"qualified", "sold", "unsold", "rejected", "nurtured"}]
        /\ UNCHANGED <<walletVars, held, sold>>
    BY <1>1, <1>3 DEF RecordFailed, AuctionInv, AuctionTypeOK
  <2>3. timeline' \in [Leads -> SUBSET Edges]
    BY <1>1, <1>3, TimelineGrows DEF RecordFailed, AuctionInv, AuctionTypeOK, Stages
  <2>. QED  BY <2>1, <2>2, <2>3 DEF StepKept, AuctionInv, AuctionTypeOK
<1>4. CASE Credit(r)
  <2>1. WalletNext
    BY <1>4 DEF Credit, WalletNext
  <2>2. run' \in [Runs -> RunRecord] /\ RunsKnowTheirBid'
    BY <1>4, FinishKeepsLocals DEF Credit
  <2>. QED  BY <1>4, <2>1, <2>2
               DEF Credit, leadVars, StepKept, AuctionInv, AuctionTypeOK
<1>. QED  BY <1>2, <1>3, <1>4

\* A run that is gone either held nothing or leaves its reservation behind.
LEMMA CutOffKept ==
    ASSUME AuctionInv, NEW r \in Runs, RecordConflict(r) \/ CutOff(r)
    PROVE  StepKept
<1>1. Abandon(r) /\ run[r].pc # "idle"
  BY DEF RecordConflict, CutOff, At
<1>2. [WalletNext]_walletVars
  BY <1>1 DEF Abandon, WalletNext
<1>3. run' \in [Runs -> RunRecord] /\ RunsKnowTheirBid'
  BY <1>1, AbandonKeepsLocals
<1>4. UNCHANGED <<post, status, held, timeline, sold>>
  BY DEF RecordConflict, CutOff, leadVars
<1>. QED  BY <1>2, <1>3, <1>4 DEF StepKept, AuctionInv, AuctionTypeOK

\* The nurture worker and the operators do not touch a run.
LEMMA OthersKept ==
    ASSUME AuctionInv,
           \/ \E l \in Leads, from \in {"unsold", "rejected"} : NurtureLead(l, from)
           \/ \E l \in Leads, on \in BOOLEAN : ReviewLead(l, on)
           \/ Operator
    PROVE  StepKept
<1>1. UNCHANGED run
  BY DEF NurtureLead, ReviewLead, Operator, auctionVars
<1>2. [WalletNext]_walletVars
  BY DEF NurtureLead, ReviewLead, Operator, WalletNext, OrmTypes
<1>3. /\ status' \in [Leads -> {"qualified", "sold", "unsold", "rejected", "nurtured"}]
      /\ held' \in [Leads -> BOOLEAN]
      /\ UNCHANGED <<post, sold>>
  BY DEF NurtureLead, ReviewLead, Operator, auctionVars, AuctionInv, AuctionTypeOK
<1>4. timeline' \in [Leads -> SUBSET Edges]
  BY TimelineGrows DEF NurtureLead, ReviewLead, Operator, auctionVars, AuctionInv,
                       AuctionTypeOK, Stages
<1>. QED  BY <1>1, <1>2, <1>3, <1>4
             DEF StepKept, AuctionInv, AuctionTypeOK, RunsKnowTheirBid

LEMMA AuctionStepKept == AuctionInv /\ [AuctionNext]_vars => StepKept
<1>. SUFFICES ASSUME AuctionInv, [AuctionNext]_vars PROVE StepKept
  OBVIOUS
<1>1. ASSUME NEW r \in Runs, NEW l \in Leads, Start(r, l)
      PROVE  StepKept
  BY <1>1, LoadKeepsLocals, LocalStep DEF Start
<1>2. ASSUME NEW r \in Runs, RunStep(r)
      PROVE  StepKept
  BY <1>2, ReadsKept, BidsKept, ReserveKept, PostKept, ClosingKept, OutcomeKept,
     CutOffKept DEF RunStep
<1>3. CASE UNCHANGED vars
  BY <1>3, LocalStep
     DEF vars, auctionVars, leadVars, AuctionInv, AuctionTypeOK, RunsKnowTheirBid
<1>. QED  BY <1>1, <1>2, <1>3, CutOffKept, OthersKept DEF AuctionNext

LEMMA AuctionInitInv == AuctionInit => AuctionInv
<1>. SUFFICES ASSUME AuctionInit PROVE AuctionInv
  OBVIOUS
<1>1. WalletInv
  BY WalletInitInv DEF AuctionInit
<1>2. AuctionTypeOK
  BY IdleRunIsTyped DEF AuctionInit, AuctionTypeOK
<1>3. RunsKnowTheirBid
  BY DEF AuctionInit, RunsKnowTheirBid, IdleRun, Committed
<1>. QED  BY <1>1, <1>2, <1>3 DEF AuctionInv

LEMMA AuctionStepInv == AuctionInv /\ [AuctionNext]_vars => AuctionInv'
BY AuctionStepKept, WalletStepInv DEF StepKept, AuctionInv

-----------------------------------------------------------------------------

\* The invariant of the auction holds in every reachable state.
THEOREM AuctionInvariant == AuctionSpec => []AuctionInv
BY AuctionInitInv, AuctionStepInv, PTL DEF AuctionSpec

\* Type correctness of the runs and of the rows they write.
THEOREM AuctionTypeCorrect == AuctionSpec => []AuctionTypeOK
<1>1. AuctionInv => AuctionTypeOK
  BY DEF AuctionInv
<1>. QED  BY <1>1, AuctionInvariant, PTL

\* Every step of an auction, of the nurture worker and of an operator is a step
\* of Wallet or leaves the wallets alone, however many runs overlap.
THEOREM AuctionImplementsWallet == AuctionSpec => WalletRefined
<1>1. AuctionInit => WalletInit
  BY DEF AuctionInit
<1>2. AuctionInv /\ [AuctionNext]_vars => [WalletNext]_walletVars
  BY AuctionStepKept DEF StepKept
<1>. QED  BY <1>1, <1>2, AuctionInvariant, PTL
          DEF AuctionSpec, WalletSpec, WalletRefined

\* No auction overdraws a wallet.
THEOREM AuctionNeverOverdraws == AuctionSpec => []NoOverdraft
BY AuctionImplementsWallet, WalletNeverOverdrawn, PTL DEF WalletRefined

\* Under auctions too, only a lost update makes a wallet differ from its ledger.
THEOREM AuctionExplainedByLedger == AuctionSpec => []LedgerExplainsWallet
BY AuctionImplementsWallet, WalletExplainedByLedger, PTL DEF WalletRefined

\* No overlap, retry or cut-off settles a reservation twice or loses one.
THEOREM AuctionAccountsReservations == AuctionSpec => []ReservationsAccounted
BY AuctionImplementsWallet, WalletAccountsReservations, PTL DEF WalletRefined

-----------------------------------------------------------------------------
(* Sales.                                                                  *)

\* The key a run delivers under is one of its lead.
LEMMA KeyIsTyped ==
    ASSUME AuctionInv, NEW r \in Runs, At(r, "record")
    PROVE  KeyOf(r) \in Keys /\ KeyOf(r)[1] = run[r].lead /\ run[r].lead \in Leads
<1>1. run[r].pick \in Hold /\ run[r].lead \in Leads
  BY DEF At, AuctionInv, RunsKnowTheirBid, Committed
<1>2. run[r].pick.buyer \in Buyers /\ run[r].pick.cents \in Cents
  BY <1>1 DEF Hold
<1>. QED  BY <1>1, <1>2 DEF KeyOf, Keys

\* A recorded delivery adds its key to the sales of its lead and to no other.
LEMMA DeliveryAdds ==
    ASSUME AuctionInv, NEW r \in Runs, RecordDelivered(r)
    PROVE  \A l \in Leads :
             Delivered(l)' = IF l = run[r].lead THEN Delivered(l) \cup {KeyOf(r)}
                             ELSE Delivered(l)
<1>1. KeyOf(r) \in Keys /\ KeyOf(r)[1] = run[r].lead
  BY KeyIsTyped DEF RecordDelivered
<1>2. post' = [post EXCEPT ![KeyOf(r)] = "delivered"]
  BY DEF RecordDelivered
<1>3. post \in [Keys -> {"none", "failed", "delivered"}]
  BY DEF AuctionInv, AuctionTypeOK
<1>4. \A k \in Keys : (post'[k] = "delivered") = (k = KeyOf(r) \/ post[k] = "delivered")
  BY <1>1, <1>2, <1>3
<1>. HIDE <1>2
<1>. QED  BY <1>1, <1>4 DEF Delivered

\* No other step adds or removes a sale.
LEMMA NoOtherSales ==
    ASSUME AuctionInv, [AuctionNext]_vars, \A r \in Runs : ~RecordDelivered(r)
    PROVE  \A l \in Leads : Delivered(l)' = Delivered(l)
<1>1. CASE UNCHANGED post
  BY <1>1 DEF Delivered
<1>2. ASSUME NEW r \in Runs, RecordFailed(r)
      PROVE  \A l \in Leads : Delivered(l)' = Delivered(l)
  <2>1. post' = [post EXCEPT ![KeyOf(r)] = "failed"] /\ post[KeyOf(r)] = "none"
    BY <1>2 DEF RecordFailed
  <2>2. post \in [Keys -> {"none", "failed", "delivered"}]
    BY DEF AuctionInv, AuctionTypeOK
  <2>3. \A k \in Keys : (post'[k] = "delivered") = (post[k] = "delivered")
    BY <2>1, <2>2
  <2>. HIDE <2>1
  <2>. QED  BY <2>3 DEF Delivered
<1>3. ASSUME NEW r \in Runs, RunStep(r), ~RecordFailed(r)
      PROVE  UNCHANGED post
  BY <1>3 DEF RunStep, RefuseLead, CheckSale, SelectBuyers, RecordAuctioned,
     PingBuyers, PickWinner, BidWindowExpires, CheckDeliveryKey, Reserve,
     ReserveRejected, PostAccepted, PostRefused, PostFailed, Credit,
     RecordUnsold, AnnounceUnsold, CloseUnsold, RecordConflict, Retry, leadVars
<1>4. ASSUME ~(\E r \in Runs : RunStep(r))
      PROVE  UNCHANGED post
  BY <1>4 DEF AuctionNext, vars, auctionVars, leadVars, Start, CutOff,
     NurtureLead, ReviewLead, Operator
<1>. QED  BY <1>1, <1>2, <1>3, <1>4

\* Only a recorded delivery writes the edge to sold or the status sold.
LEMMA OnlyDeliveriesSell ==
    ASSUME AuctionInv, [AuctionNext]_vars, \A r \in Runs : ~RecordDelivered(r),
           NEW l \in Leads
    PROVE  /\ (<<"auctioned", "sold">> \in timeline'[l])
                = (<<"auctioned", "sold">> \in timeline[l])
           /\ status'[l] = "sold" => status[l] = "sold"
<1>1. timeline \in [Leads -> SUBSET Edges]
      /\ status \in [Leads -> {"qualified", "sold", "unsold", "rejected", "nurtured"}]
  BY DEF AuctionInv, AuctionTypeOK
<1>2. ASSUME NEW m, NEW from, NEW to, RecordTransition(m, from, to), to # "sold"
      PROVE  (<<"auctioned", "sold">> \in timeline'[l])
                = (<<"auctioned", "sold">> \in timeline[l])
  BY <1>1, <1>2 DEF RecordTransition
<1>3. ASSUME NEW r \in Runs, RunStep(r)
      PROVE  \/ UNCHANGED timeline
             \/ \E m, from, to : to # "sold" /\ RecordTransition(m, from, to)
  BY <1>3 DEF RunStep, RefuseLead, CheckSale, SelectBuyers, RecordAuctioned,
     PingBuyers, PickWinner, BidWindowExpires, CheckDeliveryKey, Reserve,
     ReserveRejected, PostAccepted, PostRefused, PostFailed, RecordFailed, Credit,
     RecordUnsold, AnnounceUnsold, CloseUnsold, RecordConflict, Retry, leadVars
<1>4. \/ UNCHANGED timeline
      \/ \E m, from, to : to # "sold" /\ RecordTransition(m, from, to)
  BY <1>3 DEF AuctionNext, vars, auctionVars, leadVars, Start, CutOff,
     NurtureLead, ReviewLead, Operator
<1>5. ASSUME NEW r \in Runs, RunStep(r), status'[l] = "sold"
      PROVE  status[l] = "sold"
  BY <1>1, <1>5 DEF RunStep, RefuseLead, CheckSale, SelectBuyers, RecordAuctioned,
     PingBuyers, PickWinner, BidWindowExpires, CheckDeliveryKey, Reserve,
     ReserveRejected, PostAccepted, PostRefused, PostFailed, RecordFailed, Credit,
     RecordUnsold, AnnounceUnsold, CloseUnsold, RecordConflict, Retry, leadVars
<1>6. status'[l] = "sold" => status[l] = "sold"
  BY <1>1, <1>5 DEF AuctionNext, vars, auctionVars, leadVars, Start, CutOff,
     NurtureLead, ReviewLead, Operator
<1>. QED  BY <1>2, <1>4, <1>6

LEMMA TimelineStep ==
    AuctionInv /\ TimelineShowsSales /\ [AuctionNext]_vars => TimelineShowsSales'
<1>. SUFFICES ASSUME AuctionInv, TimelineShowsSales, [AuctionNext]_vars,
                     NEW l \in Leads
              PROVE  /\ (<<"auctioned", "sold">> \in timeline'[l]) = (Delivered(l)' # {})
                     /\ status'[l] = "sold" => Delivered(l)' # {}
  BY DEF TimelineShowsSales
<1>1. /\ (<<"auctioned", "sold">> \in timeline[l]) = (Delivered(l) # {})
      /\ status[l] = "sold" => Delivered(l) # {}
  BY DEF TimelineShowsSales
<1>2. CASE \A r \in Runs : ~RecordDelivered(r)
  BY <1>1, <1>2, NoOtherSales, OnlyDeliveriesSell
<1>3. ASSUME NEW r \in Runs, RecordDelivered(r)
      PROVE  /\ (<<"auctioned", "sold">> \in timeline'[l]) = (Delivered(l)' # {})
             /\ status'[l] = "sold" => Delivered(l)' # {}
  <2>1. /\ timeline' = [timeline EXCEPT ![run[r].lead] =
                            @ \cup {<<"auctioned", "sold">>}]
        /\ status' = [status EXCEPT ![run[r].lead] = "sold"]
    BY <1>3 DEF RecordDelivered, RecordTransition
  <2>2. timeline \in [Leads -> SUBSET Edges] /\ DOMAIN status = Leads
    BY DEF AuctionInv, AuctionTypeOK
  <2>3. Delivered(l)' = IF l = run[r].lead THEN Delivered(l) \cup {KeyOf(r)}
                        ELSE Delivered(l)
    BY <1>3, DeliveryAdds
  <2>4. CASE l = run[r].lead
    BY <2>1, <2>2, <2>3, <2>4
  <2>5. CASE l # run[r].lead
    <3>1. timeline'[l] = timeline[l] /\ status'[l] = status[l]
      BY <2>1, <2>2, <2>5
    <3>. QED  BY <1>1, <2>3, <2>5, <3>1
  <2>. QED  BY <2>4, <2>5
<1>. QED  BY <1>2, <1>3

\* The audit timeline and the lead status agree with the deliveries, whatever
\* overlaps and is cut off.
THEOREM TimelineIsTrue == AuctionSpec => []TimelineShowsSales
<1>1. AuctionInit => TimelineShowsSales
  BY DEF AuctionInit, TimelineShowsSales, Delivered
<1>. QED  BY <1>1, TimelineStep, AuctionInvariant, PTL DEF AuctionSpec

-----------------------------------------------------------------------------
(* Deliveries and what is billed for them.                                 *)

\* A reservation belongs to the bid of the run that holds it: what is billed
\* for a delivery is the bid under whose key the delivery is recorded.
HoldsItsBid ==
    \A r \in Runs :
        hold[r] # NoHold => /\ run[r].pc \in {"post", "record", "credit"}
                            /\ hold[r] = run[r].pick

\* What makes DeliveriesBilledOnce inductive.
BilledInv ==
    /\ HoldsItsBid
    /\ \A b \in Buyers : IsFiniteSet(DeliveredTo(b))
    /\ DeliveriesBilledOnce

\* Only the run that reserves or settles touches its reservation.
LEMMA HoldsItsBidStep ==
    AuctionInv /\ HoldsItsBid /\ [AuctionNext]_vars => HoldsItsBid'
<1>. SUFFICES ASSUME AuctionInv, HoldsItsBid, [AuctionNext]_vars,
                     NEW s \in Runs, hold'[s] # NoHold
              PROVE  /\ run'[s].pc \in {"post", "record", "credit"}
                     /\ hold'[s] = run'[s].pick
  BY DEF HoldsItsBid
<1>. DEFINE Kept == /\ run'[s].pc \in {"post", "record", "credit"}
                    /\ hold'[s] = run'[s].pick
<1>1. run \in [Runs -> RunRecord] /\ DOMAIN hold = Runs
  BY DEF AuctionInv, AuctionTypeOK, WalletInv, WalletTypeOK
<1>2. run[s] \in [pc : PCs, lead : Leads \cup {NoLead}, allowed : BOOLEAN,
                  funds : [Buyers -> Nat], answers : [Buyers -> Cents \cup {0}],
                  pick : Hold \cup {NoHold}, tries : 0 .. MaxAttempts,
                  ok : BOOLEAN]
  BY <1>1 DEF RunRecord
<1>3. hold[s] # NoHold => /\ run[s].pc \in {"post", "record", "credit"}
                          /\ hold[s] = run[s].pick
  BY DEF HoldsItsBid
<1>4. CASE hold'[s] = hold[s] /\ run'[s] = run[s]
  BY <1>3, <1>4
<1>5. ASSUME NEW r \in Runs, NEW new, run' = [run EXCEPT ![r] = new],
             hold' = [hold EXCEPT ![r] = NoHold]
      PROVE  Kept
  <2>1. r # s
    BY <1>1, <1>5
  <2>. QED  BY <1>1, <1>4, <1>5, <2>1
<1>6. ASSUME NEW r \in Runs, Finish(r) \/ Abandon(r) \/ \E l : Load(r, l)
      PROVE  \E new : run' = [run EXCEPT ![r] = new]
  BY <1>6 DEF Finish, Abandon, Load
<1>7. ASSUME NEW r \in Runs, NEW new, run' = [run EXCEPT ![r] = new],
             UNCHANGED hold,
             \/ run[r].pc \notin {"post", "record", "credit"}
             \/ hold[r] = NoHold
      PROVE  Kept
  <2>1. r # s
    BY <1>3, <1>7
  <2>. QED  BY <1>1, <1>4, <1>7, <2>1
<1>8. CASE \E r \in Runs, l \in Leads : Start(r, l)
  BY <1>6, <1>7, <1>8 DEF Start, At, walletVars
<1>9. ASSUME NEW r \in Runs, RunStep(r)
      PROVE  Kept
  <2>1. CASE \/ RefuseLead(r) \/ CheckSale(r) \/ SelectBuyers(r)
             \/ RecordAuctioned(r) \/ PingBuyers(r) \/ PickWinner(r)
             \/ BidWindowExpires(r) \/ CheckDeliveryKey(r)
             \/ RecordUnsold(r) \/ AnnounceUnsold(r) \/ CloseUnsold(r) \/ Retry(r)
    <3>1. UNCHANGED hold /\ run[r].pc \notin {"post", "record", "credit"}
      BY <2>1 DEF RefuseLead, CheckSale, SelectBuyers, RecordAuctioned, PingBuyers,
         PickWinner, BidWindowExpires, CheckDeliveryKey, RecordUnsold,
         AnnounceUnsold, CloseUnsold, Retry, At, walletVars
    <3>2. r # s \/ hold[s] = NoHold
      BY <1>3, <3>1
    <3>3. r # s
      BY <3>1, <3>2
    <3>4. run'[s] = run[s]
      BY <1>1, <2>1, <3>3 DEF RefuseLead, CheckSale, SelectBuyers, RecordAuctioned,
         PingBuyers, PickWinner, BidWindowExpires, CheckDeliveryKey, RecordUnsold,
         AnnounceUnsold, CloseUnsold, Retry, Goto, Finish, Load
    <3>. QED  BY <1>4, <3>1, <3>4
  <2>2. CASE Reserve(r)
    <3>1. run' = [run EXCEPT ![r].pc = "post"]
      BY <2>2 DEF Reserve, Goto
    <3>2. hold' = [hold EXCEPT ![r] = [buyer |-> run[r].pick.buyer,
                                       cents |-> run[r].pick.cents]]
      BY <2>2 DEF Reserve, ReserveBuyerWallet
    <3>3. CASE r # s
      BY <1>1, <1>4, <3>1, <3>2, <3>3
    <3>4. CASE r = s
      <4>1. run[s].pick \in Hold
        BY <2>2, <3>4 DEF Reserve, At, AuctionInv, RunsKnowTheirBid, Committed
      <4>2. hold'[s] = run[s].pick
        BY <1>1, <3>2, <3>4, <4>1 DEF Hold
      <4>3. run'[s].pc = "post" /\ run'[s].pick = run[s].pick
        BY <1>1, <1>2, <3>1, <3>4
      <4>. QED  BY <4>2, <4>3
    <3>. QED  BY <3>3, <3>4
  <2>3. CASE ReserveRejected(r) \/ PostAccepted(r) \/ PostRefused(r) \/ PostFailed(r)
    <3>1. UNCHANGED hold
      BY <2>3 DEF ReserveRejected, PostAccepted, PostRefused, PostFailed, walletVars
    <3>2. CASE r # s
      <4>1. run'[s] = run[s]
        BY <1>1, <2>3, <3>2
           DEF ReserveRejected, PostAccepted, PostRefused, PostFailed, Goto
      <4>. QED  BY <1>4, <3>1, <4>1
    <3>3. CASE r = s
      <4>1. run'[s].pc \in {"post", "record"} /\ run'[s].pick = run[s].pick
        BY <1>1, <1>2, <2>3, <3>3
           DEF ReserveRejected, PostAccepted, PostRefused, PostFailed, Goto, At
      <4>. QED  BY <1>3, <3>1, <4>1
    <3>. QED  BY <3>2, <3>3
  <2>4. CASE RecordDelivered(r)
    BY <1>5, <1>6, <2>4 DEF RecordDelivered, BillPosted
  <2>5. CASE RecordFailed(r)
    <3>1. UNCHANGED hold
      BY <2>5 DEF RecordFailed, walletVars
    <3>2. CASE hold[r] = NoHold
      BY <1>6, <1>7, <2>5, <3>1, <3>2 DEF RecordFailed
    <3>3. CASE hold[r] # NoHold
      <4>1. run' = [run EXCEPT ![r].pc = "credit"]
        BY <2>5, <3>3 DEF RecordFailed, Goto
      <4>2. run'[s].pick = run[s].pick /\ run'[s].pc \in {run[s].pc, "credit"}
        BY <1>1, <1>2, <4>1
      <4>. QED  BY <1>3, <3>1, <4>2
    <3>. QED  BY <3>2, <3>3
  <2>6. CASE Credit(r)
    BY <1>5, <1>6, <2>6 DEF Credit, CreditFailedDelivery
  <2>7. CASE RecordConflict(r)
    BY <1>5, <1>6, <1>7, <2>7 DEF RecordConflict, Abandon, OrphanHold, walletVars
  <2>. QED  BY <1>9, <2>1, <2>2, <2>3, <2>4, <2>5, <2>6, <2>7 DEF RunStep
<1>10. ASSUME NEW r \in Runs, CutOff(r)
       PROVE  Kept
  BY <1>5, <1>6, <1>7, <1>10 DEF CutOff, Abandon, OrphanHold, walletVars
<1>11. CASE UNCHANGED <<run, hold>>
  BY <1>4, <1>11
<1>. QED
  BY <1>8, <1>9, <1>10, <1>11
     DEF AuctionNext, vars, auctionVars, walletVars, NurtureLead, ReviewLead,
         Operator, SetActive, OrmRead, OrmWrite, OrmAbort

\* The lead.posted total of a buyer grows with a recorded delivery, by the bid
\* of the run, and with nothing else.
LEMMA PostedGrows ==
    ASSUME AuctionInv, HoldsItsBid, [AuctionNext]_vars, NEW b \in Buyers
    PROVE  \/ \E r \in Runs :
                /\ RecordDelivered(r)
                /\ billed'[b]["lead.posted"] = billed[b]["lead.posted"]
                     + (IF run[r].pick.buyer = b THEN run[r].pick.cents ELSE 0)
           \/ /\ \A r \in Runs : ~RecordDelivered(r)
              /\ billed'[b]["lead.posted"] = billed[b]["lead.posted"]
<1>0. WalletTypeOK /\ \A u \in EventTypes : billed[b][u] \in Nat
  BY DEF AuctionInv, WalletInv, WalletTypeOK
<1>1. ASSUME NEW r \in Runs, RecordDelivered(r)
      PROVE  billed'[b]["lead.posted"] = billed[b]["lead.posted"]
               + (IF run[r].pick.buyer = b THEN run[r].pick.cents ELSE 0)
  <2>1. hold[r] # NoHold /\ Bill(hold[r].buyer, "lead.posted", hold[r].cents)
    BY <1>1 DEF RecordDelivered, BillPosted
  <2>2. hold[r] = run[r].pick
    BY <2>1 DEF HoldsItsBid
  <2>3. hold[r].buyer \in Buyers /\ hold[r].cents \in Cents
    BY <1>0, <2>1, HoldIsTyped
  <2>. QED  BY <1>0, <2>1, <2>2, <2>3, BillAdds DEF EventTypes
<1>2. ASSUME NEW a \in Buyers, NEW t \in EventTypes \ {"lead.posted"},
             NEW c \in Cents, Bill(a, t, c)
      PROVE  billed'[b]["lead.posted"] = billed[b]["lead.posted"]
  BY <1>0, <1>2, BillAdds DEF EventTypes
<1>3. ASSUME \A r \in Runs : ~RecordDelivered(r)
      PROVE  \/ UNCHANGED billed
             \/ \E a \in Buyers, t \in EventTypes \ {"lead.posted"}, c \in Cents :
                  Bill(a, t, c)
  <2>1. ASSUME NEW r \in Runs, Reserve(r)
        PROVE  \E a \in Buyers, c \in Cents : Bill(a, "lead.reserved", c)
    <3>1. run[r].pick \in Hold
      BY <2>1 DEF Reserve, At, AuctionInv, RunsKnowTheirBid, Committed
    <3>. QED  BY <2>1, <3>1 DEF Reserve, ReserveBuyerWallet, Hold
  <2>2. ASSUME NEW r \in Runs, Credit(r)
        PROVE  \E a \in Buyers, c \in Cents :
                 Bill(a, "lead.delivery_failed_credit", c)
    BY <1>0, <2>2, HoldIsTyped DEF Credit, CreditFailedDelivery
  <2>3. ASSUME NEW q \in Requests, OrmWrite(q)
        PROVE  \E a \in Buyers, t \in OrmTypes, c \in Cents : Bill(a, t, c)
    BY <1>0, <2>3, RequestIsTyped DEF OrmWrite
  <2>4. ASSUME NEW r \in Runs, RunStep(r)
        PROVE  UNCHANGED billed \/ Reserve(r) \/ Credit(r)
    BY <1>3, <2>4 DEF RunStep, RefuseLead, CheckSale, SelectBuyers, RecordAuctioned,
       PingBuyers, PickWinner, BidWindowExpires, CheckDeliveryKey,
       ReserveRejected, PostAccepted, PostRefused, PostFailed, RecordFailed,
       RecordUnsold, AnnounceUnsold, CloseUnsold, RecordConflict, Retry, Abandon,
       OrphanHold, walletVars
  <2>5. ASSUME NEW r \in Runs, CutOff(r)
        PROVE  UNCHANGED billed
    BY <2>5 DEF CutOff, Abandon, OrphanHold, walletVars
  <2>6. \/ UNCHANGED billed \/ \E q \in Requests : OrmWrite(q)
        \/ \E r \in Runs : RunStep(r)
    BY <2>5 DEF AuctionNext, vars, walletVars, Start, NurtureLead, ReviewLead,
       Operator, SetActive, OrmRead, OrmAbort
  <2>. QED  BY <2>1, <2>2, <2>3, <2>4, <2>6 DEF EventTypes, OrmTypes
<1>. QED  BY <1>1, <1>2, <1>3

\* Only a recorded delivery counts as a sale of its buyer today.
LEMMA SoldGrows ==
    ASSUME AuctionInv, [AuctionNext]_vars, NEW b \in Buyers
    PROVE  /\ \A r \in Runs : RecordDelivered(r) =>
                sold'[b] = sold[b] + (IF run[r].pick.buyer = b THEN 1 ELSE 0)
           /\ (\A r \in Runs : ~RecordDelivered(r)) => sold'[b] = sold[b]
<1>1. sold \in [Buyers -> Nat]
  BY DEF AuctionInv, AuctionTypeOK
<1>2. ASSUME NEW r \in Runs, RecordDelivered(r)
      PROVE  sold'[b] = sold[b] + (IF run[r].pick.buyer = b THEN 1 ELSE 0)
  BY <1>1, <1>2 DEF RecordDelivered
<1>3. ASSUME \A r \in Runs : ~RecordDelivered(r)
      PROVE  sold' = sold
  BY <1>3 DEF AuctionNext, vars, auctionVars, leadVars, Start, CutOff, NurtureLead,
     ReviewLead, Operator, RunStep, RefuseLead, CheckSale, SelectBuyers,
     RecordAuctioned, PingBuyers, PickWinner, BidWindowExpires, CheckDeliveryKey,
     Reserve, ReserveRejected, PostAccepted, PostRefused, PostFailed, RecordFailed,
     Credit, RecordUnsold, AnnounceUnsold, CloseUnsold, RecordConflict, Retry
<1>. QED  BY <1>2, <1>3

\* The sum and the number of a buyer's deliveries grow with its sales.
LEMMA BilledStep ==
    AuctionInv /\ BilledInv /\ [AuctionNext]_vars => BilledInv'
<1>. SUFFICES ASSUME AuctionInv, BilledInv, [AuctionNext]_vars
              PROVE  BilledInv'
  OBVIOUS
<1>1. HoldsItsBid /\ HoldsItsBid'
  BY HoldsItsBidStep DEF BilledInv
<1>2. post \in [Keys -> {"none", "failed", "delivered"}]
  BY DEF AuctionInv, AuctionTypeOK
<1>3. ASSUME NEW b \in Buyers
      PROVE  /\ IsFiniteSet(DeliveredTo(b)')
             /\ billed'[b]["lead.posted"] = SumOfBids(DeliveredTo(b)')
             /\ sold'[b] = Cardinality(DeliveredTo(b)')
  <2>. DEFINE S == DeliveredTo(b)
              w == [k \in Keys |-> k[3]]
  <2>1. /\ IsFiniteSet(S) /\ billed[b]["lead.posted"] = SumFunctionOnSet(w, S)
        /\ sold[b] = Cardinality(S)
    BY DEF BilledInv, DeliveriesBilledOnce, SumOfBids
  <2>2. CASE \A r \in Runs : ~RecordDelivered(r)
    <3>1. DeliveredTo(b)' = S
      <4>1. \A l \in Leads : Delivered(l)' = Delivered(l)
        BY <2>2, NoOtherSales
      <4>2. ASSUME NEW k \in Keys
            PROVE  (post'[k] = "delivered") <=> (post[k] = "delivered")
        <5>1. k[1] \in Leads
          BY DEF Keys
        <5>2. (k \in Delivered(k[1])') <=> (k \in Delivered(k[1]))
          BY <4>1, <5>1
        <5>. QED  BY <5>2 DEF Delivered
      <4>. QED  BY <4>2 DEF DeliveredTo
    <3>2. billed'[b]["lead.posted"] = billed[b]["lead.posted"] /\ sold'[b] = sold[b]
      BY <1>1, <2>2, PostedGrows, SoldGrows
    <3>. QED  BY <2>1, <3>1, <3>2 DEF SumOfBids
  <2>3. ASSUME NEW r \in Runs, RecordDelivered(r),
               billed'[b]["lead.posted"] = billed[b]["lead.posted"]
                 + (IF run[r].pick.buyer = b THEN run[r].pick.cents ELSE 0)
        PROVE  /\ IsFiniteSet(DeliveredTo(b)')
               /\ billed'[b]["lead.posted"] = SumOfBids(DeliveredTo(b)')
               /\ sold'[b] = Cardinality(DeliveredTo(b)')
    <3>. DEFINE x == KeyOf(r)
    <3>1. x \in Keys /\ x[2] = run[r].pick.buyer /\ x[3] = run[r].pick.cents
      BY <2>3, KeyIsTyped DEF RecordDelivered, KeyOf
    <3>2. post' = [post EXCEPT ![x] = "delivered"] /\ post[x] = "none"
      BY <2>3 DEF RecordDelivered
    <3>3. \A k \in Keys : (post'[k] = "delivered") = (k = x \/ post[k] = "delivered")
      BY <1>2, <3>1, <3>2
    <3>. HIDE DEF x
    <3>4. x \notin S /\ DeliveredTo(b)' = IF x[2] = b THEN S \cup {x} ELSE S
      BY <3>1, <3>2, <3>3 DEF DeliveredTo
    <3>5. S \in SUBSET Keys /\ \A k \in Keys : w[k] = k[3] /\ w[k] \in Int
      <4>1. Cents \subseteq Int
        BY CentsAssumption
      <4>2. \A k \in Keys : k[3] \in Cents
        BY DEF Keys
      <4>. QED  BY <4>1, <4>2 DEF DeliveredTo
    <3>. HIDE DEF S, w
    <3>6. sold'[b] = sold[b] + (IF x[2] = b THEN 1 ELSE 0)
      BY <2>3, <3>1, SoldGrows
    <3>7. CASE x[2] = b
      <4>1. SumFunctionOnSet(w, S \cup {x}) = SumFunctionOnSet(w, S) + w[x]
        BY <2>1, <3>1, <3>4, <3>5, SumAdds
      <4>2. IsFiniteSet(S \cup {x}) /\ Cardinality(S \cup {x}) = Cardinality(S) + 1
        BY <2>1, <3>4, FS_AddElement
      <4>3. billed'[b]["lead.posted"] = SumFunctionOnSet(w, S) + w[x]
        BY <2>1, <2>3, <3>1, <3>5, <3>7
      <4>. QED  BY <2>1, <3>4, <3>6, <3>7, <4>1, <4>2, <4>3 DEF SumOfBids, w
    <3>8. CASE x[2] # b
      <4>1. SumFunctionOnSet(w, S) \in Int /\ Cardinality(S) \in Nat
        BY <2>1, <3>5, SumRemoves, FS_CardinalityType
      <4>. QED  BY <2>1, <2>3, <3>1, <3>4, <3>6, <3>8, <4>1 DEF SumOfBids, w
    <3>. QED  BY <3>7, <3>8
  <2>. QED  BY <1>1, <2>2, <2>3, PostedGrows
<1>. QED  BY <1>1, <1>3 DEF BilledInv, DeliveriesBilledOnce

\* Retried and overlapping runs bill a delivery once: the daily count and the
\* lead.posted total of a buyer are those of its delivered post_results.
THEOREM DeliveriesAreBilledOnce == AuctionSpec => []DeliveriesBilledOnce
<1>1. AuctionInit => BilledInv
  <2>. SUFFICES ASSUME AuctionInit, NEW b \in Buyers
                PROVE  /\ HoldsItsBid /\ IsFiniteSet(DeliveredTo(b))
                       /\ billed[b]["lead.posted"] = SumOfBids(DeliveredTo(b))
                       /\ sold[b] = Cardinality(DeliveredTo(b))
    BY DEF BilledInv, DeliveriesBilledOnce, AuctionInit, WalletInit, HoldsItsBid
  <2>1. DeliveredTo(b) = {}
    BY DEF AuctionInit, DeliveredTo
  <2>2. SumOfBids({}) = 0
    BY FS_EmptySet, SumRemoves DEF SumOfBids
  <2>3. billed[b]["lead.posted"] = 0 /\ sold[b] = 0 /\ HoldsItsBid
    BY DEF AuctionInit, WalletInit, EventTypes, HoldsItsBid
  <2>. QED  BY <2>1, <2>2, <2>3, FS_EmptySet
<1>2. BilledInv => DeliveriesBilledOnce
  BY DEF BilledInv
<1>. QED  BY <1>1, <1>2, BilledStep, AuctionInvariant, PTL DEF AuctionSpec

-----------------------------------------------------------------------------
(* One sale per lead, for runs that do not overlap.                        *)

\* After CheckSale a lone run works on a lead that has no sale, and no lead
\* has two.
LoneRunInv ==
    /\ \A r \in Runs :
         run[r].pc \notin {"idle", "retry", "gate"} => Delivered(run[r].lead) = {}
    /\ \A l \in Leads : \A j, k \in Delivered(l) : j = k

\* A run that reaches a later step was there before or has just found no sale.
LEMMA SearchStartsUnsold ==
    ASSUME AuctionInv, LoneRunInv, NEW r \in Runs, Runs = {r},
           [AuctionNext]_vars, ~RecordDelivered(r),
           run'[r].pc \notin {"idle", "retry", "gate"}
    PROVE  Delivered(run'[r].lead) = {}
<1>. DEFINE Later == run[r].pc \notin {"idle", "retry", "gate"}
<1>1. run \in [Runs -> RunRecord]
  BY DEF AuctionInv, AuctionTypeOK
<1>2. run[r] \in [pc : PCs, lead : Leads \cup {NoLead}, allowed : BOOLEAN,
                  funds : [Buyers -> Nat], answers : [Buyers -> Cents \cup {0}],
                  pick : Hold \cup {NoHold}, tries : 0 .. MaxAttempts,
                  ok : BOOLEAN]
  BY <1>1 DEF RunRecord
<1>3. Later => Delivered(run[r].lead) = {}
  BY DEF LoneRunInv
<1>4. CASE UNCHANGED run
  BY <1>3, <1>4
<1>5. ASSUME NEW label, Goto(r, label)
      PROVE  run'[r].lead = run[r].lead
  BY <1>1, <1>2, <1>5 DEF Goto
<1>6. ASSUME Finish(r) \/ Abandon(r) \/ \E l \in Leads : Load(r, l)
      PROVE  FALSE
  <2>1. /\ IdleRun.pc = "idle"
        /\ [IdleRun EXCEPT !.pc = "retry", !.lead = run[r].lead].pc = "retry"
        /\ \A l \in Leads : [IdleRun EXCEPT !.pc = "gate", !.lead = l,
                                             !.allowed = CanEnter(l)].pc = "gate"
    BY DEF IdleRun
  <2>2. ASSUME NEW new, run' = [run EXCEPT ![r] = new]
        PROVE  run'[r] = new
    BY <1>1, <2>2
  <2>3. run'[r].pc \in {"idle", "retry", "gate"}
    BY <1>6, <2>1, <2>2 DEF Finish, Abandon, Load
  <2>. QED  BY <2>3
<1>7. CASE CheckSale(r)
  BY <1>5, <1>6, <1>7 DEF CheckSale
<1>8. CASE SelectBuyers(r) \/ PingBuyers(r) \/ PickWinner(r) \/ BidWindowExpires(r)
  <2>1. run'[r].lead = run[r].lead
    BY <1>1, <1>2, <1>5, <1>8 DEF SelectBuyers, PingBuyers, PickWinner, BidWindowExpires
  <2>2. Later
    BY <1>8 DEF SelectBuyers, PingBuyers, PickWinner, BidWindowExpires, At
  <2>. QED  BY <1>3, <2>1, <2>2
<1>9. CASE PostAccepted(r) \/ PostRefused(r) \/ PostFailed(r)
  <2>1. run'[r].lead = run[r].lead
    BY <1>1, <1>2, <1>5, <1>9 DEF PostAccepted, PostRefused, PostFailed
  <2>2. Later
    BY <1>9 DEF PostAccepted, PostRefused, PostFailed, At
  <2>. QED  BY <1>3, <2>1, <2>2
<1>10. CASE \/ RecordAuctioned(r) \/ CheckDeliveryKey(r) \/ Reserve(r)
            \/ ReserveRejected(r) \/ RecordFailed(r) \/ RecordUnsold(r)
            \/ AnnounceUnsold(r)
  <2>1. Later
    BY <1>10 DEF RecordAuctioned, CheckDeliveryKey, Reserve, ReserveRejected,
       RecordFailed, RecordUnsold, AnnounceUnsold, At
  <2>2. (\E label : Goto(r, label)) \/ Finish(r)
    BY <1>10 DEF RecordAuctioned, CheckDeliveryKey, Reserve, ReserveRejected,
       RecordFailed, RecordUnsold, AnnounceUnsold
  <2>. QED  BY <1>3, <1>5, <1>6, <2>1, <2>2
<1>11. CASE \/ RefuseLead(r) \/ Credit(r) \/ CloseUnsold(r) \/ RecordConflict(r)
            \/ Retry(r) \/ CutOff(r) \/ \E l \in Leads : Start(r, l)
  <2>1. Finish(r) \/ Abandon(r) \/ \E l \in Leads : Load(r, l)
    BY <1>11 DEF RefuseLead, Credit, CloseUnsold, RecordConflict, Retry, CutOff,
       Start, At, AuctionInv, RunsKnowTheirBid
  <2>. QED  BY <1>6, <2>1
<1>. QED
  BY <1>4, <1>7, <1>8, <1>9, <1>10, <1>11
     DEF AuctionNext, RunStep, vars, auctionVars, NurtureLead, ReviewLead, Operator

LEMMA LoneRunStep ==
    ASSUME NEW r, Runs = {r}, AuctionInv, LoneRunInv, [AuctionNext]_vars
    PROVE  LoneRunInv'
<1>1. r \in Runs
  OBVIOUS
<1>2. CASE RecordDelivered(r)
  <2>1. Delivered(run[r].lead) = {}
    BY <1>1, <1>2 DEF RecordDelivered, At, LoneRunInv
  <2>2. \A l \in Leads : \A j, k \in Delivered(l)' : j = k
    BY <1>1, <1>2, <2>1, DeliveryAdds DEF LoneRunInv
  <2>3. run'[r].pc = "idle"
    BY <1>1, <1>2 DEF RecordDelivered, Finish, IdleRun, AuctionInv, AuctionTypeOK
  <2>. QED  BY <2>2, <2>3 DEF LoneRunInv
<1>3. CASE ~RecordDelivered(r)
  <2>1. \A l \in Leads : Delivered(l)' = Delivered(l)
    BY <1>3, NoOtherSales
  <2>2. ASSUME run'[r].pc \notin {"idle", "retry", "gate"}
        PROVE  Delivered(run[r].lead)' = {}
    <3>1. Delivered(run'[r].lead) = {}
      BY <1>1, <1>3, <2>2, SearchStartsUnsold
    <3>2. run'[r].lead \in Leads
      BY <1>1, <2>2, AuctionStepInv DEF AuctionInv, RunsKnowTheirBid
    <3>. QED  BY <2>1, <3>1, <3>2 DEF Delivered
  <2>. QED  BY <2>1, <2>2 DEF LoneRunInv
<1>. QED  BY <1>2, <1>3

\* With one run at a time, a lead is sold once, however often its auction is
\* triggered, cut off and retried.
THEOREM LoneRunsSellOnce ==
    ASSUME NEW r, Runs = {r}
    PROVE  AuctionSpec => []OneSalePerLead
<1>1. AuctionInit => LoneRunInv
  BY DEF AuctionInit, LoneRunInv, Delivered, IdleRun
<1>2. AuctionInv /\ LoneRunInv /\ [AuctionNext]_vars => LoneRunInv'
  BY LoneRunStep
<1>3. LoneRunInv => OneSalePerLead
  <2>. SUFFICES ASSUME LoneRunInv, NEW l \in Leads
                PROVE  Cardinality(Delivered(l)) <= 1
    BY DEF OneSalePerLead
  <2>1. CASE Delivered(l) = {}
    BY <2>1, FS_EmptySet
  <2>2. ASSUME NEW k \in Delivered(l)
        PROVE  Cardinality(Delivered(l)) <= 1
    <3>1. Delivered(l) = {k}
      BY <2>2 DEF LoneRunInv
    <3>2. Cardinality({k}) = 1
      BY FS_Singleton
    <3>. QED  BY <3>1, <3>2
  <2>. QED  BY <2>1, <2>2
<1>. QED  BY <1>1, <1>2, <1>3, AuctionInvariant, PTL DEF AuctionSpec

-----------------------------------------------------------------------------
(* The daily cap, for runs that do not overlap.                            *)

\* A lone run keeps funds only for buyers that are still below their cap, and
\* its bid is one of theirs.
LoneCapInv ==
    /\ \A r \in Runs :
         /\ \A b \in Buyers : run[r].funds[b] > 0 => sold[b] < DailyCap
         /\ run[r].pick # NoHold => run[r].funds[run[r].pick.buyer] > 0
         /\ run[r].pc \in {"gate", "select"} => run[r].pick = NoHold
    /\ DailyCapKept

\* A lone run preserves it: it raises one count, of a buyer it found below the
\* cap and whose count nobody else has raised since.
LEMMA LoneCapStep ==
    ASSUME NEW r, Runs = {r}, AuctionInv, LoneCapInv, [AuctionNext]_vars
    PROVE  LoneCapInv'
<1>. DEFINE new == run'[r]
            Same == new.funds = run[r].funds /\ new.pick = run[r].pick
<1>0. r \in Runs /\ \A s \in Runs : s = r
  OBVIOUS
<1>1. run \in [Runs -> RunRecord] /\ sold \in [Buyers -> Nat]
  BY DEF AuctionInv, AuctionTypeOK
<1>2. run[r] \in [pc : PCs, lead : Leads \cup {NoLead}, allowed : BOOLEAN,
                  funds : [Buyers -> Nat], answers : [Buyers -> Cents \cup {0}],
                  pick : Hold \cup {NoHold}, tries : 0 .. MaxAttempts,
                  ok : BOOLEAN]
  BY <1>0, <1>1 DEF RunRecord
<1>3. /\ \A b \in Buyers : run[r].funds[b] > 0 => sold[b] < DailyCap
      /\ run[r].pick # NoHold => run[r].funds[run[r].pick.buyer] > 0
      /\ run[r].pc \in {"gate", "select"} => run[r].pick = NoHold
      /\ \A b \in Buyers : sold[b] <= DailyCap
  BY <1>0 DEF LoneCapInv, DailyCapKept
<1>4. /\ IdleRun.pc = "idle" /\ IdleRun.pick = NoHold
      /\ \A b \in Buyers : IdleRun.funds[b] = 0
  BY DEF IdleRun, NoFunds
<1>5. CASE RecordDelivered(r)
  <2>1. run[r].pick \in Hold
    BY <1>0, <1>5 DEF RecordDelivered, At, AuctionInv, RunsKnowTheirBid, Committed
  <2>2. run[r].pick.buyer \in Buyers /\ run[r].pick # NoHold
    <3>1. NoHold.cents = 0
      BY DEF NoHold
    <3>2. run[r].pick.cents # 0 /\ run[r].pick.buyer \in Buyers
      BY <2>1, CentsAssumption DEF Hold
    <3>. QED  BY <3>1, <3>2
  <2>3. sold[run[r].pick.buyer] < DailyCap
    BY <1>3, <2>2
  <2>4. \A b \in Buyers : sold'[b] <= DailyCap
    <3>. SUFFICES ASSUME NEW b \in Buyers PROVE sold'[b] <= DailyCap
      OBVIOUS
    <3>1. sold'[b] = sold[b] + (IF run[r].pick.buyer = b THEN 1 ELSE 0)
      BY <1>0, <1>5, SoldGrows
    <3>. QED  BY <1>1, <1>3, <2>3, <3>1, AuctionAssumption
  <2>5. new = IdleRun
    BY <1>0, <1>1, <1>5 DEF RecordDelivered, Finish
  <2>. QED  BY <1>0, <1>4, <2>4, <2>5 DEF LoneCapInv, DailyCapKept
<1>6. ASSUME ~RecordDelivered(r),
             /\ \A b \in Buyers : new.funds[b] > 0 => sold[b] < DailyCap
             /\ new.pick # NoHold => new.funds[new.pick.buyer] > 0
             /\ new.pc \in {"gate", "select"} => new.pick = NoHold
      PROVE  LoneCapInv'
  <2>1. \A b \in Buyers : sold'[b] = sold[b]
    BY <1>0, <1>6, SoldGrows
  <2>. QED  BY <1>0, <1>3, <1>6, <2>1 DEF LoneCapInv, DailyCapKept
<1>7. ASSUME ~RecordDelivered(r), Same,
             new.pc \in {"gate", "select"} => run[r].pc \in {"gate", "select"}
      PROVE  LoneCapInv'
  BY <1>3, <1>6, <1>7
<1>8. ASSUME ~RecordDelivered(r), Finish(r) \/ Abandon(r) \/ \E l : Load(r, l)
      PROVE  LoneCapInv'
  <2>1. \/ new = IdleRun
        \/ new = [IdleRun EXCEPT !.pc = "retry", !.lead = run[r].lead]
        \/ \E l : new = [IdleRun EXCEPT !.pc = "gate", !.lead = l,
                                        !.allowed = CanEnter(l)]
    BY <1>0, <1>1, <1>8 DEF Finish, Abandon, Load
  <2>2. new.funds = IdleRun.funds /\ new.pick = IdleRun.pick
    BY <2>1 DEF IdleRun
  <2>. QED  BY <1>4, <1>6, <1>8, <2>2
<1>9. ASSUME ~RecordDelivered(r), NEW label, Goto(r, label),
             label \in {"gate", "select"} => run[r].pc \in {"gate", "select"}
      PROVE  LoneCapInv'
  <2>1. Same /\ new.pc = label
    BY <1>0, <1>1, <1>2, <1>9 DEF Goto
  <2>. QED  BY <1>7, <1>9, <2>1
<1>10. ASSUME RunStep(r), ~RecordDelivered(r)
       PROVE  LoneCapInv'
  <2>1. CASE \/ RefuseLead(r) \/ CheckSale(r) \/ RecordAuctioned(r)
             \/ BidWindowExpires(r) \/ CheckDeliveryKey(r) \/ Reserve(r)
             \/ ReserveRejected(r) \/ PostRefused(r) \/ RecordFailed(r) \/ Credit(r)
             \/ RecordUnsold(r) \/ AnnounceUnsold(r) \/ CloseUnsold(r)
             \/ RecordConflict(r) \/ Retry(r)
    BY <1>8, <1>9, <1>10, <2>1
       DEF RefuseLead, CheckSale, RecordAuctioned, BidWindowExpires,
           CheckDeliveryKey, Reserve, ReserveRejected, PostRefused, RecordFailed,
           Credit, RecordUnsold, AnnounceUnsold, CloseUnsold, RecordConflict,
           Retry, At
  <2>2. CASE SelectBuyers(r)
    <3>1. /\ new.funds = [b \in Buyers |-> IF b \in Eligible(run[r].lead)
                                           THEN balance[b] ELSE 0]
          /\ new.pick = run[r].pick /\ run[r].pc = "select"
      BY <1>0, <1>1, <1>2, <2>2 DEF SelectBuyers, At
    <3>2. \A b \in Buyers : new.funds[b] > 0 => sold[b] < DailyCap
      BY <3>1 DEF Eligible, WithinCaps
    <3>. QED  BY <1>3, <1>6, <1>10, <3>1, <3>2
  <2>3. CASE PickWinner(r)
    <3>1. CASE Winners(r) = {}
      BY <1>9, <1>10, <2>3, <3>1 DEF PickWinner
    <3>2. CASE Winners(r) # {}
      <4>1. PICK b \in Winners(r) :
              run' = [run EXCEPT ![r].pc = "key",
                        ![r].pick = [buyer |-> b, cents |-> run[r].answers[b]]]
        BY <2>3, <3>2 DEF PickWinner
      <4>2. b \in Buyers /\ run[r].funds[b] > 0
        <5>1. b \in Buyers /\ run[r].answers[b] > 0
                /\ run[r].answers[b] <= run[r].funds[b]
          BY DEF Winners, Affordable
        <5>2. run[r].funds[b] \in Nat /\ run[r].answers[b] \in Int
          <6>1. Cents \cup {0} \subseteq Int
            BY CentsAssumption
          <6>2. run[r].funds \in [Buyers -> Nat]
                /\ run[r].answers \in [Buyers -> Cents \cup {0}]
            BY <1>2
          <6>. QED  BY <5>1, <6>1, <6>2
        <5>. QED  BY <5>1, <5>2
      <4>3. new.funds = run[r].funds /\ new.pc = "key" /\ new.pick.buyer = b
        BY <1>0, <1>1, <1>2, <4>1
      <4>. QED  BY <1>3, <1>6, <1>10, <4>2, <4>3
    <3>. QED  BY <3>1, <3>2
  <2>4. CASE PingBuyers(r) \/ PostAccepted(r) \/ PostFailed(r)
    <3>1. Same /\ new.pc \in {"pick", "record", "post"}
      BY <1>0, <1>1, <1>2, <2>4 DEF PingBuyers, PostAccepted, PostFailed, Goto, At
    <3>. QED  BY <1>7, <1>10, <3>1
  <2>. QED  BY <1>10, <2>1, <2>2, <2>3, <2>4 DEF RunStep
<1>11. CASE UNCHANGED run /\ ~RecordDelivered(r)
  BY <1>7, <1>11
<1>12. CASE (CutOff(r) \/ \E l \in Leads : Start(r, l)) /\ ~RecordDelivered(r)
  BY <1>8, <1>12 DEF CutOff, Start
<1>. QED
  BY <1>0, <1>5, <1>10, <1>11, <1>12
     DEF AuctionNext, vars, auctionVars, NurtureLead, ReviewLead, Operator

\* With one run at a time, no buyer gets more leads a day than its cap, however
\* often an auction is triggered, cut off and retried.
THEOREM LoneRunsKeepTheCap ==
    ASSUME NEW r, Runs = {r}
    PROVE  AuctionSpec => []DailyCapKept
<1>1. AuctionInit => LoneCapInv
  <2>. SUFFICES ASSUME AuctionInit PROVE LoneCapInv
    OBVIOUS
  <2>1. \A s \in Runs : run[s] = IdleRun
    BY DEF AuctionInit
  <2>2. /\ IdleRun.pc = "idle" /\ IdleRun.pick = NoHold
        /\ \A b \in Buyers : IdleRun.funds[b] = 0
    BY DEF IdleRun, NoFunds
  <2>3. DailyCapKept
    BY AuctionAssumption DEF AuctionInit, DailyCapKept
  <2>. QED  BY <2>1, <2>2, <2>3 DEF LoneCapInv
<1>2. AuctionInv /\ LoneCapInv /\ [AuctionNext]_vars => LoneCapInv'
  BY LoneCapStep
<1>3. LoneCapInv => DailyCapKept
  BY DEF LoneCapInv
<1>. QED  BY <1>1, <1>2, <1>3, AuctionInvariant, PTL DEF AuctionSpec

=============================================================================
