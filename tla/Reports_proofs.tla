--------------------------- MODULE Reports_proofs ---------------------------
(***************************************************************************)
(* Theorems about modules CallTracking and Reports, for any leads, calls,  *)
(* requests and sales: a call is attributed to a lead that is new enough,  *)
(* a market is reported ready on evidence that exists, a margin is never   *)
(* overstated, and the figures of an undisturbed report agree.             *)
(***************************************************************************)
EXTENDS Reports, Wallet_proofs   \* for its lemmas about sums

\* What a handler that is about to upsert knows of its call.
HandlerInv(h) ==
    handler[h].pc = "upsert" =>
        LET c == handler[h].call
        IN  /\ c \in Calls
            /\ known[c] # NoRow
            /\ known[c] \in Leads \ redacted =>
                  AtLeast(handler[h].lead, known[c])

\* What the first announcement of a call found.
KnownInv(c) ==
    /\ attributed[c] # NoRow => known[c] # NoRow
    /\ known[c] \in Leads =>
          Captured(known[c]) /\ PhoneOf[known[c]] = CallPhone[c]

FreshInv ==
    /\ CallTypeOK
    /\ \A h \in Handlers : HandlerInv(h)
    /\ \A c \in Calls : KnownInv(c)
    /\ AttributionIsFresh

-----------------------------------------------------------------------------
(* Attribution                                                             *)

LEMMA InitFresh == ReportsInit => FreshInv
  BY CallAssumption
     DEF ReportsInit, CallInit, FreshInv, CallTypeOK, HandlerInv, KnownInv,
         AttributionIsFresh, IdleHandler

\* A capture gives a new lead a rank and leaves the others theirs.
LEMMA CaptureFresh ==
    ASSUME FreshInv, NEW l \in Leads, Capture(l)
    PROVE  FreshInv'
<1>1. /\ born' \in [Leads -> Nat]
      /\ \A m \in Leads : Captured(m) => born'[m] = born[m]
      /\ \A m \in Leads : born[m] <= born'[m]
  BY DEF FreshInv, CallTypeOK, Capture, Captured
<1>2. ASSUME NEW a, NEW m \in Leads, Captured(m), AtLeast(a, m)
      PROVE  AtLeast(a, m)'
  BY <1>1, <1>2 DEF AtLeast, Captured, FreshInv, CallTypeOK
<1>3. UNCHANGED <<redacted, attributed, handler, deliveries, known>>
  BY DEF Capture
<1>4. ASSUME NEW c \in Calls PROVE KnownInv(c)'
  BY <1>1, <1>3 DEF FreshInv, KnownInv, Captured, CallTypeOK
<1>5. ASSUME NEW h \in Handlers PROVE HandlerInv(h)'
  BY <1>2, <1>3 DEF FreshInv, HandlerInv, KnownInv
<1>6. AttributionIsFresh'
  BY <1>2, <1>3 DEF FreshInv, AttributionIsFresh, KnownInv
<1>7. CallTypeOK'
  BY <1>1, <1>3 DEF FreshInv, CallTypeOK
<1> QED BY <1>4, <1>5, <1>6, <1>7 DEF FreshInv

\* A redaction only takes leads away from what has to be shown.
LEMMA RedactFresh ==
    ASSUME FreshInv, NEW l \in Leads, Redact(l)
    PROVE  FreshInv'
<1>1. /\ redacted \subseteq redacted' /\ redacted' \subseteq Leads
      /\ UNCHANGED <<born, attributed, handler, deliveries, known>>
  BY DEF Redact, FreshInv, CallTypeOK
<1>2. ASSUME NEW c \in Calls PROVE KnownInv(c)'
  BY <1>1 DEF FreshInv, KnownInv, Captured
<1>3. ASSUME NEW h \in Handlers PROVE HandlerInv(h)'
  BY <1>1 DEF FreshInv, HandlerInv, AtLeast
<1>4. AttributionIsFresh'
  BY <1>1 DEF FreshInv, AttributionIsFresh, AtLeast
<1>5. CallTypeOK'
  BY <1>1 DEF FreshInv, CallTypeOK
<1> QED BY <1>2, <1>3, <1>4, <1>5 DEF FreshInv

\* A look-up finds a lead at least as new as the one that was found first.
LEMMA LookUpFresh ==
    ASSUME FreshInv, NEW h \in Handlers, NEW c \in Calls, LookUp(h, c)
    PROVE  FreshInv'
<1> PICK l \in Leads \cup {NoLead} :
      /\ Newest(l, CallPhone[c])
      /\ handler' = [handler EXCEPT ![h] = [pc |-> "upsert", call |-> c,
                                            lead |-> l]]
      /\ known' = [known EXCEPT ![c] = IF @ = NoRow THEN l ELSE @]
  BY DEF LookUp
<1>1. UNCHANGED <<born, redacted, attributed>> /\ deliveries' = deliveries + 1
  BY DEF LookUp
<1>2. l # NoRow
  BY CallAssumption
<1>3. CallTypeOK'
  BY <1>1 DEF FreshInv, CallTypeOK
<1>4. l \in Leads => Captured(l) /\ PhoneOf[l] = CallPhone[c]
  BY CallAssumption DEF Newest, LeadsOf
<1>5. /\ known'[c] = IF known[c] = NoRow THEN l ELSE known[c]
      /\ \A d \in Calls \ {c} : known'[d] = known[d]
  BY DEF FreshInv, CallTypeOK
<1>6. ASSUME NEW d \in Calls PROVE KnownInv(d)'
  BY <1>1, <1>2, <1>4, <1>5 DEF FreshInv, KnownInv, Captured
<1>7. known[c] \in Leads \ redacted => AtLeast(l, known[c])
  <2> SUFFICES ASSUME known[c] \in Leads \ redacted PROVE AtLeast(l, known[c])
    OBVIOUS
  <2>1. known[c] \in LeadsOf(CallPhone[c])
    BY DEF FreshInv, KnownInv, LeadsOf
  <2>2. l \in Leads /\ born[known[c]] <= born[l]
    BY <2>1 DEF Newest, LeadsOf
  <2> QED BY <2>2 DEF AtLeast, FreshInv, CallTypeOK
<1>8. ASSUME NEW m \in Leads PROVE AtLeast(m, m)
  BY DEF AtLeast, FreshInv, CallTypeOK
<1>9. ASSUME NEW g \in Handlers PROVE HandlerInv(g)'
  <2>1. CASE g = h
    <3>1. handler'[g] = [pc |-> "upsert", call |-> c, lead |-> l]
      BY <2>1 DEF FreshInv, CallTypeOK
    <3> QED BY <3>1, <1>1, <1>2, <1>5, <1>7, <1>8 DEF HandlerInv, AtLeast
  <2>2. CASE g # h
    <3>1. handler'[g] = handler[g]
      BY <2>2 DEF FreshInv, CallTypeOK
    <3>2. HandlerInv(g)
      BY DEF FreshInv
    <3> QED BY <3>1, <3>2, <1>1, <1>5 DEF HandlerInv, AtLeast
  <2> QED BY <2>1, <2>2
<1>10. AttributionIsFresh'
  <2> SUFFICES ASSUME NEW d \in Calls, attributed'[d] # NoRow,
                      known'[d] \in Leads \ redacted'
               PROVE  AtLeast(attributed[d], known[d])'
    BY DEF AttributionIsFresh
  <2>1. known'[d] = known[d]
    BY <1>1, <1>5 DEF FreshInv, KnownInv
  <2> QED BY <1>1, <2>1 DEF FreshInv, AttributionIsFresh, AtLeast
<1> QED BY <1>3, <1>6, <1>9, <1>10 DEF FreshInv

\* The upsert writes what the handler found.
LEMMA UpsertFresh ==
    ASSUME FreshInv, NEW h \in Handlers, UpsertCall(h)
    PROVE  FreshInv'
<1> DEFINE c == handler[h].call
<1>1. /\ c \in Calls /\ known[c] # NoRow
      /\ known[c] \in Leads \ redacted => AtLeast(handler[h].lead, known[c])
  BY DEF UpsertCall, FreshInv, HandlerInv
<1>2. /\ UNCHANGED <<born, redacted, deliveries, known>>
      /\ attributed' = [attributed EXCEPT ![c] = handler[h].lead]
      /\ handler' = [handler EXCEPT ![h] = IdleHandler]
  BY DEF UpsertCall
<1>3. CallTypeOK'
  BY <1>1, <1>2 DEF FreshInv, CallTypeOK, IdleHandler
<1>4. /\ attributed'[c] = handler[h].lead
      /\ \A d \in Calls \ {c} : attributed'[d] = attributed[d]
  BY <1>1, <1>2 DEF FreshInv, CallTypeOK
<1>5. ASSUME NEW d \in Calls PROVE KnownInv(d)'
  BY <1>1, <1>2, <1>4 DEF FreshInv, KnownInv, Captured
<1>6. ASSUME NEW g \in Handlers PROVE HandlerInv(g)'
  BY <1>2 DEF FreshInv, HandlerInv, CallTypeOK, IdleHandler, AtLeast
<1>7. AttributionIsFresh'
  BY <1>1, <1>2, <1>4 DEF FreshInv, AttributionIsFresh, AtLeast
<1> QED BY <1>3, <1>5, <1>6, <1>7 DEF FreshInv

\* A failed request leaves the rows as they are.
LEMMA FailFresh ==
    ASSUME FreshInv, NEW h \in Handlers, FailCall(h)
    PROVE  FreshInv'
<1>1. /\ UNCHANGED <<born, redacted, attributed, deliveries, known>>
      /\ handler' = [handler EXCEPT ![h] = IdleHandler]
  BY DEF FailCall
<1>2. CallTypeOK'
  BY <1>1 DEF FreshInv, CallTypeOK, IdleHandler
<1>3. ASSUME NEW d \in Calls PROVE KnownInv(d)'
  BY <1>1 DEF FreshInv, KnownInv, Captured
<1>4. ASSUME NEW g \in Handlers PROVE HandlerInv(g)'
  BY <1>1 DEF FreshInv, HandlerInv, CallTypeOK, IdleHandler, AtLeast
<1>5. AttributionIsFresh'
  BY <1>1 DEF FreshInv, AttributionIsFresh, AtLeast
<1> QED BY <1>2, <1>3, <1>4, <1>5 DEF FreshInv

\* A step that is not one of the call tracking leaves its variables alone.
LEMMA OtherFresh ==
    ASSUME FreshInv, UNCHANGED callVars
    PROVE  FreshInv'
<1>1. UNCHANGED <<born, redacted, attributed, handler, deliveries, known>>
  BY DEF callVars
<1>2. CallTypeOK'
  BY <1>1 DEF FreshInv, CallTypeOK
<1>3. ASSUME NEW d \in Calls PROVE KnownInv(d)'
  BY <1>1 DEF FreshInv, KnownInv, Captured
<1>4. ASSUME NEW g \in Handlers PROVE HandlerInv(g)'
  BY <1>1 DEF FreshInv, HandlerInv, AtLeast
<1>5. AttributionIsFresh'
  BY <1>1 DEF FreshInv, AttributionIsFresh, AtLeast
<1> QED BY <1>2, <1>3, <1>4, <1>5 DEF FreshInv

LEMMA NextFresh == FreshInv /\ [ReportsNext]_reportsVars => FreshInv'
<1> SUFFICES ASSUME FreshInv, [ReportsNext]_reportsVars PROVE FreshInv'
  OBVIOUS
<1>1. CASE TrackCalls
  BY <1>1, CaptureFresh, RedactFresh, LookUpFresh, UpsertFresh, FailFresh
     DEF TrackCalls, CallNext
<1>2. CASE ReportsNext /\ ~TrackCalls
  BY <1>2, OtherFresh
     DEF ReportsNext, Deliver, FailDelivery, Approve, Overwrite, Begin, Select,
         Answer
<1>3. CASE UNCHANGED reportsVars
  BY <1>3, OtherFresh DEF reportsVars
<1> QED BY <1>1, <1>2, <1>3

\* ingest_call_event attributes a call to a lead at least as new as the newest
\* one there was when the call was announced first, in any order of requests.
THEOREM CallsAreFresh == ReportsSpec => []AttributionIsFresh
<1>1. FreshInv => AttributionIsFresh
  BY DEF FreshInv
<1> QED BY InitFresh, NextFresh, <1>1, PTL DEF ReportsSpec

-----------------------------------------------------------------------------
(* Readiness                                                               *)

\* The report is a record of figures.
ReportShape ==
    /\ report = [kind |-> report.kind, market |-> report.market,
                 asked |-> report.asked, value |-> report.value]
    /\ DOMAIN report.value = Figures
    /\ report.asked \in Nat

\* What launch_readiness has read so far is still there.
ReadyInv ==
    report.kind = "readiness" =>
        LET value == report.value
            market == report.market
        IN  /\ value["delivered"] > 0 => Within(delivered, market) # {}
            /\ value["returned"] > 0 => Within(returned, market) # {}
            /\ value["approved"] > 0 =>
                  Within(approved, market) # {} \/ revoked
            /\ value["campaign"] > 0 => FromCampaign(market) # {}

ReadInv == ReportShape /\ ReadyInv

\* A figure above zero has rows behind it.
LEMMA Behind ==
    ASSUME NEW set, Cardinality(set) > 0
    PROVE  set # {}
  BY FS_EmptySet

LEMMA InitRead == ReportsInit => ReadInv
  BY DEF ReportsInit, Blank, Unread, ReadInv, ReportShape, ReadyInv, Figures

\* What is committed meanwhile only adds rows, or is remembered as revoked.
LEMMA CommitsRead ==
    ASSUME ReadInv, report' = report,
           delivered \subseteq delivered', returned \subseteq returned',
           \/ approved \subseteq approved' /\ revoked' = revoked
           \/ revoked' = Making,
           \A l \in Leads : Captured(l) => Captured(l)'
    PROVE  ReadInv'
<1>1. ASSUME NEW market, NEW a, NEW b, a \subseteq b
      PROVE  Within(a, market) \subseteq Within(b, market)
  BY <1>1 DEF Within
<1>2. ASSUME NEW market
      PROVE  /\ Within(delivered, market) \subseteq Within(delivered, market)'
             /\ Within(returned, market) \subseteq Within(returned, market)'
             /\ approved \subseteq approved' =>
                   Within(approved, market) \subseteq Within(approved, market)'
             /\ FromCampaign(market) \subseteq FromCampaign(market)'
  BY ReportsAssumption DEF Within, FromCampaign
<1>3. ReportShape'
  BY DEF ReadInv, ReportShape
<1>4. report.kind = "readiness" => Making
  BY DEF Making
<1>5. ReadyInv'
  <2> SUFFICES ASSUME report.kind = "readiness" PROVE ReadyInv'
    BY DEF ReadyInv
  <2> DEFINE value == report.value
             market == report.market
  <2>1. value["delivered"] > 0 => Within(delivered, market)' # {}
    BY <1>2 DEF ReadInv, ReadyInv
  <2>2. value["returned"] > 0 => Within(returned, market)' # {}
    BY <1>2 DEF ReadInv, ReadyInv
  <2>3. value["approved"] > 0 => Within(approved, market)' # {} \/ revoked'
    <3>1. CASE approved \subseteq approved' /\ revoked' = revoked
      BY <1>2, <3>1 DEF ReadInv, ReadyInv
    <3>2. CASE revoked' = Making
      BY <1>4, <3>2
    <3> QED BY <3>1, <3>2
  <2>4. value["campaign"] > 0 => FromCampaign(market)' # {}
    BY <1>2 DEF ReadInv, ReadyInv
  <2> QED BY <2>1, <2>2, <2>3, <2>4 DEF ReadyInv
<1> QED BY <1>3, <1>5 DEF ReadInv

\* A SELECT reads what is there.
LEMMA SelectRead ==
    ASSUME ReadInv, NEW f \in Figures, Select(f)
    PROVE  ReadInv'
<1>1. /\ report'.kind = report.kind /\ report'.market = report.market
      /\ report'.asked = report.asked + 1
      /\ report'.value = [report.value EXCEPT
                            ![f] = Figure(f, report.market)]
      /\ report' = [kind |-> report'.kind, market |-> report'.market,
                    asked |-> report'.asked, value |-> report'.value]
  BY DEF Select, ReadInv, ReportShape
<1>2. UNCHANGED <<born, attributed, delivered, returned, approved, revoked>>
  BY DEF Select, callVars, saleVars
<1>3. ReportShape'
  BY <1>1 DEF ReadInv, ReportShape
<1>4. /\ report'.value[f] = Figure(f, report.market)
      /\ \A g \in Figures \ {f} : report'.value[g] = report.value[g]
  BY <1>1 DEF ReadInv, ReportShape
<1>5. ReadyInv'
  <2> SUFFICES ASSUME report.kind = "readiness" PROVE ReadyInv'
    BY <1>1 DEF ReadyInv
  <2> DEFINE market == report.market
  <2>1. report'.value["delivered"] > 0 => Within(delivered, market) # {}
    BY <1>4, Behind DEF Figure, Figures, ReadInv, ReadyInv
  <2>2. report'.value["returned"] > 0 => Within(returned, market) # {}
    BY <1>4, Behind DEF Figure, Figures, ReadInv, ReadyInv
  <2>3. report'.value["approved"] > 0 =>
           Within(approved, market) # {} \/ revoked
    BY <1>4, Behind DEF Figure, Figures, ReadInv, ReadyInv
  <2>4. report'.value["campaign"] > 0 => FromCampaign(market) # {}
    BY <1>4, Behind DEF Figure, Figures, ReadInv, ReadyInv
  <2> QED BY <1>1, <1>2, <2>1, <2>2, <2>3, <2>4
          DEF ReadyInv, Within, FromCampaign, Captured
<1> QED BY <1>3, <1>5 DEF ReadInv

\* A report begins, or is answered, without figures.
LEMMA BlankRead ==
    ASSUME NEW kind, NEW market,
           report' = Unread(kind, market)
    PROVE  ReadInv'
  BY DEF Unread, ReadInv, ReportShape, ReadyInv, Figures

LEMMA NextRead == FreshInv /\ ReadInv /\ [ReportsNext]_reportsVars => ReadInv'
<1> SUFFICES ASSUME FreshInv, ReadInv, [ReportsNext]_reportsVars PROVE ReadInv'
  OBVIOUS
<1>1. ASSUME NEW p \in Posts,
             Deliver(p) \/ FailDelivery(p) \/ Approve(p) \/ Overwrite(p)
      PROVE  ReadInv'
  <2>1. /\ report' = report
        /\ delivered \subseteq delivered' /\ returned \subseteq returned'
        /\ \/ approved \subseteq approved' /\ revoked' = revoked
           \/ revoked' = Making
        /\ born' = born
    BY <1>1 DEF Deliver, FailDelivery, Approve, Overwrite, callVars
  <2> QED BY <2>1, CommitsRead DEF Captured
<1>2. CASE TrackCalls
  <2>1. /\ report' = report /\ delivered' = delivered
        /\ returned' = returned /\ approved' = approved
        /\ revoked' = revoked
    BY <1>2 DEF TrackCalls, saleVars
  <2>2. \A l \in Leads : Captured(l) => Captured(l)'
    BY <1>2 DEF TrackCalls, CallNext, Capture, Redact, LookUp, UpsertCall,
                FailCall, Captured, FreshInv, CallTypeOK
  <2> QED BY <2>1, <2>2, CommitsRead
<1>3. ASSUME NEW kind \in Kinds, NEW market \in Markets \cup {Leads},
             Begin(kind, market)
      PROVE  ReadInv'
  BY <1>3, BlankRead DEF Begin
<1>4. ASSUME NEW f \in Figures, Select(f) PROVE ReadInv'
  BY <1>4, SelectRead
<1>5. CASE Answer
  <2>1. report' = Unread("none", {})
    BY <1>5 DEF Answer, Blank
  <2> QED BY <2>1, BlankRead
<1>6. CASE UNCHANGED reportsVars
  BY <1>6 DEF reportsVars, callVars, saleVars, ReadInv, ReportShape, ReadyInv,
              Within, FromCampaign, Captured
<1> QED BY <1>1, <1>2, <1>3, <1>4, <1>5, <1>6 DEF ReportsNext

\* The last SELECT of launch_readiness finds the others' evidence in place.
LEMMA LastSelect ==
    ASSUME ReadInv, ReportsNext, report.kind = "readiness", ~Complete,
           Complete', ReadyBy(report'.value)
    PROVE  Evidence(report.market)
<1>1. Making
  BY DEF Making
<1>2. PICK f \in Figures : Select(f)
  <2>1. ASSUME report' = report PROVE FALSE
    BY <2>1 DEF Complete, Making
  <2> QED BY <1>1, <2>1 DEF ReportsNext, Deliver, FailDelivery, Approve,
                            Overwrite, TrackCalls, Begin, Answer
<1>3. /\ report'.kind = "readiness" /\ report'.asked = report.asked + 1
      /\ report'.value = [report.value EXCEPT
                            ![f] = Figure(f, report.market)]
  BY <1>2 DEF Select, ReadInv, ReportShape
<1>4. Selects["readiness"]
        = <<"delivered", "returned", "approved", "campaign", "calls">>
  BY DEF Selects, ReadinessSelects
<1>5. report'.asked = 5
  BY <1>3, <1>4 DEF Complete
<1>6. f = "calls"
  <2>1. report.asked + 1 = 5
    BY <1>3, <1>5 DEF ReadInv, ReportShape
  <2> QED BY <1>2, <1>4, <2>1 DEF Select, Asking
<1>7. /\ report'.value["calls"] = Cardinality(CallsOf(report.market))
      /\ \A g \in Figures \ {"calls"} : report'.value[g] = report.value[g]
  BY <1>3, <1>6 DEF ReadInv, ReportShape, Figure, Figures
<1>8. CallsOf(report.market) # {}
  BY <1>7, Behind DEF ReadyBy
<1> QED BY <1>7, <1>8 DEF ReadyBy, Evidence, ReadInv, ReadyInv, Figures

\* launch_readiness calls a market ready only on evidence that is all there at
\* its last SELECT, whatever is committed between its SELECTs.
THEOREM ReadinessIsBacked == ReportsSpec => ReadyIsBacked
<1>1. FreshInv /\ ReadInv /\ [ReportsNext]_reportsVars
        => [report.kind = "readiness" /\ Complete' /\ ~Complete
              /\ ReadyBy(report'.value) => Evidence(report.market)]_reportsVars
  BY LastSelect
<1>2. ReportsSpec => []FreshInv
  BY InitFresh, NextFresh, PTL DEF ReportsSpec
<1>3. ReportsSpec => []ReadInv
  BY <1>2, InitRead, NextRead, PTL DEF ReportsSpec
<1> QED BY <1>1, <1>2, <1>3, PTL DEF ReportsSpec, ReadyIsBacked

-----------------------------------------------------------------------------
(* The figures, among themselves                                           *)

\* What the writers of sales, returns and credits leave behind: a credit and
\* the mark of its sale are one commit, and only delivered sales are returned.
SalesAgree ==
    /\ delivered \subseteq Posts
    /\ returned \subseteq delivered
    /\ approved \subseteq returned
    /\ credits \in [Posts -> Nat]
    /\ \A p \in Posts : p \in returned <=> credits[p] # 0

\* The report that is being made is of a known kind, and without a commit since
\* it began, what it has read is what there is.
ReadsAgree ==
    /\ ReportShape
    /\ report.kind \in Kinds \cup {"none"}
    /\ report.asked = 0 \/ report.asked <= Len(Selects[report.kind])
    /\ Making /\ ~dirty =>
          \A i \in 1 .. report.asked :
             LET f == Selects[report.kind][i]
             IN  report.value[f] = Figure(f, report.market)

\* Revenue only grows: what has been read of it is not above what there is.
GrossRead ==
    /\ report.value["gross"] \in Nat
    /\ report.value["gross"] <= Gross(report.market)

FiguresInv == SalesAgree /\ ReadsAgree /\ GrossRead

\* A report has between two and five SELECTs, each of a figure.
LEMMA SelectsAreFigures ==
    ASSUME NEW kind \in Kinds
    PROVE  /\ Len(Selects[kind]) \in 1 .. 5
           /\ \A i \in 1 .. Len(Selects[kind]) : Selects[kind][i] \in Figures
  BY DEF Kinds, Selects, KpisSelects, WorkflowSelects, DailySelects,
         ReadinessSelects, NormalSelects, Figures

\* A restriction of a finite set of sales is finite, and its bids add up to a
\* number that is not negative.
LEMMA RevenueIsTyped ==
    ASSUME NEW posts \in SUBSET Posts, NEW market
    PROVE  /\ IsFiniteSet(Within(posts, market))
           /\ Within(posts, market) \in SUBSET Posts
           /\ Revenue(Within(posts, market)) \in Nat
<1>. DEFINE S == Within(posts, market)
<1>1. S \in SUBSET Posts /\ IsFiniteSet(S)
  BY ReportsAssumption, FS_Subset DEF Within
<1>2. \A p \in S : Bid[p] \in Nat
  BY <1>1, ReportsAssumption
<1>. DEFINE zero == [p \in S |-> 0]
<1>3. SumFunctionOnSet(zero, S) = 0
  BY <1>1, SumZero
<1>4. SumFunctionOnSet(zero, S) <= SumFunctionOnSet(Bid, S)
  BY <1>1, <1>2, SumOrder
<1>5. SumFunctionOnSet(Bid, S) \in Int
  BY <1>1, <1>2, SumRemoves
<1> QED BY <1>1, <1>3, <1>4, <1>5 DEF Revenue

\* More sales have no less revenue.
LEMMA RevenueGrows ==
    ASSUME NEW a \in SUBSET Posts, NEW b \in SUBSET Posts, a \subseteq b,
           NEW market
    PROVE  Revenue(Within(a, market)) <= Revenue(Within(b, market))
<1>. DEFINE S == Within(a, market)
            T == Within(b \ a, market)
<1>1. /\ Within(b, market) = S \cup T /\ S \cap T = {}
  BY DEF Within
<1>2. /\ IsFiniteSet(S) /\ IsFiniteSet(T)
      /\ S \in SUBSET Posts /\ T \in SUBSET Posts
      /\ Revenue(S) \in Nat /\ Revenue(T) \in Nat
  BY RevenueIsTyped
<1>3. \A p \in S \cup T : Bid[p] \in Int
  <2>. HIDE DEF S, T
  <2>1. S \cup T \in SUBSET Posts /\ Nat \in SUBSET Int
    BY <1>2
  <2> QED BY <2>1, ReportsAssumption
<1>4. Revenue(S \cup T) = Revenue(S) + Revenue(T)
  <2>. HIDE DEF S, T
  <2>1. SumFunctionOnSet(Bid, S \cup T)
          = SumFunctionOnSet(Bid, S) + SumFunctionOnSet(Bid, T)
    BY <1>1, <1>2, <1>3, SumSplits
  <2> QED BY <2>1 DEF Revenue
<1>5. Revenue(Within(b, market)) = Revenue(S \cup T)
  BY <1>1, Zenon
<1>6. Revenue(S) <= Revenue(S) + Revenue(T)
  <2>. HIDE DEF S, T
  <2> QED BY <1>2
<1> QED BY <1>4, <1>5, <1>6, Zenon

LEMMA InitFigures == ReportsInit => FiguresInv
<1> SUFFICES ASSUME ReportsInit PROVE FiguresInv
  OBVIOUS
<1>1. SalesAgree
  BY DEF ReportsInit, SalesAgree
<1>2. ReadsAgree
  <2>1. ReportShape /\ report.kind = "none" /\ report.asked = 0
    BY InitRead DEF ReportsInit, ReadInv, Blank, Unread
  <2> QED BY <2>1 DEF ReadsAgree, Making
<1>3. report.value["gross"] = 0
  BY DEF ReportsInit, Blank, Unread, Figures
<1>4. Gross(report.market) \in Nat
  BY <1>1, RevenueIsTyped DEF Gross, SalesAgree
<1> QED BY <1>1, <1>2, <1>3, <1>4 DEF FiguresInv, GrossRead

\* A commit under a report makes it dirty and takes no revenue away.
LEMMA CommitsFigures ==
    ASSUME FiguresInv, Commits, report' = report, SalesAgree',
           delivered \subseteq delivered'
    PROVE  FiguresInv'
<1>1. ReadsAgree'
  BY DEF FiguresInv, ReadsAgree, ReportShape, Commits, Making
<1>2. GrossRead'
  <2>. DEFINE market == report.market
              before == Revenue(Within(delivered, market))
              after  == Revenue(Within(delivered', market))
  <2>1. before <= after
    BY RevenueGrows DEF FiguresInv, SalesAgree
  <2>2. before \in Nat /\ after \in Nat
    BY RevenueIsTyped DEF FiguresInv, SalesAgree
  <2>3. report.value["gross"] \in Nat /\ report.value["gross"] <= before
    BY DEF FiguresInv, GrossRead, Gross
  <2>4. report'.value["gross"] <= after
    <3>. HIDE DEF before, after
    <3> QED BY <2>1, <2>2, <2>3
  <2>5. report' = report /\ Gross(report.market)' = after
    BY DEF Gross, Within, Revenue
  <2>. HIDE DEF before, after
  <2> QED BY <2>3, <2>4, <2>5 DEF GrossRead
<1> QED BY <1>1, <1>2 DEF FiguresInv

\* A figure only changes with the rows.
LEMMA SameFigure ==
    ASSUME UNCHANGED <<callVars, saleVars>>, NEW f, NEW market
    PROVE  Figure(f, market)' = Figure(f, market)
<1>1. UNCHANGED <<born, attributed, delivered, failed, returned, credits,
                  approved>>
  BY DEF callVars, saleVars
<1> QED BY <1>1 DEF Figure, Gross, Net, Credited, Revenue, Within,
                    FromCampaign, CallsOf, Captured

\* A SELECT reads what there is, and no commit can come between.
LEMMA SelectFigures ==
    ASSUME FiguresInv, NEW f \in Figures, Select(f)
    PROVE  FiguresInv'
<1> PICK kind, market : kind = report.kind /\ market = report.market
  OBVIOUS
<1>1. /\ report'.kind = kind /\ report'.market = market
      /\ report'.asked = report.asked + 1
      /\ report'.value = [report.value EXCEPT ![f] = Figure(f, market)]
      /\ report' = [kind |-> report'.kind, market |-> report'.market,
                    asked |-> report'.asked, value |-> report'.value]
  BY DEF Select, FiguresInv, ReadsAgree, ReportShape
<1>2. /\ report'.value[f] = Figure(f, market)
      /\ \A g \in Figures \ {f} : report'.value[g] = report.value[g]
  BY <1>1 DEF FiguresInv, ReadsAgree, ReportShape
<1>3. UNCHANGED <<callVars, saleVars, dirty, delivered, returned, approved,
                  credits>>
  BY DEF Select, saleVars
<1>4. Making /\ ~Complete /\ f = Selects[kind][report.asked + 1]
  BY DEF Select, Asking
<1>5. /\ kind \in Kinds /\ report.asked \in Nat
      /\ report.asked + 1 <= Len(Selects[kind])
  <2>1. /\ kind \in Kinds /\ report.asked \in Nat
        /\ report.asked = 0 \/ report.asked <= Len(Selects[kind])
        /\ report.asked # Len(Selects[kind])
    BY <1>4 DEF FiguresInv, ReadsAgree, ReportShape, Making, Complete
  <2>2. Len(Selects[kind]) \in 1 .. 5
    BY <2>1, SelectsAreFigures
  <2> QED BY <2>1, <2>2
<1>6. ReadsAgree'
  <2>1. ReportShape'
    BY <1>1 DEF FiguresInv, ReadsAgree, ReportShape
  <2>2. ASSUME ~dirty, NEW i \in 1 .. report.asked + 1
        PROVE  report'.value[Selects[kind][i]]
                 = Figure(Selects[kind][i], market)'
    <3>. DEFINE g == Selects[kind][i]
    <3>1. Figure(g, market)' = Figure(g, market)
      BY <1>3, SameFigure
    <3>2. CASE g = f
      BY <1>2, <3>1, <3>2
    <3>3. CASE g # f
      <4>1. i \in 1 .. report.asked /\ i \in 1 .. Len(Selects[kind])
        BY <1>4, <1>5, <2>2, <3>3
      <4>2. g \in Figures \ {f}
        BY <1>5, <3>3, <4>1, SelectsAreFigures
      <4>3. report.value[g] = Figure(g, market)
        BY <1>4, <2>2, <4>1 DEF FiguresInv, ReadsAgree
      <4> QED BY <1>2, <3>1, <4>2, <4>3
    <3> QED BY <3>2, <3>3
  <2> QED BY <1>1, <1>3, <1>5, <2>1, <2>2 DEF ReadsAgree, Making
<1>7. SalesAgree'
  BY <1>3 DEF FiguresInv, SalesAgree
<1>8. GrossRead'
  <2>1. Gross(market)' = Gross(market) /\ Gross(market) \in Nat
    <3>1. Gross(market) \in Nat
      BY RevenueIsTyped DEF Gross, FiguresInv, SalesAgree
    <3> QED BY <1>3, <3>1 DEF Gross, Within, Revenue
  <2>2. CASE f = "gross"
    <3>1. report'.value["gross"] = Gross(market)
      BY <1>2, <2>2 DEF Figure
    <3> QED BY <1>1, <2>1, <3>1 DEF GrossRead
  <2>3. CASE f # "gross"
    <3>1. report'.value["gross"] = report.value["gross"]
      BY <1>2, <2>3 DEF Figures
    <3> QED BY <1>1, <2>1, <3>1 DEF GrossRead, FiguresInv
  <2> QED BY <2>2, <2>3
<1> QED BY <1>6, <1>7, <1>8 DEF FiguresInv

\* A report begins, or is answered, without figures.
LEMMA BlankFigures ==
    ASSUME FiguresInv, NEW kind \in Kinds \cup {"none"}, NEW market,
           report' = Unread(kind, market), UNCHANGED saleVars
    PROVE  FiguresInv'
<1>1. /\ report'.kind = kind /\ report'.asked = 0 /\ report'.market = market
      /\ report'.value["gross"] = 0
  BY DEF Unread, Figures
<1>2. ReportShape'
  BY BlankRead DEF ReadInv
<1>3. UNCHANGED <<delivered, returned, approved, credits>>
  BY DEF saleVars
<1>4. SalesAgree'
  BY <1>3 DEF FiguresInv, SalesAgree
<1>5. ReadsAgree'
  BY <1>1, <1>2 DEF ReadsAgree
<1>6. GrossRead'
  <2>1. Gross(market) \in Nat
    BY RevenueIsTyped DEF Gross, FiguresInv, SalesAgree
  <2>2. Gross(report.market)' = Gross(market)
    BY <1>1, <1>3 DEF Gross, Within, Revenue
  <2> QED BY <1>1, <2>1, <2>2 DEF GrossRead
<1> QED BY <1>4, <1>5, <1>6 DEF FiguresInv

LEMMA NextFigures == FiguresInv /\ [ReportsNext]_reportsVars => FiguresInv'
<1> SUFFICES ASSUME FiguresInv, [ReportsNext]_reportsVars PROVE FiguresInv'
  OBVIOUS
<1>1. ASSUME NEW p \in Posts,
             Deliver(p) \/ FailDelivery(p) \/ Approve(p) \/ Overwrite(p)
      PROVE  FiguresInv'
  <2>1. Commits /\ report' = report /\ delivered \subseteq delivered'
    BY <1>1 DEF Deliver, FailDelivery, Approve, Overwrite
  <2>2. SalesAgree'
    <3>1. CASE Approve(p)
      <4>1. /\ p \in delivered /\ delivered' = delivered
            /\ returned' = returned \cup {p}
            /\ approved' = approved \cup {p}
            /\ credits' = [credits EXCEPT ![p] = @ + 1]
        BY <3>1 DEF Approve
      <4>2. /\ credits' \in [Posts -> Nat] /\ credits'[p] # 0
            /\ \A q \in Posts \ {p} : credits'[q] = credits[q]
        BY <4>1 DEF FiguresInv, SalesAgree
      <4> QED BY <4>1, <4>2 DEF FiguresInv, SalesAgree
    <3>2. CASE Deliver(p) \/ FailDelivery(p) \/ Overwrite(p)
      BY <3>2 DEF Deliver, FailDelivery, Overwrite, FiguresInv, SalesAgree
    <3> QED BY <1>1, <3>1, <3>2
  <2> QED BY <2>1, <2>2, CommitsFigures
<1>2. CASE TrackCalls
  <2>1. /\ Commits /\ report' = report
        /\ UNCHANGED <<delivered, returned, approved, credits>>
    BY <1>2 DEF TrackCalls, saleVars
  <2> QED BY <2>1, CommitsFigures DEF FiguresInv, SalesAgree
<1>3. ASSUME NEW kind \in Kinds, NEW market \in Markets \cup {Leads},
             Begin(kind, market)
      PROVE  FiguresInv'
  BY <1>3, BlankFigures DEF Begin
<1>4. ASSUME NEW f \in Figures, Select(f) PROVE FiguresInv'
  BY <1>4, SelectFigures
<1>5. CASE Answer
  <2>1. report' = Unread("none", {}) /\ UNCHANGED saleVars
    BY <1>5 DEF Answer, Blank
  <2> QED BY <2>1, BlankFigures
<1>6. CASE UNCHANGED reportsVars
  <2>1. UNCHANGED <<callVars, saleVars, report, dirty>>
    BY <1>6 DEF reportsVars
  <2>2. UNCHANGED <<delivered, returned, approved, credits>>
    BY <2>1 DEF saleVars
  <2>3. \A f, market : Figure(f, market)' = Figure(f, market)
    BY <2>1, SameFigure
  <2>4. ReadsAgree'
    BY <2>1, <2>3 DEF FiguresInv, ReadsAgree, ReportShape, Making
  <2>5. GrossRead'
    BY <2>1, <2>2 DEF FiguresInv, GrossRead, Gross, Within, Revenue
  <2> QED BY <2>2, <2>4, <2>5 DEF FiguresInv, SalesAgree
<1> QED BY <1>1, <1>2, <1>3, <1>4, <1>5, <1>6 DEF ReportsNext

\* What is booked of a market's sales is a number.
LEMMA CreditedIsTyped ==
    ASSUME FiguresInv, NEW market
    PROVE  Credited(market) \in Int
<1>. DEFINE w == [p \in Posts |-> credits[p] * Bid[p]]
            S == Within(Posts, market)
<1>1. IsFiniteSet(S) /\ S \in SUBSET Posts
  BY RevenueIsTyped
<1>2. \A p \in Posts : credits[p] \in Nat /\ Bid[p] \in Nat
  BY ReportsAssumption DEF FiguresInv, SalesAgree
<1>3. \A m, n \in Nat : m * n \in Int
  OBVIOUS
<1>4. \A p \in S : w[p] \in Int
  BY <1>1, <1>2, <1>3
<1>5. SumFunctionOnSet(w, S) \in Int
  <2>. HIDE DEF w, S
  <2> QED BY <1>1, <1>4, SumRemoves
<1> QED BY <1>5 DEF Credited

\* In every report that has both, the credits are read after the revenue.
LEMMA CreditedIsLast ==
    ASSUME NEW kind \in Kinds, NEW n \in Nat, n + 1 <= Len(Selects[kind]),
           {"gross", "credited"} \subseteq {Selects[kind][i] : i \in 1 .. n + 1},
           ~({"gross", "credited"} \subseteq {Selects[kind][i] : i \in 1 .. n})
    PROVE  Selects[kind][n + 1] = "credited"
<1>1. PICK g \in 1 .. n + 1 : Selects[kind][g] = "gross"
  OBVIOUS
<1>2. PICK c \in 1 .. n + 1 : Selects[kind][c] = "credited"
  OBVIOUS
<1>3. g = n + 1 \/ c = n + 1
  BY <1>1, <1>2
<1>4. g \in 1 .. Len(Selects[kind]) /\ c \in 1 .. Len(Selects[kind])
  BY SelectsAreFigures
<1>5. g < c
  <2>1. CASE kind = "kpis"
    BY <1>1, <1>2, <1>4, <2>1 DEF Selects, KpisSelects
  <2>2. CASE kind = "workflow"
    BY <1>1, <1>2, <1>4, <2>2 DEF Selects, WorkflowSelects
  <2>3. CASE kind = "daily"
    BY <1>1, <1>2, <1>4, <2>3 DEF Selects, DailySelects
  <2>4. CASE kind = "readiness"
    BY <1>1, <1>2, <1>4, <2>4 DEF Selects, ReadinessSelects
  <2>5. CASE kind = "normal"
    BY <1>1, <1>2, <1>4, <2>5 DEF Selects, NormalSelects
  <2> QED BY <2>1, <2>2, <2>3, <2>4, <2>5 DEF Kinds
<1> QED BY <1>2, <1>3, <1>5

\* When both figures are there, the one that was read last is the credits, and
\* the revenue that was read before may only have grown.
LEMMA MarginStep ==
    ASSUME FiguresInv, ReportsNext, ~MarginIsKnown, MarginIsKnown'
    PROVE  Margin(report'.value["gross"], report'.value["credited"])
             <= Margin(Gross(report.market), Credited(report.market))
<1>1. report' # report
  BY DEF MarginIsKnown, Making
<1>2. report'.asked # 0
  <2>1. 1 .. 0 = {}
    OBVIOUS
  <2> QED BY <2>1 DEF MarginIsKnown
<1>3. PICK f \in Figures : Select(f)
  BY <1>1, <1>2 DEF ReportsNext, Deliver, FailDelivery, Approve, Overwrite,
                    TrackCalls, Begin, Answer, Blank, Unread
<1>4. /\ report'.kind = report.kind /\ report'.asked = report.asked + 1
      /\ report'.value = [report.value EXCEPT
                            ![f] = Figure(f, report.market)]
      /\ Making /\ ~Complete /\ f = Selects[report.kind][report.asked + 1]
  BY <1>3 DEF Select, Asking, FiguresInv, ReadsAgree, ReportShape
<1>5. report.kind \in Kinds /\ report.asked \in Nat
  BY <1>4 DEF FiguresInv, ReadsAgree, ReportShape, Making
<1>6. report.asked + 1 <= Len(Selects[report.kind])
  <2>1. /\ report.asked = 0 \/ report.asked <= Len(Selects[report.kind])
        /\ report.asked # Len(Selects[report.kind])
    BY <1>4 DEF FiguresInv, ReadsAgree, Complete
  <2> QED BY <1>5, <2>1, SelectsAreFigures
<1>7. f = "credited"
  <2>1. /\ {"gross", "credited"} \subseteq
             {Selects[report.kind][i] : i \in 1 .. report.asked + 1}
        /\ ~({"gross", "credited"} \subseteq
             {Selects[report.kind][i] : i \in 1 .. report.asked})
    BY <1>4 DEF MarginIsKnown, Making
  <2> QED BY <1>4, <1>5, <1>6, <2>1, CreditedIsLast
<1>8. /\ report'.value["credited"] = Credited(report.market)
      /\ report'.value["gross"] = report.value["gross"]
  BY <1>4, <1>7 DEF Figure, Figures, FiguresInv, ReadsAgree, ReportShape
<1>9. /\ report.value["gross"] \in Nat /\ Gross(report.market) \in Nat
      /\ report.value["gross"] <= Gross(report.market)
      /\ Credited(report.market) \in Int
  BY RevenueIsTyped, CreditedIsTyped
     DEF FiguresInv, GrossRead, SalesAgree, Gross
<1> QED BY <1>8, <1>9 DEF Margin

\* Whatever is committed between the SELECTs of a report, the margin it shows
\* is not above the one there is: a stop loss that is due is recommended.
THEOREM MarginIsNotOverstated == ReportsSpec => MarginNotOverstated
<1>1. FiguresInv /\ [ReportsNext]_reportsVars
        => [~MarginIsKnown /\ MarginIsKnown' =>
              Margin(report'.value["gross"], report'.value["credited"])
                <= Margin(Gross(report.market), Credited(report.market))]_reportsVars
  BY MarginStep
<1> QED BY <1>1, InitFigures, NextFigures, PTL
        DEF ReportsSpec, MarginNotOverstated

\* With at most one credit for a sale, the revenue of the sales that were not
\* returned is the revenue less the credits.
LEMMA NetIsMargin ==
    ASSUME FiguresInv, \A p \in Posts : credits[p] <= 1, NEW market
    PROVE  Net(market) = Margin(Gross(market), Credited(market))
<1>. DEFINE w    == [p \in Posts |-> credits[p] * Bid[p]]
            kept == Within(delivered \ returned, market)
            back == Within(returned, market)
            rest == Within(Posts \ returned, market)
<1>1. /\ delivered \in SUBSET Posts /\ returned \in SUBSET delivered
      /\ returned \in SUBSET Posts
      /\ \A p \in Posts : credits[p] \in Nat /\ Bid[p] \in Nat
      /\ \A p \in Posts : p \in returned <=> credits[p] # 0
  BY ReportsAssumption DEF FiguresInv, SalesAgree
<1>2. \A s \in {kept, back, rest} : IsFiniteSet(s) /\ s \in SUBSET Posts
  <2>1. /\ delivered \ returned \in SUBSET Posts
        /\ Posts \ returned \in SUBSET Posts
    BY <1>1
  <2> QED BY <1>1, <2>1, RevenueIsTyped
<1>3. /\ kept \cap back = {} /\ back \cap rest = {}
      /\ Within(delivered, market) = kept \cup back
      /\ Within(Posts, market) = back \cup rest
  BY <1>1 DEF Within
<1>4. \A p \in back : w[p] = Bid[p] /\ Bid[p] \in Int
  <2>1. \A p \in back : p \in Posts /\ p \in returned
    BY <1>1 DEF Within
  <2>2. \A p \in back : credits[p] = 1
    BY <1>1, <2>1
  <2>3. \A n \in Nat : 1 * n = n /\ n \in Int
    OBVIOUS
  <2> QED BY <1>1, <2>1, <2>2, <2>3
<1>5. \A p \in rest : w[p] = 0
  <2>1. \A p \in rest : p \in Posts /\ p \notin returned
    BY DEF Within
  <2>2. \A n \in Nat : 0 * n = 0
    OBVIOUS
  <2> QED BY <1>1, <2>1, <2>2
<1>6. \A p \in kept : Bid[p] \in Int
  BY <1>1, <1>2
<1>. HIDE DEF w, kept, back, rest
<1>7. SumFunctionOnSet(Bid, kept \cup back)
        = SumFunctionOnSet(Bid, kept) + SumFunctionOnSet(Bid, back)
  BY <1>2, <1>3, <1>4, <1>6, SumSplits
<1>8. SumFunctionOnSet(w, back \cup rest)
        = SumFunctionOnSet(w, back) + SumFunctionOnSet(w, rest)
  BY <1>2, <1>3, <1>4, <1>5, SumSplits
<1>9. SumFunctionOnSet(w, back) = SumFunctionOnSet(Bid, back)
  BY <1>2, <1>4, SumSame
<1>10. SumFunctionOnSet(w, rest) = 0
  BY <1>2, <1>5, SumZero
<1>11. SumFunctionOnSet(Bid, kept) \in Int /\ SumFunctionOnSet(Bid, back) \in Int
  BY <1>2, <1>4, <1>6, SumRemoves
<1>12. /\ Gross(market) = SumFunctionOnSet(Bid, kept \cup back)
       /\ Net(market) = SumFunctionOnSet(Bid, kept)
       /\ Credited(market) = SumFunctionOnSet(w, back \cup rest)
  BY <1>3, Zenon DEF Gross, Net, Credited, Revenue, kept, w
<1> QED BY <1>7, <1>8, <1>9, <1>10, <1>11, <1>12 DEF Margin

\* Fewer rows are not more.
LEMMA FewerRows ==
    ASSUME NEW a \in SUBSET Posts, NEW b \in SUBSET Posts, a \subseteq b,
           NEW market
    PROVE  Cardinality(Within(a, market)) <= Cardinality(Within(b, market))
<1>1. IsFiniteSet(Within(b, market))
  BY RevenueIsTyped
<1>2. Within(a, market) \subseteq Within(b, market)
  BY DEF Within
<1> QED BY <1>1, <1>2, FS_Subset

\* The figures of a report during which nothing was committed agree, whoever
\* wrote the rows and the ledger: what is left of the revenue is the margin if
\* no sale was credited twice, and returns and approvals are of sales.
THEOREM QuietReportsAgree == ReportsSpec => []FiguresAgree
<1>1. FiguresInv => FiguresAgree
  <2> SUFFICES ASSUME FiguresInv, Complete, ~dirty PROVE FiguresAgree
    BY DEF FiguresAgree
  <2>. DEFINE market == report.market
              v == report.value
              list == Selects[report.kind]
  <2>1. report.kind \in Kinds
    BY DEF FiguresInv, ReadsAgree, Complete, Making
  <2>2. \A i \in 1 .. Len(list) : v[list[i]] = Figure(list[i], market)
    BY DEF FiguresInv, ReadsAgree, Complete
  <2>3. report.kind = "kpis" =>
          /\ v["net"] = Net(market) /\ v["gross"] = Gross(market)
          /\ v["credited"] = Credited(market)
    BY <2>2 DEF Selects, KpisSelects, Figure
  <2>4. report.kind # "normal" =>
          /\ v["returned"] = Cardinality(Within(returned, market))
          /\ v["delivered"] = Cardinality(Within(delivered, market))
    <3>1. CASE report.kind = "kpis"
      BY <2>2, <3>1 DEF Selects, KpisSelects, Figure
    <3>2. CASE report.kind = "workflow"
      BY <2>2, <3>2 DEF Selects, WorkflowSelects, Figure
    <3>3. CASE report.kind = "daily"
      BY <2>2, <3>3 DEF Selects, DailySelects, Figure
    <3>4. CASE report.kind = "readiness"
      BY <2>2, <3>4 DEF Selects, ReadinessSelects, Figure
    <3> QED BY <2>1, <3>1, <3>2, <3>3, <3>4 DEF Kinds
  <2>5. report.kind = "readiness" =>
          v["approved"] = Cardinality(Within(approved, market))
    BY <2>2 DEF Selects, ReadinessSelects, Figure
  <2>6. /\ Cardinality(Within(returned, market))
             <= Cardinality(Within(delivered, market))
        /\ Cardinality(Within(approved, market))
             <= Cardinality(Within(returned, market))
    BY FewerRows DEF FiguresInv, SalesAgree
  <2> QED BY <2>3, <2>4, <2>5, <2>6, NetIsMargin DEF FiguresAgree
<1> QED BY <1>1, InitFigures, NextFigures, PTL DEF ReportsSpec

=============================================================================
