------------------------------ MODULE Reports ------------------------------
(***************************************************************************)
(* The operator's reports.  Each is one transaction of several SELECTs; at *)
(* READ COMMITTED every SELECT sees the commits made before it, so that    *)
(* the figures of a report may belong to different moments.                *)
(*                                                                         *)
(* What they report on is written by others: deliveries (module Auction),  *)
(* returns, of which an approval marks the sale and books the credit in    *)
(* one commit (module Returns), leads and calls (module CallTracking).     *)
(*                                                                         *)
(* Figures that stand alone (wallets, coverage, latencies) are left out.   *)
(***************************************************************************)
EXTENDS CallTracking, Sequences, Functions

CONSTANTS
    Posts,       \* delivery keys
    LeadOf,      \* LeadOf[p]: the lead that p sells
    Bid,         \* Bid[p]: its bid in cents
    Markets,     \* sets of leads: what a report may be restricted to
    Campaign,    \* leads with a campaign source
    MaxCredits   \* bound: credits booked, for all sales

ASSUME ReportsAssumption ==
    /\ IsFiniteSet(Posts)
    /\ LeadOf \in [Posts -> Leads]
    /\ Bid \in [Posts -> Nat]
    /\ Markets \subseteq (SUBSET Leads) \ {Leads}
    /\ Campaign \subseteq Leads

VARIABLES
    delivered,  \* post_results with delivered
    failed,     \* post_results without
    returned,   \* post_results marked as returned
    credits,    \* credits[p]: its lead.returned rows in billing_events
    approved,   \* post_results with an approved return request
    report,     \* the report that is being made
    dirty,      \* history: something was committed since the report began
    revoked     \* history: an approved request was overwritten since then

saleVars == <<delivered, failed, returned, credits, approved>>
reportsVars == <<callVars, saleVars, report, dirty, revoked>>

Kinds == {"kpis", "workflow", "daily", "readiness", "normal"}

\* The SELECTs of each report, in the order of the code.
KpisSelects == <<"delivered", "returned", "net", "gross", "credited">>
WorkflowSelects == <<"delivered", "returned">>
DailySelects == <<"delivered", "gross", "returned", "credited">>

\* Mutant of ReadinessSelects: the calls are read first.
ReadinessReversed ==
    <<"calls", "campaign", "approved", "returned", "delivered">>

ReadinessSelects ==
    <<"delivered", "returned", "approved", "campaign", "calls">>

\* Mutant of NormalSelects: the credits are read before the revenue.
NormalReversed == <<"credited", "gross", "delivered", "failed">>

NormalSelects == <<"gross", "credited", "delivered", "failed">>

Selects == [kpis      |-> KpisSelects,
            workflow  |-> WorkflowSelects,
            daily     |-> DailySelects,
            readiness |-> ReadinessSelects,
            normal    |-> NormalSelects]

Figures == {"delivered", "failed", "returned", "approved", "net", "gross",
            "credited", "campaign", "calls"}

Unread(kind, market) == [kind |-> kind, market |-> market, asked |-> 0,
                         value |-> [f \in Figures |-> 0]]

Blank == Unread("none", {})

ReportsInit ==
    /\ CallInit
    /\ delivered = {}
    /\ failed = {}
    /\ returned = {}
    /\ credits = [p \in Posts |-> 0]
    /\ approved = {}
    /\ report = Blank
    /\ dirty = FALSE
    /\ revoked = FALSE

-----------------------------------------------------------------------------
(* The figures, of a set of leads                                          *)

Within(posts, market) == {p \in posts : LeadOf[p] \in market}

Revenue(posts) == SumFunctionOnSet(Bid, posts)

Gross(market) == Revenue(Within(delivered, market))
Net(market) == Revenue(Within(delivered \ returned, market))
Credited(market) ==
    SumFunctionOnSet([p \in Posts |-> credits[p] * Bid[p]], Within(Posts, market))

FromCampaign(market) == {l \in Campaign \cap market : Captured(l)}
CallsOf(market) == {c \in Calls : attributed[c] \in market}

Figure(f, market) ==
    CASE f = "delivered" -> Cardinality(Within(delivered, market))
      [] f = "failed"    -> Cardinality(Within(failed, market))
      [] f = "returned"  -> Cardinality(Within(returned, market))
      [] f = "approved"  -> Cardinality(Within(approved, market))
      [] f = "gross"     -> Gross(market)
      [] f = "net"       -> Net(market)
      [] f = "credited"  -> Credited(market)
      [] f = "campaign"  -> Cardinality(FromCampaign(market))
      [] f = "calls"     -> Cardinality(CallsOf(market))

-----------------------------------------------------------------------------
(* What is committed meanwhile                                             *)

Making == report.kind # "none"
Commits == dirty' = Making

Deliver(p) ==
    /\ Captured(LeadOf[p])
    /\ p \notin delivered \cup failed
    /\ delivered' = delivered \cup {p}
    /\ Commits
    /\ UNCHANGED <<callVars, failed, returned, credits, approved, report,
                   revoked>>

FailDelivery(p) ==
    /\ Captured(LeadOf[p])
    /\ p \notin delivered \cup failed
    /\ failed' = failed \cup {p}
    /\ Commits
    /\ UNCHANGED <<callVars, delivered, returned, credits, approved, report,
                   revoked>>

Booked == SumFunctionOnSet(credits, Posts)

\* Mutant of Approve: the sale is not marked.
ApproveUnmarked(p) ==
    /\ p \in delivered
    /\ Booked < MaxCredits
    /\ credits' = [credits EXCEPT ![p] = @ + 1]
    /\ approved' = approved \cup {p}
    /\ Commits
    /\ UNCHANGED <<callVars, delivered, failed, returned, report, revoked>>

\* review_return_request approves.  Two overlapping approvals book two credits.
Approve(p) ==
    /\ p \in delivered
    /\ Booked < MaxCredits
    /\ returned' = returned \cup {p}
    /\ credits' = [credits EXCEPT ![p] = @ + 1]
    /\ approved' = approved \cup {p}
    /\ Commits
    /\ UNCHANGED <<callVars, delivered, failed, report, revoked>>

\* A review that overlaps the approval writes its own verdict over it.
Overwrite(p) ==
    /\ p \in approved
    /\ approved' = approved \ {p}
    /\ Commits
    /\ revoked' = Making
    /\ UNCHANGED <<callVars, delivered, failed, returned, credits, report>>

TrackCalls ==
    /\ CallNext
    /\ Commits
    /\ UNCHANGED <<saleVars, report, revoked>>

-----------------------------------------------------------------------------
(* A report                                                                *)

\* The reports that take no market (or buyer) are about all leads.
Begin(kind, market) ==
    /\ ~Making
    /\ market = Leads <=> kind \in {"kpis", "workflow"}
    /\ report' = Unread(kind, market)
    /\ dirty' = FALSE
    /\ revoked' = FALSE
    /\ UNCHANGED <<callVars, saleVars>>

Complete == Making /\ report.asked = Len(Selects[report.kind])

Asking(f) == Making /\ ~Complete /\ f = Selects[report.kind][report.asked + 1]

Select(f) ==
    /\ Asking(f)
    /\ report' = [report EXCEPT !.asked = @ + 1,
                                !.value[f] = Figure(f, report.market)]
    /\ UNCHANGED <<callVars, saleVars, dirty, revoked>>

Answer ==
    /\ Complete
    /\ report' = Blank
    /\ dirty' = FALSE
    /\ revoked' = FALSE
    /\ UNCHANGED <<callVars, saleVars>>

ReportsNext ==
    \/ \E p \in Posts :
         Deliver(p) \/ FailDelivery(p) \/ Approve(p) \/ Overwrite(p)
    \/ TrackCalls
    \/ \E kind \in Kinds, market \in Markets \cup {Leads} : Begin(kind, market)
    \/ \E f \in Figures : Select(f)
    \/ Answer

ReportsSpec == ReportsInit /\ [][ReportsNext]_reportsVars

-----------------------------------------------------------------------------

\* Every variable has its type.
ReportsTypeOK ==
    /\ CallTypeOK
    /\ delivered \subseteq Posts
    /\ failed \subseteq Posts
    /\ returned \subseteq Posts
    /\ credits \in [Posts -> Nat]
    /\ approved \subseteq Posts
    /\ report \in [kind : Kinds \cup {"none"}, market : SUBSET Leads,
                   asked : Nat, value : [Figures -> Nat]]
    /\ dirty \in BOOLEAN
    /\ revoked \in BOOLEAN

\* campaign_margin_cents, net_revenue_after_credits_cents
Margin(gross, credited) == gross - credited

MarginIsKnown ==
    /\ Making
    /\ {"gross", "credited"} \subseteq
         {Selects[report.kind][i] : i \in 1 .. report.asked}

\* Whatever is committed while it is made, a report never shows a margin above
\* the one there is when it has read both of its figures, so that a stop loss
\* that is due is recommended.
MarginNotOverstated ==
    [][~MarginIsKnown /\ MarginIsKnown' =>
         Margin(report'.value["gross"], report'.value["credited"])
            <= Margin(Gross(report.market), Credited(report.market))]_reportsVars

\* The checks of launch_readiness that rest on leads
ReadyBy(value) ==
    \A f \in {"delivered", "returned", "approved", "campaign", "calls"} :
        value[f] > 0

Evidence(market) ==
    /\ Within(delivered, market) # {}
    /\ Within(returned, market) # {}
    /\ Within(approved, market) # {} \/ revoked
    /\ FromCampaign(market) # {}
    /\ CallsOf(market) # {}

\* A market is reported ready only if all of the evidence is there when the
\* last of it is read, save a return request whose approval another review
\* has overwritten in the meantime.
ReadyIsBacked ==
    [][report.kind = "readiness" /\ Complete' /\ ~Complete
          /\ ReadyBy(report'.value) => Evidence(report.market)]_reportsVars

\* The figures of a report during which nothing was committed agree, whoever
\* wrote the rows and the ledger they are taken from: what is left of the
\* revenue is the margin, unless a sale was credited twice, and nothing is
\* returned or approved that was not delivered.
FiguresAgree ==
    Complete /\ ~dirty =>
        LET v == report.value
        IN  /\ report.kind = "kpis" /\ (\A p \in Posts : credits[p] <= 1) =>
                  v["net"] = Margin(v["gross"], v["credited"])
            /\ report.kind # "normal" => v["returned"] <= v["delivered"]
            /\ report.kind = "readiness" => v["approved"] <= v["returned"]

=============================================================================
