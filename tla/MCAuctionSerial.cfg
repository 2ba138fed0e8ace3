\* One run at a time, two leads that may be auctioned and one that is rejected,
\* two buyers, with repeated triggers, a cut-off, retries, an operator and daily
\* caps of one lead.
SPECIFICATION AuctionSpec
CONSTANTS
    Buyers = {b1, b2}
    Leads = {l1, l2, l3}
    NoLead = NoLead
    Runs = {r1}
    Requests = {}
    Cents = {1}
    Opening = {0, 2}
    Refused = {l3}
    DailyCap = 1
    MonthlyBudget = 9
    MaxAttempts = 2
    PingsMayOverrun = TRUE
    MaxStarts = 2
    MaxCrashes = 1
    MaxDeposited = 0
    Routing <- RoutingOfLeads
    Matches <- AllMatch
SYMMETRY Symmetry
INVARIANTS
    OneSalePerLead
    DailyCapKept
CHECK_DEADLOCK FALSE
