\* Two overlapping runs of one lead, two buyers.
SPECIFICATION AuctionSpec
CONSTANTS
    Buyers = {b1, b2}
    Leads = {l1}
    NoLead = NoLead
    Runs = {r1, r2}
    Requests = {}
    Cents = {1}
    Opening = {0, 1}
    Refused = {}
    DailyCap = 9
    MonthlyBudget = 9
    MaxAttempts = 1
    PingsMayOverrun = FALSE
    MaxStarts = 2
    MaxCrashes = 0
    MaxDeposited = 0
    Routing <- RoutingOfLeads
    Matches <- AllMatch
INVARIANTS
    OneSalePerLead
CHECK_DEADLOCK FALSE
