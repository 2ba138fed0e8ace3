\* Two overlapping runs of one lead compete for one wallet while an operator
\* deposits and pauses; safety, and progress of what no cut-off ended.
SPECIFICATION FairAuctionSpec
CONSTANTS
    Buyers = {b1}
    Leads = {l1}
    NoLead = NoLead
    Runs = {r1, r2}
    Requests = {q1}
    Cents = {1, 2}
    Opening = {0, 1, 2}
    Refused = {}
    DailyCap = 9
    MonthlyBudget = 9
    MaxAttempts = 1
    PingsMayOverrun = FALSE
    MaxStarts = 2
    MaxCrashes = 1
    MaxDeposited = 2
    Routing <- RoutingOfLeads
    Matches <- AllMatch
INVARIANTS
    NoOverdraft
    LedgerExplainsWallet
    ReservationsAccounted
    DeliveriesBilledOnce
    TimelineShowsSales
PROPERTIES
    WalletRefined
    ReservationsSettle
    UnsoldIsNurtured
CHECK_DEADLOCK FALSE
