\* Two buyers, one zip, three calls of which two at once, two deliveries and one approved return.
SPECIFICATION RosterSpec
CONSTANTS
    Buyers = {b1, b2}
    Zips = {z1}
    Calls = {c1, c2}
    NoBuyer = NoBuyer
    Wanted = {"active", "suspended"}
    Tolerance = 2
    MaxCalls = 3
    MaxSales = 2
    MaxReturns = 1
    MaxFailures = 1
INVARIANTS
    ExclusiveUnlessUnchecked
    PausesAreJustified
PROPERTIES
    PausesActiveBuyers
SYMMETRY BuyersAndCalls
CHECK_DEADLOCK FALSE
