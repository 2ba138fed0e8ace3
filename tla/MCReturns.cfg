\* Two operators or buyers at a time on one sale, up to two return requests.
SPECIFICATION ReturnsSpec
CONSTANTS
    Buyers = {b1}
    Runs = {r1}
    Requests = {q1, q2}
    Cents = {1}
    Opening = {0, 1}
    Sales = {s1, s2}
    RequestIds = {i1, i2}
    MaxDeposited = 2
    BuyerOf <- TheBuyer
    PriceOf <- OneCent
SYMMETRY Symmetry
INVARIANTS
    OneActiveRequest
    ApprovalsAgree
    ReturnsConsistent
    CreditedOnceAlone
PROPERTIES
    WalletRefined
    VerdictIsFinal
CHECK_DEADLOCK FALSE
