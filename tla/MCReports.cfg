\* Two leads of one phone, one call announced twice, two sales, two credits.
SPECIFICATION ReportsSpec
CONSTANTS
    lead1 = lead1
    lead2 = lead2
    post1 = post1
    post2 = post2
    phone = phone
    call = call
    Leads = {lead1, lead2}
    Phones = {phone}
    PhoneOf <- MCPhoneOf
    Calls = {call}
    CallPhone <- MCCallPhone
    NoLead = NoLead
    NoRow = NoRow
    Handlers = {h1, h2}
    MaxDeliveries = 2
    Posts = {post1, post2}
    LeadOf <- MCLeadOf
    Bid <- MCBid
    Markets <- MCMarkets
    Campaign = {lead1}
    MaxCredits = 2
INVARIANTS
    AttributionIsFresh
    FiguresAgree
PROPERTIES
    MarginNotOverstated
    ReadyIsBacked
SYMMETRY MCSymmetry
CHECK_DEADLOCK FALSE
