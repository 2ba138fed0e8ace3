\* Three forms of one phone, two of them from one page, three deliveries, two at a time.
SPECIFICATION IntakeSpec
CONSTANTS
    Phones = {p1}
    NoPhone = NoPhone
    Emails = {e1}
    NoEmail = NoEmail
    Pages = {g1, g2}
    Webhooks = {w1, w2, w3}
    Handlers = {h1, h2}
    MaxDeliveries = 3
    FirstWebhook = w1
    FirstPage = g1
    LastPage = g2
    ThePhone = p1
    TheEmail = e1
    FormOf <- FormsOfOnePhone
SYMMETRY Symmetry
INVARIANTS
    AnnouncedOnce
    AnnouncedUnlessDisturbed
    OneUnblockedLead
    SingleOptOutHonoured
CHECK_DEADLOCK FALSE
