\* One form, delivered twice.
SPECIFICATION IntakeSpec
CONSTANTS
    Phones = {p1}
    NoPhone = NoPhone
    Emails = {e1}
    NoEmail = NoEmail
    Pages = {g1}
    Webhooks = {w1}
    Handlers = {h1}
    MaxDeliveries = 2
    FirstWebhook = w1
    FirstPage = g1
    LastPage = g1
    ThePhone = p1
    TheEmail = e1
    FormOf <- FormsOfOnePhone
INVARIANTS
    AcceptedIsAnnounced
CHECK_DEADLOCK FALSE
