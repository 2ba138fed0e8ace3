----------------------------- MODULE LeadIntake -----------------------------
(***************************************************************************)
(* The form-receiver: captured forms and opt-outs.                         *)
(*                                                                         *)
(* Formbricks delivers each finished form as a webhook and delivers it     *)
(* again until it sees a 2xx.  formbricks_webhook writes the lead in one   *)
(* transaction, the consent audit in a second one, and then pushes         *)
(* lead.captured; it may fail between any two of these.  Inside a          *)
(* transaction each SELECT sees what is committed at that moment, and only *)
(* unique indexes stop concurrent writers: a lead is unique by phone and   *)
(* page hash, an audit by webhook id, an opt-out by phone and by email.    *)
(*                                                                         *)
(* Deliveries that the signature, the size limit or the consent extraction *)
(* refuses change nothing and are left out.                                *)
(***************************************************************************)
EXTENDS Integers, FiniteSets

CONSTANTS
    Phones, NoPhone,
    Emails, NoEmail,
    Pages,           \* page hashes, the empty one included
    Webhooks,        \* webhook ids
    FormOf,          \* the consent that extract_consent finds in a webhook
    Handlers,        \* request slots
    MaxDeliveries    \* bound: webhook deliveries

Forms == [phone : Phones, email : Emails \cup {NoEmail}, page : Pages,
          short_dwell : BOOLEAN]

ASSUME IntakeAssumption ==
    /\ FormOf \in [Webhooks -> Forms]
    /\ NoPhone \notin Phones
    /\ NoEmail \notin Emails

\* What an opt-out names: SuppressionRequest requires one of the two.
Contacts == [phone : Phones \cup {NoPhone}, email : Emails \cup {NoEmail}]
                \ {[phone |-> NoPhone, email |-> NoEmail]}

VARIABLES
    leads,        \* leads by phone and page hash
    audits,       \* webhook ids of consent_audits
    suppressed,   \* suppression_entries
    announced,    \* announced[k]: lead.captured events pushed for lead k
    handler,      \* the requests in flight
    accepted,     \* webhooks answered with accepted or accepted-duplicate
    optedOut,     \* contacts whose opt-out was answered with "suppressed"
    disregarded,  \* history: <<w, c>> if w captured a lead although c, which
                  \*   names its contact, was opted out before w arrived
    disturbed,    \* history: leads whose handler failed before the push, or
                  \*   whose webhook was delivered twice at a time
    raced,        \* history: phones of which two forms were in flight, each
                  \*   past the duplicate check of the other
    deliveries    \* webhook deliveries so far

vars == <<leads, audits, suppressed, announced, handler, accepted, optedOut,
          disregarded, disturbed, raced, deliveries>>

LeadKeys == Phones \X Pages
NoLead   == [recent |-> FALSE]
Lead     == [recent : BOOLEAN, blocked : BOOLEAN, hold : BOOLEAN]
NoWork   == [pc |-> "idle"]

Delivery == [pc : {"suppression", "duplicate", "insert", "audit", "push"},
             webhook : Webhooks, known : SUBSET Contacts,
             duplicate : BOOLEAN, created : BOOLEAN]
OptOut   == [pc : {"entry"}, contact : Contacts]

At(h, pc)     == handler[h].pc = pc
Goto(h, pc)   == handler' = [handler EXCEPT ![h].pc = pc]
Finish(h)     == handler' = [handler EXCEPT ![h] = NoWork]
Delivering(h) == handler[h] # NoWork /\ ~At(h, "entry")

Form(h)  == FormOf[handler[h].webhook]
KeyOf(w) == <<FormOf[w].phone, FormOf[w].page>>
Key(h)   == KeyOf(handler[h].webhook)

\* The two contacts share a phone or an email address.
Matches(c, d) == \/ c.phone = d.phone /\ c.phone # NoPhone
                 \/ c.email = d.email /\ c.email # NoEmail

-----------------------------------------------------------------------------

\* initial_quality_score, in hundredths.
QualityScore(form, duplicate) ==
    LET score == 100 - (IF duplicate THEN 70 ELSE 0)
                     - (IF form.short_dwell THEN 25 ELSE 0)
                     - (IF form.email = NoEmail THEN 10 ELSE 0)
    IN  IF score < 0 THEN 0 ELSE score

NewLead(form, duplicate) ==
    [recent |-> TRUE, blocked |-> duplicate,
     hold |-> QualityScore(form, duplicate) < 60 \/ duplicate]

\* The leads of a phone created within the duplicate window.
RecentLeads(p) == {g \in Pages : leads[<<p, g>>].recent}

-----------------------------------------------------------------------------

IntakeInit ==
    /\ leads = [k \in LeadKeys |-> NoLead]
    /\ audits = {}
    /\ suppressed = {}
    /\ announced = [k \in LeadKeys |-> 0]
    /\ handler = [h \in Handlers |-> NoWork]
    /\ accepted = {}
    /\ optedOut = {}
    /\ disregarded = {}
    /\ disturbed = {}
    /\ raced = {}
    /\ deliveries = 0

\* A webhook arrives, for the first time or again.
Deliver(h, w) ==
    /\ handler[h] = NoWork
    /\ deliveries < MaxDeliveries
    /\ deliveries' = deliveries + 1
    /\ handler' = [handler EXCEPT ![h] =
           [pc |-> "suppression", webhook |-> w,
            known |-> {c \in optedOut : Matches(c, FormOf[w])},
            duplicate |-> FALSE, created |-> FALSE]]
    /\ disturbed' = IF \E o \in Handlers : Delivering(o) /\ handler[o].webhook = w
                    THEN disturbed \cup {KeyOf(w)} ELSE disturbed
    /\ UNCHANGED <<leads, audits, suppressed, announced, accepted, optedOut,
                   disregarded, raced>>

\* Mutant of CheckSuppression: only the email address is looked up.
CheckEmailOnly(h) ==
    /\ At(h, "suppression")
    /\ IF \E e \in suppressed : e.email = Form(h).email /\ e.email # NoEmail
       THEN Finish(h) ELSE Goto(h, "duplicate")
    /\ UNCHANGED <<leads, audits, suppressed, announced, accepted, optedOut,
                   disregarded, disturbed, raced, deliveries>>

\* upsert_lead: an opted-out contact is answered with "suppressed".
CheckSuppression(h) ==
    /\ At(h, "suppression")
    /\ IF \E e \in suppressed : Matches(e, Form(h))
       THEN Finish(h) ELSE Goto(h, "duplicate")
    /\ UNCHANGED <<leads, audits, suppressed, announced, accepted, optedOut,
                   disregarded, disturbed, raced, deliveries>>

CheckDuplicate(h) ==
    /\ At(h, "duplicate")
    /\ handler' = [handler EXCEPT ![h].pc = "insert",
                       ![h].duplicate = RecentLeads(Form(h).phone) # {}]
    /\ raced' = IF \E o \in Handlers \ {h} :
                     At(o, "insert") /\ Form(o).phone = Form(h).phone
                THEN raced \cup {Form(h).phone} ELSE raced
    /\ UNCHANGED <<leads, audits, suppressed, announced, accepted, optedOut,
                   disregarded, disturbed, deliveries>>

\* Mutant of InsertLead: the duplicate check does not block the lead.
InsertUnblocked(h) ==
    /\ At(h, "insert")
    /\ leads' = IF leads[Key(h)] = NoLead
                THEN [leads EXCEPT ![Key(h)] = NewLead(Form(h), FALSE)]
                ELSE leads
    /\ handler' = [handler EXCEPT ![h].pc = "audit",
                       ![h].created = leads[Key(h)] = NoLead]
    /\ disregarded' = IF leads[Key(h)] = NoLead
                      THEN disregarded \cup ({handler[h].webhook} \X handler[h].known)
                      ELSE disregarded
    /\ UNCHANGED <<audits, suppressed, announced, accepted, optedOut,
                   disturbed, raced, deliveries>>

\* The insert does nothing if the unique index finds the lead.
InsertLead(h) ==
    LET new == leads[Key(h)] = NoLead
    IN  /\ At(h, "insert")
        /\ handler' = [handler EXCEPT ![h].pc = "audit", ![h].created = new]
        /\ leads' = IF new
                    THEN [leads EXCEPT ![Key(h)] =
                             NewLead(Form(h), handler[h].duplicate)]
                    ELSE leads
        /\ disregarded' = IF new
                          THEN disregarded \cup
                                 ({handler[h].webhook} \X handler[h].known)
                          ELSE disregarded
        /\ UNCHANGED <<audits, suppressed, announced, accepted, optedOut,
                       disturbed, raced, deliveries>>

\* Mutant of RecordAudit: a new webhook is announced, whoever made the lead.
AnnounceNewWebhook(h) ==
    LET w == handler[h].webhook
    IN  /\ At(h, "audit")
        /\ audits' = audits \cup {w}
        /\ IF w \notin audits
           THEN Goto(h, "push") /\ UNCHANGED accepted
           ELSE Finish(h) /\ accepted' = accepted \cup {w}
        /\ UNCHANGED <<leads, suppressed, announced, optedOut, disregarded,
                       disturbed, raced, deliveries>>

\* Mutant of RecordAudit: the new lead is answered without being announced.
AcceptQuietly(h) ==
    /\ At(h, "audit")
    /\ audits' = audits \cup {handler[h].webhook}
    /\ Finish(h)
    /\ accepted' = accepted \cup {handler[h].webhook}
    /\ UNCHANGED <<leads, suppressed, announced, optedOut, disregarded,
                   disturbed, raced, deliveries>>

\* record_audit, in a transaction of its own.  Only a new lead of a new
\* webhook is announced; anything else is answered as a duplicate.
RecordAudit(h) ==
    LET w == handler[h].webhook
    IN  /\ At(h, "audit")
        /\ audits' = audits \cup {w}
        /\ IF w \notin audits /\ handler[h].created
           THEN Goto(h, "push") /\ UNCHANGED accepted
           ELSE Finish(h) /\ accepted' = accepted \cup {w}
        /\ UNCHANGED <<leads, suppressed, announced, optedOut, disregarded,
                       disturbed, raced, deliveries>>

PushCaptured(h) ==
    /\ At(h, "push")
    /\ announced' = [announced EXCEPT ![Key(h)] = @ + 1]
    /\ accepted' = accepted \cup {handler[h].webhook}
    /\ Finish(h)
    /\ UNCHANGED <<leads, audits, suppressed, optedOut, disregarded, disturbed,
                   raced, deliveries>>

\* The handler fails: the push (503), the database, or the process.
Fail(h) ==
    /\ handler[h] # NoWork
    /\ Finish(h)
    /\ disturbed' = IF Delivering(h) /\ handler[h].created
                    THEN disturbed \cup {Key(h)} ELSE disturbed
    /\ UNCHANGED <<leads, audits, suppressed, announced, accepted, optedOut,
                   disregarded, raced, deliveries>>

-----------------------------------------------------------------------------
(* record_suppression                                                      *)

\* An entry that shares the phone or the email address is enough to answer
\* "suppressed".  (An opt-out sent again finds its entry and changes nothing.)
FindEntry(h, c) ==
    /\ handler[h] = NoWork
    /\ c \notin optedOut
    /\ IF \E e \in suppressed : Matches(e, c)
       THEN optedOut' = optedOut \cup {c} /\ UNCHANGED handler
       ELSE /\ handler' = [handler EXCEPT ![h] = [pc |-> "entry", contact |-> c]]
            /\ UNCHANGED optedOut
    /\ UNCHANGED <<leads, audits, suppressed, announced, accepted, disregarded,
                   disturbed, raced, deliveries>>

\* The unique indexes refuse a second entry (then only Fail is left).
InsertEntry(h) ==
    LET c == handler[h].contact
    IN  /\ At(h, "entry")
        /\ ~\E e \in suppressed : Matches(e, c)
        /\ suppressed' = suppressed \cup {c}
        /\ optedOut' = optedOut \cup {c}
        /\ Finish(h)
        /\ UNCHANGED <<leads, audits, announced, accepted, disregarded,
                       disturbed, raced, deliveries>>

\* 72 hours pass since the lead was created.
Age(k) ==
    /\ leads[k].recent
    /\ leads' = [leads EXCEPT ![k].recent = FALSE]
    /\ UNCHANGED <<audits, suppressed, announced, handler, accepted, optedOut,
                   disregarded, disturbed, raced, deliveries>>

IntakeNext ==
    \/ \E h \in Handlers, w \in Webhooks : Deliver(h, w)
    \/ \E h \in Handlers :
          \/ CheckSuppression(h) \/ CheckDuplicate(h) \/ InsertLead(h)
          \/ RecordAudit(h) \/ PushCaptured(h) \/ InsertEntry(h) \/ Fail(h)
    \/ \E h \in Handlers, c \in Contacts : FindEntry(h, c)
    \/ \E k \in LeadKeys : Age(k)

IntakeSpec == IntakeInit /\ [][IntakeNext]_vars

-----------------------------------------------------------------------------

\* Every variable of the intake has its type.
IntakeTypeOK ==
    /\ leads \in [LeadKeys -> Lead \cup {NoLead}]
    /\ audits \subseteq Webhooks
    /\ suppressed \subseteq Contacts
    /\ announced \in [LeadKeys -> Nat]
    /\ handler \in [Handlers -> Delivery \cup OptOut \cup {NoWork}]
    /\ accepted \subseteq Webhooks
    /\ optedOut \subseteq Contacts
    /\ disregarded \subseteq Webhooks \X Contacts
    /\ disturbed \subseteq LeadKeys
    /\ raced \subseteq Phones

\* However often and in whatever overlap webhooks are delivered, cut off and
\* delivered again, lead.captured is pushed once at most for a lead: later
\* deliveries find the lead or the audit row.
AnnouncedOnce == \A k \in LeadKeys : announced[k] <= 1

Idle == \A h \in Handlers : handler[h] = NoWork

\* A form that was answered with "accepted" is on its way to the enrichment
\* worker, as the 503 of formbricks_webhook ("will retry") means it to be.
AcceptedIsAnnounced ==
    Idle => \A w \in accepted : announced[KeyOf(w)] > 0

\* The same, unless the handler that made the lead failed before its push or
\* two deliveries of one webhook overlapped (the one that makes the lead then
\* need not be the one that makes the audit row).
AnnouncedUnlessDisturbed ==
    Idle => \A w \in accepted : announced[KeyOf(w)] > 0 \/ KeyOf(w) \in disturbed

\* Of the leads a phone sends within the duplicate window one at most is not
\* blocked, unless two of its forms were checked before either was inserted.
OneUnblockedLead ==
    \A p \in Phones \ raced :
        Cardinality({g \in RecentLeads(p) : ~leads[<<p, g>>].blocked}) <= 1

\* The same for the opt-outs that name a phone or an email address, not both.
SingleOptOutHonoured ==
    \A d \in disregarded : d[2].phone # NoPhone /\ d[2].email # NoEmail

\* The entries of the suppression list are distinct in phone and in email.
\* An entry is found by either, so that no interleaving of opt-outs that miss
\* each other's row leaves two entries to one contact.
EntriesDistinct ==
    \A e, f \in suppressed : Matches(e, f) => e = f

=============================================================================
