---------------------------- MODULE CallTracking ----------------------------
(***************************************************************************)
(* Calls of homeowners, as the tracking provider announces them: a webhook *)
(* looks up the newest lead of the phone and upserts the row of the call.  *)
(* An announcement may be repeated, late, or handled while another one is. *)
(*                                                                         *)
(* Leads are captured meanwhile (module LeadIntake), and the retention job *)
(* replaces the phone of old ones.                                         *)
(***************************************************************************)
EXTENDS Integers, FiniteSets

CONSTANTS
    Leads,
    Phones,
    PhoneOf,        \* PhoneOf[l]: the phone that l is captured with
    Calls,          \* call ids
    CallPhone,      \* CallPhone[c]: the phone that called
    NoLead,
    NoRow,
    Handlers,       \* requests that may be under way at once
    MaxDeliveries   \* bound: announcements, of all calls

ASSUME CallAssumption ==
    /\ PhoneOf \in [Leads -> Phones]
    /\ CallPhone \in [Calls -> Phones]
    /\ {NoLead, NoRow} \cap Leads = {}
    /\ NoLead # NoRow

VARIABLES
    born,        \* born[l]: the rank of leads.created_at, 0 before the capture
    redacted,    \* leads whose phone the retention job has replaced
    attributed,  \* call_events.lead_id by call, NoRow while there is no row
    handler,     \* handler[h]: the announcement that h handles
    deliveries,  \* history: announcements so far
    known        \* history: known[c]: the newest lead of the phone when c was
                 \*   announced first, NoRow before that

callVars == <<born, redacted, attributed, handler, deliveries, known>>

IdleHandler == [pc |-> "idle", call |-> NoRow, lead |-> NoLead]

CallInit ==
    /\ born = [l \in Leads |-> 0]
    /\ redacted = {}
    /\ attributed = [c \in Calls |-> NoRow]
    /\ handler = [h \in Handlers |-> IdleHandler]
    /\ deliveries = 0
    /\ known = [c \in Calls |-> NoRow]

Captured(l) == born[l] > 0

LeadsOf(phone) ==
    {l \in Leads : Captured(l) /\ l \notin redacted /\ PhoneOf[l] = phone}

\* Mutant of Newest: no ORDER BY.
AnyLead(l, phone) ==
    IF LeadsOf(phone) = {} THEN l = NoLead ELSE l \in LeadsOf(phone)

\* ... ORDER BY created_at DESC LIMIT 1
Newest(l, phone) ==
    IF LeadsOf(phone) = {} THEN l = NoLead
    ELSE l \in LeadsOf(phone) /\ \A m \in LeadsOf(phone) : born[m] <= born[l]

-----------------------------------------------------------------------------

Capture(l) ==
    /\ ~Captured(l)
    /\ \E n \in 1 .. Cardinality(Leads) :
         /\ \A m \in Leads : born[m] < n
         /\ born' = [born EXCEPT ![l] = n]
    /\ UNCHANGED <<redacted, attributed, handler, deliveries, known>>

\* redact_expired_leads
Redact(l) ==
    /\ Captured(l)
    /\ redacted' = redacted \cup {l}
    /\ UNCHANGED <<born, attributed, handler, deliveries, known>>

\* The SELECT of ingest_call_event.
LookUp(h, c) ==
    /\ handler[h].pc = "idle"
    /\ deliveries < MaxDeliveries
    /\ deliveries' = deliveries + 1
    /\ \E l \in Leads \cup {NoLead} :
         /\ Newest(l, CallPhone[c])
         /\ handler' = [handler EXCEPT ![h] = [pc |-> "upsert", call |-> c,
                                               lead |-> l]]
         /\ known' = [known EXCEPT ![c] = IF @ = NoRow THEN l ELSE @]
    /\ UNCHANGED <<born, redacted, attributed>>

\* Its upsert, and the commit.
UpsertCall(h) ==
    /\ handler[h].pc = "upsert"
    /\ attributed' = [attributed EXCEPT ![handler[h].call] = handler[h].lead]
    /\ handler' = [handler EXCEPT ![h] = IdleHandler]
    /\ UNCHANGED <<born, redacted, deliveries, known>>

\* An error, which the provider is told: it may announce the call again.
FailCall(h) ==
    /\ handler[h].pc = "upsert"
    /\ handler' = [handler EXCEPT ![h] = IdleHandler]
    /\ UNCHANGED <<born, redacted, attributed, deliveries, known>>

CallNext ==
    \/ \E l \in Leads : Capture(l) \/ Redact(l)
    \/ \E h \in Handlers :
         \/ \E c \in Calls : LookUp(h, c)
         \/ UpsertCall(h)
         \/ FailCall(h)

-----------------------------------------------------------------------------

\* The variables of this module have their types.
CallTypeOK ==
    /\ born \in [Leads -> Nat]
    /\ redacted \subseteq Leads
    /\ attributed \in [Calls -> Leads \cup {NoLead, NoRow}]
    /\ handler \in [Handlers -> [pc : {"idle", "upsert"},
                                 call : Calls \cup {NoRow},
                                 lead : Leads \cup {NoLead}]]
    /\ deliveries \in Nat
    /\ known \in [Calls -> Leads \cup {NoLead, NoRow}]

AtLeast(l, m) == l \in Leads /\ born[l] >= born[m]

\* However often, late or interleaved a call is announced, it is attributed to
\* a lead at least as new as the newest one there was at the first announcement
\* (unless that lead has been redacted).
AttributionIsFresh ==
    \A c \in Calls :
        attributed[c] # NoRow /\ known[c] \in Leads \ redacted =>
            AtLeast(attributed[c], known[c])

=============================================================================
