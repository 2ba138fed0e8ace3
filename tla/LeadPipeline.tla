---------------------------- MODULE LeadPipeline ----------------------------
(***************************************************************************)
(* The life of a lead as a chain of Hatchet tasks: enrich_lead,            *)
(* qualify_lead, run_auction and nurture_lead.  Each task is started by an *)
(* event and announces its result with the next one.  A task that fails is *)
(* run again from the top, a few times; an operator may replay any         *)
(* checkpoint at any time (scripts/replay_lead.py).  So two executions of  *)
(* any of the tasks may work on one lead at once, and nothing locks it.    *)
(*                                                                         *)
(* The tasks write the lead through the ORM: the row is read, the status   *)
(* is assigned, and the flush writes it if it differs from what was read.  *)
(* A read and the commit that follows are two actions.                     *)
(*                                                                         *)
(* The auction is here what module Auction shows of it: its recorded edges *)
(* and the status it leaves, without buyers or money.                      *)
(***************************************************************************)
EXTENDS Integers, FiniteSets

CONSTANTS
    Leads,
    Workers,      \* executions that may be under way at once
    NoLead,
    Retries,      \* Retries[e]: retries of the task that e starts
    MaxFailures,  \* bound: failed attempts, per lead
    MaxReplays    \* bound: replays, per lead

\* The events that start a task, without their prefix "lead.".
Events == {"captured", "enriched", "qualified", "unsold", "rejected"}

ASSUME PipelineAssumption ==
    /\ NoLead \notin Leads
    /\ Retries \in [Events -> Nat]
    /\ IsFiniteSet(Workers)   \* slots=4, slots=10

VARIABLES
    status,     \* leads.status
    timeline,   \* lead_state_transitions: the edges recorded (not the rows of
                \*   reviews, which repeat the latest state)
    pending,    \* pending[l][e]: undelivered events lead.<e> of l
    task,       \* task[w]: the execution w is busy with
    posted,     \* leads with a row in post_results
    contacts,   \* contacts[l]: outreach messages the homeowner was sent
    failures,   \* history: failed attempts at the tasks of l
    replays,    \* history: replays of l
    claimed,    \* history: the states named by replays of l, and by events
                \*   pushed before their commit
    lost        \* history: leads one of whose tasks ran out of retries

repeatVars == <<failures, replays, claimed, lost>>
leadVars == <<status, timeline, posted, contacts, repeatVars>>
vars == <<pending, task, leadVars>>

Statuses == {"new", "enriched", "qualified", "rejected", "sold", "unsold",
             "nurtured"}

PCs == {"idle", "load", "write", "push", "refuse", "mark", "outcome", "lose",
        "announce", "close", "contact", "done"}

IdleTask == [pc |-> "idle", lead |-> NoLead, event |-> "captured",
             seen |-> "new", verdict |-> "qualified", left |-> 0]

TaskRecord == [pc : PCs, lead : Leads \cup {NoLead}, event : Events,
               seen : Statuses, verdict : {"qualified", "rejected"},
               left : Nat]

\* The graph, with the timeline and the claims of this module.
Graph == INSTANCE LeadGraph WITH timeline <- timeline, claimed <- claimed

Reached(l) == Graph!Reached(l)

-----------------------------------------------------------------------------

PipelineInit ==
    /\ status = [l \in Leads |-> "new"]
    /\ timeline = [l \in Leads |-> {}]
    /\ pending = [l \in Leads |-> [e \in Events |-> 0]]
    /\ task = [w \in Workers |-> IdleTask]
    /\ posted = {}
    /\ contacts = [l \in Leads |-> 0]
    /\ failures = [l \in Leads |-> 0]
    /\ replays = [l \in Leads |-> 0]
    /\ claimed = [l \in Leads |-> {}]
    /\ lost = {}

At(w, pc) == task[w].pc = pc
Handles(w, events) == task[w].event \in events
Lead(w) == task[w].lead
Goto(w, pc) == task' = [task EXCEPT ![w].pc = pc]

\* A step that leaves the locals of the task behind.
Leave(w, pc) == task' = [task EXCEPT ![w].pc = pc, ![w].seen = "new",
                                     ![w].verdict = "qualified"]

\* record_transition: the row is inserted unless its key exists.
RecordTransition(l, from, to) ==
    timeline' = [timeline EXCEPT ![l] = @ \cup {<<from, to>>}]

Push(l, e) == pending' = [pending EXCEPT ![l][e] = @ + 1]

SetStatus(l, s) == status' = [status EXCEPT ![l] = s]

\* An ORM flush: an attribute equal to the one that was read is not written.
FlushStatus(w, s) ==
    status' = [status EXCEPT ![Lead(w)] = IF task[w].seen = s THEN @ ELSE s]

\* upsert_lead, and the push that follows it (module LeadIntake says when that
\* one is missing).
Capture(l) ==
    /\ timeline[l] = {}
    /\ RecordTransition(l, "start", "captured")
    /\ Push(l, "captured")
    /\ UNCHANGED <<status, task, posted, contacts, repeatVars>>

\* Hatchet starts the task that listens to the event.
Take(w, l, e) ==
    /\ At(w, "idle")
    /\ pending[l][e] > 0
    /\ pending' = [pending EXCEPT ![l][e] = @ - 1]
    /\ task' = [task EXCEPT ![w] = [IdleTask EXCEPT !.pc = "load", !.lead = l,
                                      !.event = e, !.left = Retries[e]]]
    /\ UNCHANGED leadVars

\* session.get(LeadRow, id) of the transaction that will write the row.  What
\* enrich_lead and qualify_lead do before it (fetch the page, geocode, look at
\* photos, ask the model) only decides what they will write.
LoadRow(w) ==
    /\ At(w, "load")
    /\ ~Handles(w, {"qualified"})
    /\ task' = [task EXCEPT ![w].pc = IF Handles(w, {"unsold", "rejected"})
                                      THEN "contact" ELSE "write",
                            ![w].seen = status[Lead(w)]]
    /\ UNCHANGED <<leadVars, pending>>

-----------------------------------------------------------------------------
(* enrich_lead and qualify_lead: commit, then announce.                    *)

\* Mutant of EnrichLead: the event is pushed before the row is written.
EnrichUnrecorded(w) ==
    /\ At(w, "write")
    /\ Handles(w, {"captured"})
    /\ FlushStatus(w, "enriched")
    /\ Leave(w, "push")
    /\ UNCHANGED <<timeline, pending, posted, contacts, repeatVars>>

EnrichLead(w) ==
    /\ At(w, "write")
    /\ Handles(w, {"captured"})
    /\ FlushStatus(w, "enriched")
    /\ RecordTransition(Lead(w), "captured", "enriched")
    /\ Leave(w, "push")
    /\ UNCHANGED <<pending, posted, contacts, repeatVars>>

\* The model, or the local simulation, may judge a retried lead differently.
QualifyLead(w) ==
    /\ At(w, "write")
    /\ Handles(w, {"enriched"})
    /\ \E verdict \in {"qualified", "rejected"} :
         /\ FlushStatus(w, verdict)
         /\ RecordTransition(Lead(w), "enriched", verdict)
         /\ task' = [task EXCEPT ![w].pc = "push", ![w].seen = "new",
                                 ![w].verdict = verdict]
    /\ UNCHANGED <<pending, posted, contacts, repeatVars>>

PushResult(w) ==
    /\ At(w, "push")
    /\ Push(Lead(w), IF Handles(w, {"captured"}) THEN "enriched"
                     ELSE task[w].verdict)
    /\ Leave(w, "done")
    /\ UNCHANGED leadVars

-----------------------------------------------------------------------------
(* run_auction.                                                            *)

\* The gate lets the lead through; one that was sold is not auctioned again.
EnterAuction(w) ==
    /\ At(w, "load")
    /\ Handles(w, {"qualified"})
    /\ Goto(w, IF "sold" \in Reached(Lead(w)) THEN "done" ELSE "mark")
    /\ UNCHANGED <<leadVars, pending>>

\* _persist_unauctionable_lead: too low a class or score, or held by a review.
HoldLead(w) ==
    /\ At(w, "load")
    /\ Handles(w, {"qualified"})
    /\ RecordTransition(Lead(w), "start", "qualified")
    /\ Goto(w, "done")
    /\ UNCHANGED <<status, pending, posted, contacts, repeatVars>>

\* The same, for a blocked or class d lead: the event leaves before the commit.
RefuseLead(w) ==
    /\ At(w, "load")
    /\ Handles(w, {"qualified"})
    /\ Push(Lead(w), "rejected")
    /\ claimed' = [claimed EXCEPT ![Lead(w)] = @ \cup {"rejected"}]
    /\ Goto(w, "refuse")
    /\ UNCHANGED <<status, timeline, posted, contacts, failures, replays,
                   lost>>

\* Mutant of CommitRefusal: the refusal is not recorded.
RefuseUnrecorded(w) ==
    /\ At(w, "refuse")
    /\ SetStatus(Lead(w), "rejected")
    /\ Goto(w, "done")
    /\ UNCHANGED <<timeline, pending, posted, contacts, repeatVars>>

CommitRefusal(w) ==
    /\ At(w, "refuse")
    /\ SetStatus(Lead(w), "rejected")
    /\ RecordTransition(Lead(w), "start", "rejected")
    /\ Goto(w, "done")
    /\ UNCHANGED <<pending, posted, contacts, repeatVars>>

RecordAuctioned(w) ==
    /\ At(w, "mark")
    /\ RecordTransition(Lead(w), "qualified", "auctioned")
    /\ Goto(w, "outcome")
    /\ UNCHANGED <<status, pending, posted, contacts, repeatVars>>

\* Mutant of SellLead: no return after the sale.
SellAndAnnounce(w) ==
    /\ At(w, "outcome")
    /\ SetStatus(Lead(w), "sold")
    /\ RecordTransition(Lead(w), "auctioned", "sold")
    /\ posted' = posted \cup {Lead(w)}
    /\ Goto(w, "announce")
    /\ UNCHANGED <<pending, contacts, repeatVars>>

SellLead(w) ==
    /\ At(w, "outcome")
    /\ SetStatus(Lead(w), "sold")
    /\ RecordTransition(Lead(w), "auctioned", "sold")
    /\ posted' = posted \cup {Lead(w)}
    /\ Goto(w, "done")
    /\ UNCHANGED <<pending, contacts, repeatVars>>

\* An earlier run used the delivery key: nothing is recorded.
SkipDelivery(w) ==
    /\ At(w, "outcome")
    /\ Lead(w) \in posted
    /\ Goto(w, "done")
    /\ UNCHANGED <<leadVars, pending>>

\* The winner did not take the lead: the event leaves before the commit.
FailDelivery(w) ==
    /\ At(w, "outcome")
    /\ Push(Lead(w), "unsold")
    /\ claimed' = [claimed EXCEPT ![Lead(w)] = @ \cup {"unsold"}]
    /\ Goto(w, "lose")
    /\ UNCHANGED <<status, timeline, posted, contacts, failures, replays,
                   lost>>

CommitFailure(w) ==
    /\ At(w, "lose")
    /\ SetStatus(Lead(w), "unsold")
    /\ RecordTransition(Lead(w), "auctioned", "unsold")
    /\ posted' = posted \cup {Lead(w)}
    /\ Goto(w, "done")
    /\ UNCHANGED <<pending, contacts, repeatVars>>

\* No buyer or no bid: commit, announce and, with eligible buyers, a status.
RecordUnsold(w) ==
    /\ At(w, "outcome")
    /\ RecordTransition(Lead(w), "auctioned", "unsold")
    /\ Goto(w, "announce")
    /\ UNCHANGED <<status, pending, posted, contacts, repeatVars>>

\* Mutant of AnnounceUnsold: the event is not pushed.
AnnounceNothing(w) ==
    /\ At(w, "announce")
    /\ \E pc \in {"close", "done"} : Goto(w, pc)
    /\ UNCHANGED <<leadVars, pending>>

AnnounceUnsold(w) ==
    /\ At(w, "announce")
    /\ Push(Lead(w), "unsold")
    /\ \E pc \in {"close", "done"} : Goto(w, pc)
    /\ UNCHANGED leadVars

\* Mutant of CloseUnsold: the lead is put back for another auction.
CloseForResale(w) ==
    /\ At(w, "close")
    /\ SetStatus(Lead(w), "qualified")
    /\ Goto(w, "done")
    /\ UNCHANGED <<timeline, pending, posted, contacts, repeatVars>>

CloseUnsold(w) ==
    /\ At(w, "close")
    /\ SetStatus(Lead(w), "unsold")
    /\ Goto(w, "done")
    /\ UNCHANGED <<timeline, pending, posted, contacts, repeatVars>>

-----------------------------------------------------------------------------
(* nurture_lead: the outreach is sent inside the transaction.              *)

\* Mutant of SendOutreach: a message that may have failed is sent again.
SendOutreachTwice(w) ==
    /\ At(w, "contact")
    /\ \E sent \in {0, 1, 2} :
         contacts' = [contacts EXCEPT ![Lead(w)] = @ + sent]
    /\ Goto(w, "write")
    /\ UNCHANGED <<status, timeline, pending, posted, repeatVars>>

\* _send_nurture_outreach never raises: it reports whether a message was sent.
SendOutreach(w) ==
    /\ At(w, "contact")
    /\ \E sent \in {0, 1} :
         contacts' = [contacts EXCEPT ![Lead(w)] = @ + sent]
    /\ Goto(w, "write")
    /\ UNCHANGED <<status, timeline, pending, posted, repeatVars>>

NurtureLead(w) ==
    /\ At(w, "write")
    /\ Handles(w, {"unsold", "rejected"})
    /\ FlushStatus(w, "nurtured")
    /\ RecordTransition(Lead(w), task[w].event, "nurtured")
    /\ Leave(w, "done")
    /\ UNCHANGED <<pending, posted, contacts, repeatVars>>

-----------------------------------------------------------------------------

\* The task has returned and Hatchet knows.
Finish(w) ==
    /\ At(w, "done")
    /\ task' = [task EXCEPT ![w] = IdleTask]
    /\ UNCHANGED <<leadVars, pending>>

\* A time-out, an exception or a lost worker, at any step: what was not
\* committed is rolled back, and the task starts again unless it has used up
\* its retries.
Fail(w) ==
    /\ ~At(w, "idle")
    /\ failures[Lead(w)] < MaxFailures
    /\ failures' = [failures EXCEPT ![Lead(w)] = @ + 1]
    /\ IF task[w].left > 0
       THEN /\ task' = [task EXCEPT ![w] = [IdleTask EXCEPT !.pc = "load",
                          !.lead = Lead(w), !.event = task[w].event,
                          !.left = task[w].left - 1]]
            /\ UNCHANGED lost
       ELSE /\ task' = [task EXCEPT ![w] = IdleTask]
            /\ lost' = lost \cup {Lead(w)}
    /\ UNCHANGED <<status, timeline, pending, posted, contacts, replays,
                   claimed>>

\* replay_lead: a checkpoint is the latest state or one the operator names;
\* auctioned, sold and nurtured are refused.  The event carries no
\* source_event, so that nurture_lead takes a replayed lead.rejected for
\* lead.unsold.  A replay from qualified also stands for POST /v1/auction.
Replay(l, checkpoint) ==
    LET event == IF checkpoint = "rejected" THEN "unsold" ELSE checkpoint
    IN  /\ timeline[l] # {}
        /\ replays[l] < MaxReplays
        /\ replays' = [replays EXCEPT ![l] = @ + 1]
        /\ Push(l, event)
        /\ claimed' = [claimed EXCEPT ![l] = @ \cup {event}]
        /\ UNCHANGED <<status, timeline, task, posted, contacts, failures,
                       lost>>

WorkerStep(w) ==
    \/ LoadRow(w) \/ EnrichLead(w) \/ QualifyLead(w) \/ PushResult(w)
    \/ EnterAuction(w) \/ HoldLead(w) \/ RefuseLead(w) \/ CommitRefusal(w)
    \/ RecordAuctioned(w) \/ SellLead(w) \/ SkipDelivery(w) \/ FailDelivery(w)
    \/ CommitFailure(w) \/ RecordUnsold(w) \/ AnnounceUnsold(w)
    \/ CloseUnsold(w) \/ SendOutreach(w) \/ NurtureLead(w) \/ Finish(w)

Deliver == \E w \in Workers, l \in Leads, e \in Events : Take(w, l, e)

PipelineNext ==
    \/ \E l \in Leads : Capture(l)
    \/ Deliver
    \/ \E w \in Workers : WorkerStep(w) \/ Fail(w)
    \/ \E l \in Leads, checkpoint \in Events : Replay(l, checkpoint)

PipelineSpec == PipelineInit /\ [][PipelineNext]_vars

\* Hatchet delivers events and keeps the tasks it started going; nobody has to
\* capture, replay or fail.
FairPipelineSpec ==
    /\ PipelineSpec
    /\ WF_vars(Deliver)
    /\ \A w \in Workers : WF_vars(WorkerStep(w))

-----------------------------------------------------------------------------

\* How often something was done again for l.
Repeats(l) == failures[l] + replays[l]

\* Every variable has its type.
PipelineTypeOK ==
    /\ status \in [Leads -> Statuses]
    /\ timeline \in [Leads -> SUBSET Graph!Edges]
    /\ pending \in [Leads -> [Events -> Nat]]
    /\ task \in [Workers -> TaskRecord]
    /\ posted \subseteq Leads
    /\ contacts \in [Leads -> Nat]
    /\ failures \in [Leads -> Nat]
    /\ replays \in [Leads -> Nat]
    /\ claimed \in [Leads -> SUBSET Events]
    /\ lost \subseteq Leads

\* However tasks are retried, replayed and overlapped, the timeline is a walk
\* of the pipeline graph: no task records an edge out of a state that neither
\* an earlier row nor a replay, nor an event sent ahead of its commit, named.
GraphRefined == Graph!GraphSpec

\* The status of a lead is always one its timeline has: no overlapping task,
\* stale read or late status write leaves a status without its audit row.
StatusIsRecorded ==
    \A l \in Leads : status[l] = "new" \/ status[l] \in Reached(l)

\* A lead that went through without a failure or a replay has one fate: it is
\* not both sold and nurtured, and a sold lead's owner is not contacted.
OneFate ==
    \A l \in Leads :
        Repeats(l) = 0 /\ "sold" \in Reached(l) =>
            /\ "nurtured" \notin Reached(l)
            /\ contacts[l] = 0

\* The outreach call is made inside a transaction that may be rolled back and
\* repeated: each failure or replay costs the owner at most one more message.
ContactsBounded == \A l \in Leads : contacts[l] <= 1 + Repeats(l)

Rank == [new |-> 0, enriched |-> 1, qualified |-> 2, rejected |-> 3,
         sold |-> 3, unsold |-> 3, nurtured |-> 4]

\* A status goes back only when something was repeated.  The exception: the
\* auction announces an unsold lead before it writes that status, and the
\* nurture task may have been faster.
StatusGoesForward ==
    [][\A l \in Leads :
         Rank[status'[l]] < Rank[status[l]] =>
            \/ Repeats(l) > 0
            \/ /\ status[l] = "nurtured"
               /\ status'[l] \in {"unsold", "rejected"}]_status

\* A captured lead gets somewhere: it is sold, nurtured or parked by the gate
\* of the auction, unless one of its tasks ran out of retries.  A parked lead
\* stays where it is, also when its review approves it.
CapturedLeadEnds ==
    \A l \in Leads :
        (timeline[l] # {}) ~> \/ Reached(l) \cap {"sold", "nurtured"} # {}
                              \/ <<"start", "qualified">> \in timeline[l]
                              \/ l \in lost

=============================================================================
