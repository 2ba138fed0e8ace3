------------------------ MODULE LeadPipeline_proofs ------------------------
(***************************************************************************)
(* The tasks of a lead implement the pipeline graph, for any number of     *)
(* leads, of overlapping executions, of failures and of replays; a status  *)
(* always has its row in the timeline, and goes back only after a repeat;  *)
(* what a lead may still become or send is bounded by what was granted it. *)
(***************************************************************************)
EXTENDS LeadPipeline, FiniteSetTheorems, TLAPS

\* The event of an execution on record t names a state of its lead.
Named(t) ==
    t.pc # "idle" => t.lead \in Leads /\ t.event \in Graph!Known(t.lead)

\* Its earlier steps have recorded what its next ones build on.
Staged(t) ==
    /\ t.pc \in {"mark", "refuse", "outcome", "lose", "announce", "close"} =>
         t.event = "qualified"
    /\ t.pc = "push" =>
         /\ t.event = "captured" => "enriched" \in Reached(t.lead)
         /\ t.event # "captured" => t.verdict \in Reached(t.lead)
    /\ t.pc \in {"outcome", "lose"} => "auctioned" \in Reached(t.lead)
    /\ t.pc \in {"announce", "close"} => "unsold" \in Reached(t.lead)
    /\ t.pc = "contact" => t.event \in {"unsold", "rejected"}

Grounded(t) == Named(t) /\ Staged(t)

TasksGrounded == \A w \in Workers : Grounded(task[w])

\* An event on its way names a state that was reached or claimed.
EventsGrounded ==
    \A l \in Leads, e \in Events : pending[l][e] > 0 => e \in Graph!Known(l)

\* The inductive invariant.
PipelineInv ==
    /\ PipelineTypeOK
    /\ TasksGrounded
    /\ EventsGrounded

\* A step forgets neither a row nor a claim.
Remembers ==
    \A l \in Leads : timeline[l] \subseteq timeline'[l]
                     /\ claimed[l] \subseteq claimed'[l]

-----------------------------------------------------------------------------
(* The graph.                                                              *)

LEMMA EdgesOfTheGraph ==
    /\ <<"start", "captured">> \in Graph!Edges
    /\ <<"start", "qualified">> \in Graph!Edges
    /\ <<"start", "rejected">> \in Graph!Edges
    /\ <<"captured", "enriched">> \in Graph!Edges
    /\ <<"enriched", "qualified">> \in Graph!Edges
    /\ <<"enriched", "rejected">> \in Graph!Edges
    /\ <<"qualified", "auctioned">> \in Graph!Edges
    /\ <<"auctioned", "sold">> \in Graph!Edges
    /\ <<"auctioned", "unsold">> \in Graph!Edges
    /\ <<"unsold", "nurtured">> \in Graph!Edges
    /\ <<"rejected", "nurtured">> \in Graph!Edges
BY DEF Graph!Edges, Graph!Allowed, Graph!Entries

\* What is recorded has been reached.
LEMMA RecordReaches ==
    ASSUME PipelineTypeOK, NEW l \in Leads, NEW from, NEW to,
           <<from, to>> \in Graph!Edges, RecordTransition(l, from, to)
    PROVE  /\ timeline' \in [Leads -> SUBSET Graph!Edges]
           /\ to \in Reached(l)'
           /\ \A k \in Leads : timeline[k] \subseteq timeline'[k]
<1>. DEFINE rows == timeline[l] \cup {<<from, to>>}
<1>1. timeline \in [Leads -> SUBSET Graph!Edges]
  BY DEF PipelineTypeOK
<1>2. timeline' = [timeline EXCEPT ![l] = rows]
  BY DEF RecordTransition
<1>3. rows \in SUBSET Graph!Edges
  BY <1>1
<1>4. timeline' \in [Leads -> SUBSET Graph!Edges]
  BY <1>1, <1>2, <1>3
<1>5. timeline'[l] = rows
      /\ \A k \in Leads : k # l => timeline'[k] = timeline[k]
  BY <1>1, <1>2
<1>6. <<from, to>> \in timeline'[l] /\ <<from, to>>[2] = to
  BY <1>5
<1>. QED  BY <1>4, <1>5, <1>6 DEF Reached, Graph!Reached

\* Nothing that was reached or known is forgotten.
LEMMA KnownGrows ==
    ASSUME Remembers, NEW l \in Leads
    PROVE  /\ Reached(l) \subseteq Reached(l)'
           /\ Graph!Known(l) \subseteq Graph!Known(l)'
BY DEF Remembers, Reached, Graph!Reached, Graph!Known

\* Replacing one task by a grounded one keeps all of them grounded.
LEMMA TaskReplaced ==
    ASSUME PipelineTypeOK, TasksGrounded, Remembers, NEW w \in Workers,
           NEW new \in TaskRecord, task' = [task EXCEPT ![w] = new],
           Grounded(new)'
    PROVE  task' \in [Workers -> TaskRecord] /\ TasksGrounded'
<1>1. task \in [Workers -> TaskRecord]
  BY DEF PipelineTypeOK
<1>2. task' \in [Workers -> TaskRecord]
  BY <1>1
<1>3. ASSUME NEW v \in Workers
      PROVE  Grounded(task[v])'
  <2>1. CASE v = w
    BY <1>1, <2>1
  <2>2. CASE v # w
    <3>1. Grounded(task[v])
      BY DEF TasksGrounded
    <3>2. task[v].pc # "idle" => task[v].lead \in Leads
      BY <3>1 DEF Grounded, Named
    <3>3. task'[v] = task[v]
      BY <1>1, <2>2
    <3>. HIDE DEF TasksGrounded
    <3>. DEFINE t == task[v]
    <3>4. Grounded(t) /\ (t.pc # "idle" => t.lead \in Leads)
      BY <3>1, <3>2
    <3>. QED  BY <3>3, <3>4, KnownGrows DEF Grounded, Named, Staged
  <2>. QED  BY <2>1, <2>2
<1>. QED  BY <1>2, <1>3 DEF TasksGrounded

LEMMA EventsStay ==
    ASSUME EventsGrounded, Remembers, UNCHANGED pending
    PROVE  EventsGrounded'
BY KnownGrows DEF EventsGrounded

\* A pushed event names a state that is known.
LEMMA PushGrounded ==
    ASSUME PipelineTypeOK, EventsGrounded, Remembers, NEW l \in Leads,
           NEW e \in Events, Push(l, e), e \in Graph!Known(l)'
    PROVE  pending' \in [Leads -> [Events -> Nat]] /\ EventsGrounded'
<1>1. pending \in [Leads -> [Events -> Nat]]
  BY DEF PipelineTypeOK
<1>2. pending' \in [Leads -> [Events -> Nat]]
  BY <1>1 DEF Push
<1>3. ASSUME NEW k \in Leads, NEW d \in Events, pending'[k][d] > 0
      PROVE  d \in Graph!Known(k)'
  <2>1. CASE k = l /\ d = e
    BY <2>1
  <2>2. CASE ~(k = l /\ d = e)
    <3>1. pending'[k][d] = pending[k][d]
      BY <1>1, <2>2 DEF Push
    <3>. QED  BY <1>3, <3>1, KnownGrows DEF EventsGrounded
  <2>. QED  BY <2>1, <2>2
<1>. QED  BY <1>2, <1>3 DEF EventsGrounded

\* A step of an execution: the task moves on, with its lead and its event.
LEMMA TaskAdvances ==
    ASSUME PipelineInv, Remembers, NEW w \in Workers, ~At(w, "idle"),
           NEW new \in TaskRecord, task' = [task EXCEPT ![w] = new],
           new.lead = Lead(w), new.event = task[w].event, Staged(new)'
    PROVE  task' \in [Workers -> TaskRecord] /\ TasksGrounded'
<1>1. PICK l \in Leads : l = Lead(w) /\ task[w].event \in Graph!Known(l)
  BY DEF PipelineInv, TasksGrounded, Grounded, Named, At, Lead
<1>2. new.event \in Graph!Known(l)'
  BY <1>1, KnownGrows
<1>3. Grounded(new)'
  BY <1>1, <1>2 DEF Grounded, Named
<1>. QED  BY <1>3, TaskReplaced DEF PipelineInv

-----------------------------------------------------------------------------
(* One lemma per kind of step.                                             *)

\* The locals of a busy execution, and the lead it works on.
LEMMA BusyTask ==
    ASSUME PipelineInv, NEW w \in Workers, ~At(w, "idle")
    PROVE  /\ task[w] \in TaskRecord
           /\ Staged(task[w])
           /\ Lead(w) \in Leads
           /\ task[w].event \in Graph!Known(Lead(w))
BY DEF PipelineInv, PipelineTypeOK, TasksGrounded, Grounded, Named, At, Lead

\* A step that records an edge and moves the task on.
LEMMA RecordingStep ==
    ASSUME PipelineInv, NEW w \in Workers, ~At(w, "idle"), NEW from, NEW to,
           <<from, to>> \in Graph!Edges,
           RecordTransition(Lead(w), from, to),
           NEW new \in TaskRecord, task' = [task EXCEPT ![w] = new],
           new.lead = Lead(w), new.event = task[w].event,
           to \in Reached(new.lead)' => Staged(new)',
           UNCHANGED <<pending, repeatVars>>,
           status' \in [Leads -> Statuses], contacts' \in [Leads -> Nat],
           posted' \subseteq Leads
    PROVE  PipelineInv'
<1>1. PICK l \in Leads : l = Lead(w)
  BY BusyTask
<1>2. /\ timeline' \in [Leads -> SUBSET Graph!Edges]
      /\ to \in Reached(l)'
      /\ \A k \in Leads : timeline[k] \subseteq timeline'[k]
  BY <1>1, RecordReaches DEF PipelineInv
<1>3. Remembers
  BY <1>2 DEF Remembers, repeatVars
<1>4. Staged(new)'
  BY <1>1, <1>2
<1>5. task' \in [Workers -> TaskRecord] /\ TasksGrounded'
  BY <1>3, <1>4, TaskAdvances
<1>6. EventsGrounded'
  BY <1>3, EventsStay DEF PipelineInv
<1>. QED  BY <1>2, <1>5, <1>6 DEF PipelineInv, PipelineTypeOK, repeatVars

\* A step that records nothing, pushes nothing and moves the task on.
LEMMA QuietStep ==
    ASSUME PipelineInv, NEW w \in Workers, ~At(w, "idle"),
           NEW new \in TaskRecord, task' = [task EXCEPT ![w] = new],
           new.lead = Lead(w), new.event = task[w].event, Staged(new)',
           UNCHANGED <<timeline, posted, pending, repeatVars>>,
           status' \in [Leads -> Statuses], contacts' \in [Leads -> Nat]
    PROVE  PipelineInv'
<1>1. Remembers
  BY DEF Remembers, repeatVars
<1>2. task' \in [Workers -> TaskRecord] /\ TasksGrounded'
  BY <1>1, TaskAdvances
<1>3. EventsGrounded'
  BY <1>1, EventsStay DEF PipelineInv
<1>. QED  BY <1>2, <1>3 DEF PipelineInv, PipelineTypeOK, repeatVars

\* A step that pushes an event, perhaps claiming the state it names, and moves
\* the task on.
LEMMA PushingStep ==
    ASSUME PipelineInv, NEW w \in Workers, ~At(w, "idle"),
           NEW e \in Events, Push(Lead(w), e),
           \/ e \in Reached(Lead(w)) /\ UNCHANGED claimed
           \/ claimed' = [claimed EXCEPT ![Lead(w)] = @ \cup {e}],
           NEW new \in TaskRecord, task' = [task EXCEPT ![w] = new],
           new.lead = Lead(w), new.event = task[w].event, Staged(new)',
           UNCHANGED <<status, timeline, posted, contacts, failures, replays,
                       lost>>
    PROVE  PipelineInv'
<1>1. PICK l \in Leads : l = Lead(w)
  BY BusyTask
<1>2. claimed \in [Leads -> SUBSET Events]
  BY DEF PipelineInv, PipelineTypeOK
<1>3. /\ claimed' \in [Leads -> SUBSET Events]
      /\ \A k \in Leads : claimed[k] \subseteq claimed'[k]
      /\ e \in Reached(l) \/ e \in claimed'[l]
  BY <1>1, <1>2
<1>4. Remembers
  BY <1>3 DEF Remembers
<1>5. e \in Graph!Known(l)'
  BY <1>3, <1>4, KnownGrows DEF Graph!Known, Reached, Graph!Reached
<1>6. task' \in [Workers -> TaskRecord] /\ TasksGrounded'
  BY <1>4, TaskAdvances
<1>7. pending' \in [Leads -> [Events -> Nat]] /\ EventsGrounded'
  BY <1>1, <1>4, <1>5, PushGrounded DEF PipelineInv
<1>. QED  BY <1>3, <1>6, <1>7 DEF PipelineInv, PipelineTypeOK

\* The steps of a task keep the invariant.
LEMMA WorkerStepInv ==
    ASSUME PipelineInv, NEW w \in Workers, WorkerStep(w)
    PROVE  PipelineInv'
<1>1. ~At(w, "idle")
  BY DEF WorkerStep, LoadRow, EnrichLead, QualifyLead, PushResult,
         EnterAuction, HoldLead, RefuseLead, CommitRefusal, RecordAuctioned,
         SellLead, SkipDelivery, FailDelivery, CommitFailure, RecordUnsold,
         AnnounceUnsold, CloseUnsold, SendOutreach, NurtureLead, Finish, At
<1>2. /\ status \in [Leads -> Statuses] /\ contacts \in [Leads -> Nat]
      /\ posted \subseteq Leads /\ task \in [Workers -> TaskRecord]
  BY DEF PipelineInv, PipelineTypeOK
<1>3. /\ task[w] \in TaskRecord /\ Staged(task[w]) /\ Lead(w) \in Leads
      /\ task[w].event \in Graph!Known(Lead(w))
  BY <1>1, BusyTask
<1>4. CASE LoadRow(w)
  <2>1. PICK new \in TaskRecord : new = [task[w] EXCEPT
                          !.pc = IF Handles(w, {"unsold", "rejected"})
                                 THEN "contact" ELSE "write",
                          !.seen = status[Lead(w)]]
    BY <1>2, <1>3, <1>4 DEF LoadRow, TaskRecord, PCs, Lead
  <2>2. /\ task' = [task EXCEPT ![w] = new]
        /\ new.lead = Lead(w) /\ new.event = task[w].event
    BY <1>2, <1>3, <1>4, <2>1 DEF LoadRow, TaskRecord, Lead
  <2>3. Staged(new)'
    BY <1>3, <1>4, <2>1
       DEF LoadRow, Staged, At, Handles, Reached, Graph!Reached, Lead,
           TaskRecord, leadVars
  <2>. QED
    BY <1>1, <1>2, <1>3, <1>4, <2>1, <2>2, <2>3, QuietStep
       DEF LoadRow, leadVars
<1>5. CASE EnterAuction(w)
  <2>1. PICK new \in TaskRecord : new = [task[w] EXCEPT
                          !.pc = IF "sold" \in Reached(Lead(w))
                                 THEN "done" ELSE "mark"]
    BY <1>2, <1>3, <1>5 DEF EnterAuction, TaskRecord, PCs, Lead
  <2>2. /\ task' = [task EXCEPT ![w] = new]
        /\ new.lead = Lead(w) /\ new.event = task[w].event
    BY <1>2, <1>3, <1>5, <2>1 DEF EnterAuction, Goto, TaskRecord, Lead
  <2>3. Staged(new)'
    BY <1>3, <1>5, <2>1
       DEF EnterAuction, Staged, At, Handles, Reached, Graph!Reached, Lead,
           TaskRecord, leadVars
  <2>. QED
    BY <1>1, <1>2, <1>3, <1>5, <2>1, <2>2, <2>3, QuietStep
       DEF EnterAuction, leadVars
<1>6. CASE SkipDelivery(w)
  <2>1. PICK new \in TaskRecord : new = [task[w] EXCEPT !.pc = "done"]
    BY <1>2, <1>3, <1>6 DEF SkipDelivery, TaskRecord, PCs, Lead
  <2>2. /\ task' = [task EXCEPT ![w] = new]
        /\ new.lead = Lead(w) /\ new.event = task[w].event
    BY <1>2, <1>3, <1>6, <2>1 DEF SkipDelivery, Goto, TaskRecord, Lead
  <2>3. Staged(new)'
    BY <1>3, <1>6, <2>1
       DEF SkipDelivery, Staged, At, Handles, Reached, Graph!Reached, Lead,
           TaskRecord, leadVars
  <2>. QED
    BY <1>1, <1>2, <1>3, <1>6, <2>1, <2>2, <2>3, QuietStep
       DEF SkipDelivery, leadVars
<1>7. CASE CloseUnsold(w)
  <2>1. PICK new \in TaskRecord : new = [task[w] EXCEPT !.pc = "done"]
    BY <1>2, <1>3, <1>7 DEF CloseUnsold, TaskRecord, PCs, Lead
  <2>2. /\ task' = [task EXCEPT ![w] = new]
        /\ new.lead = Lead(w) /\ new.event = task[w].event
    BY <1>2, <1>3, <1>7, <2>1 DEF CloseUnsold, Goto, TaskRecord, Lead
  <2>3. Staged(new)'
    BY <1>3, <1>7, <2>1
       DEF CloseUnsold, Staged, At, Handles, Reached, Graph!Reached, Lead,
           TaskRecord
  <2>4. status' \in [Leads -> Statuses] /\ contacts' \in [Leads -> Nat]
    BY <1>2, <1>3, <1>7 DEF CloseUnsold, SetStatus, Statuses
  <2>. QED
    BY <1>1, <1>2, <1>3, <1>7, <2>1, <2>2, <2>3, QuietStep, <2>4
       DEF CloseUnsold
<1>8. CASE SendOutreach(w)
  <2>1. PICK new \in TaskRecord : new = [task[w] EXCEPT !.pc = "write"]
    BY <1>2, <1>3, <1>8 DEF SendOutreach, TaskRecord, PCs, Lead
  <2>2. /\ task' = [task EXCEPT ![w] = new]
        /\ new.lead = Lead(w) /\ new.event = task[w].event
    BY <1>2, <1>3, <1>8, <2>1 DEF SendOutreach, Goto, TaskRecord, Lead
  <2>3. Staged(new)'
    BY <1>3, <1>8, <2>1
       DEF SendOutreach, Staged, At, Handles, Reached, Graph!Reached, Lead,
           TaskRecord, leadVars
  <2>4. status' \in [Leads -> Statuses] /\ contacts' \in [Leads -> Nat]
    BY <1>2, <1>3, <1>8 DEF SendOutreach, Statuses
  <2>. QED
    BY <1>1, <1>2, <1>3, <1>8, <2>1, <2>2, <2>3, QuietStep, <2>4
       DEF SendOutreach
<1>9. CASE EnrichLead(w)
  <2>1. PICK new \in TaskRecord :
          new = [task[w] EXCEPT !.pc = "push", !.seen = "new",
                             !.verdict = "qualified"]
    BY <1>2, <1>3, <1>9 DEF EnrichLead, TaskRecord, PCs, Lead, Statuses
  <2>2. /\ task' = [task EXCEPT ![w] = new]
        /\ new.lead = Lead(w) /\ new.event = task[w].event
    BY <1>2, <1>3, <1>9, <2>1 DEF EnrichLead, Leave, TaskRecord, Lead
  <2>3. "enriched" \in Reached(new.lead)' => Staged(new)'
    BY <1>3, <1>9, <2>1 DEF EnrichLead, Staged, At, Handles, TaskRecord
  <2>4. status' \in [Leads -> Statuses] /\ contacts' \in [Leads -> Nat]
    BY <1>2, <1>3, <1>9 DEF EnrichLead, FlushStatus, Statuses
  <2>. QED
    BY <1>1, <1>2, <1>3, <1>9, <2>1, <2>2, <2>3, RecordingStep, <2>4,
       EdgesOfTheGraph
       DEF EnrichLead
<1>10. CASE QualifyLead(w)
  <2>0. PICK verdict \in {"qualified", "rejected"} :
          /\ FlushStatus(w, verdict)
          /\ RecordTransition(Lead(w), "enriched", verdict)
          /\ task' = [task EXCEPT ![w].pc = "push", ![w].seen = "new",
                                 ![w].verdict = verdict]
    BY <1>10 DEF QualifyLead
  <2>1. PICK new \in TaskRecord :
          new = [task[w] EXCEPT !.pc = "push", !.seen = "new",
                             !.verdict = verdict]
    BY <2>0, <1>2, <1>3, <1>10 DEF QualifyLead, TaskRecord, PCs, Lead, Statuses
  <2>2. /\ task' = [task EXCEPT ![w] = new]
        /\ new.lead = Lead(w) /\ new.event = task[w].event
    BY <2>0, <1>2, <1>3, <1>10, <2>1 DEF QualifyLead, TaskRecord, Lead
  <2>3. verdict \in Reached(new.lead)' => Staged(new)'
    BY <2>0, <1>3, <1>10, <2>1 DEF QualifyLead, Staged, At, Handles, TaskRecord
  <2>4. status' \in [Leads -> Statuses] /\ contacts' \in [Leads -> Nat]
    BY <2>0, <1>2, <1>3, <1>10 DEF QualifyLead, FlushStatus, Statuses
  <2>. QED
    <3>1. <<"enriched", verdict>> \in Graph!Edges
      BY EdgesOfTheGraph
    <3>2. UNCHANGED <<pending, repeatVars>> /\ posted' \subseteq Leads
      BY <1>2, <1>10 DEF QualifyLead
    <3>3. RecordTransition(Lead(w), "enriched", verdict)
      BY <2>0
    <3>. HIDE DEF QualifyLead
    <3>. QED
      BY <1>1, <2>1, <2>2, <2>3, <2>4, <3>1, <3>2, <3>3, RecordingStep, Zenon
<1>11. CASE HoldLead(w)
  <2>1. PICK new \in TaskRecord : new = [task[w] EXCEPT !.pc = "done"]
    BY <1>2, <1>3, <1>11 DEF HoldLead, TaskRecord, PCs, Lead
  <2>2. /\ task' = [task EXCEPT ![w] = new]
        /\ new.lead = Lead(w) /\ new.event = task[w].event
    BY <1>2, <1>3, <1>11, <2>1 DEF HoldLead, Goto, TaskRecord, Lead
  <2>3. "qualified" \in Reached(new.lead)' => Staged(new)'
    BY <1>3, <1>11, <2>1 DEF HoldLead, Staged, At, Handles, TaskRecord
  <2>. QED
    BY <1>1, <1>2, <1>3, <1>11, <2>1, <2>2, <2>3, RecordingStep,
       EdgesOfTheGraph
       DEF HoldLead
<1>12. CASE CommitRefusal(w)
  <2>1. PICK new \in TaskRecord : new = [task[w] EXCEPT !.pc = "done"]
    BY <1>2, <1>3, <1>12 DEF CommitRefusal, TaskRecord, PCs, Lead
  <2>2. /\ task' = [task EXCEPT ![w] = new]
        /\ new.lead = Lead(w) /\ new.event = task[w].event
    BY <1>2, <1>3, <1>12, <2>1 DEF CommitRefusal, Goto, TaskRecord, Lead
  <2>3. "rejected" \in Reached(new.lead)' => Staged(new)'
    BY <1>3, <1>12, <2>1 DEF CommitRefusal, Staged, At, Handles, TaskRecord
  <2>4. status' \in [Leads -> Statuses] /\ contacts' \in [Leads -> Nat]
    BY <1>2, <1>3, <1>12 DEF CommitRefusal, SetStatus, Statuses
  <2>. QED
    BY <1>1, <1>2, <1>3, <1>12, <2>1, <2>2, <2>3, RecordingStep, <2>4,
       EdgesOfTheGraph
       DEF CommitRefusal
<1>13. CASE RecordAuctioned(w)
  <2>1. PICK new \in TaskRecord : new = [task[w] EXCEPT !.pc = "outcome"]
    BY <1>2, <1>3, <1>13 DEF RecordAuctioned, TaskRecord, PCs, Lead
  <2>2. /\ task' = [task EXCEPT ![w] = new]
        /\ new.lead = Lead(w) /\ new.event = task[w].event
    BY <1>2, <1>3, <1>13, <2>1 DEF RecordAuctioned, Goto, TaskRecord, Lead
  <2>3. "auctioned" \in Reached(new.lead)' => Staged(new)'
    BY <1>3, <1>13, <2>1 DEF RecordAuctioned, Staged, At, Handles, TaskRecord
  <2>. QED
    BY <1>1, <1>2, <1>3, <1>13, <2>1, <2>2, <2>3, RecordingStep,
       EdgesOfTheGraph
       DEF RecordAuctioned
<1>14. CASE SellLead(w)
  <2>1. PICK new \in TaskRecord : new = [task[w] EXCEPT !.pc = "done"]
    BY <1>2, <1>3, <1>14 DEF SellLead, TaskRecord, PCs, Lead
  <2>2. /\ task' = [task EXCEPT ![w] = new]
        /\ new.lead = Lead(w) /\ new.event = task[w].event
    BY <1>2, <1>3, <1>14, <2>1 DEF SellLead, Goto, TaskRecord, Lead
  <2>3. "sold" \in Reached(new.lead)' => Staged(new)'
    BY <1>3, <1>14, <2>1 DEF SellLead, Staged, At, Handles, TaskRecord
  <2>4. status' \in [Leads -> Statuses] /\ contacts' \in [Leads -> Nat]
    BY <1>2, <1>3, <1>14 DEF SellLead, SetStatus, Statuses
  <2>. QED
    BY <1>1, <1>2, <1>3, <1>14, <2>1, <2>2, <2>3, RecordingStep, <2>4,
       EdgesOfTheGraph
       DEF SellLead
<1>15. CASE CommitFailure(w)
  <2>1. PICK new \in TaskRecord : new = [task[w] EXCEPT !.pc = "done"]
    BY <1>2, <1>3, <1>15 DEF CommitFailure, TaskRecord, PCs, Lead
  <2>2. /\ task' = [task EXCEPT ![w] = new]
        /\ new.lead = Lead(w) /\ new.event = task[w].event
    BY <1>2, <1>3, <1>15, <2>1 DEF CommitFailure, Goto, TaskRecord, Lead
  <2>3. "unsold" \in Reached(new.lead)' => Staged(new)'
    BY <1>3, <1>15, <2>1 DEF CommitFailure, Staged, At, Handles, TaskRecord
  <2>4. status' \in [Leads -> Statuses] /\ contacts' \in [Leads -> Nat]
    BY <1>2, <1>3, <1>15 DEF CommitFailure, SetStatus, Statuses
  <2>. QED
    BY <1>1, <1>2, <1>3, <1>15, <2>1, <2>2, <2>3, RecordingStep, <2>4,
       EdgesOfTheGraph
       DEF CommitFailure
<1>16. CASE RecordUnsold(w)
  <2>1. PICK new \in TaskRecord : new = [task[w] EXCEPT !.pc = "announce"]
    BY <1>2, <1>3, <1>16 DEF RecordUnsold, TaskRecord, PCs, Lead
  <2>2. /\ task' = [task EXCEPT ![w] = new]
        /\ new.lead = Lead(w) /\ new.event = task[w].event
    BY <1>2, <1>3, <1>16, <2>1 DEF RecordUnsold, Goto, TaskRecord, Lead
  <2>3. "unsold" \in Reached(new.lead)' => Staged(new)'
    BY <1>3, <1>16, <2>1 DEF RecordUnsold, Staged, At, Handles, TaskRecord
  <2>. QED
    BY <1>1, <1>2, <1>3, <1>16, <2>1, <2>2, <2>3, RecordingStep,
       EdgesOfTheGraph
       DEF RecordUnsold
<1>17. CASE NurtureLead(w)
  <2>1. PICK new \in TaskRecord :
          new = [task[w] EXCEPT !.pc = "done", !.seen = "new",
                             !.verdict = "qualified"]
    BY <1>2, <1>3, <1>17 DEF NurtureLead, TaskRecord, PCs, Lead, Statuses
  <2>2. /\ task' = [task EXCEPT ![w] = new]
        /\ new.lead = Lead(w) /\ new.event = task[w].event
    BY <1>2, <1>3, <1>17, <2>1 DEF NurtureLead, Leave, TaskRecord, Lead
  <2>3. "nurtured" \in Reached(new.lead)' => Staged(new)'
    BY <1>3, <1>17, <2>1 DEF NurtureLead, Staged, At, Handles, TaskRecord
  <2>4. status' \in [Leads -> Statuses] /\ contacts' \in [Leads -> Nat]
    BY <1>2, <1>3, <1>17 DEF NurtureLead, FlushStatus, Statuses
  <2>. QED
    BY <1>1, <1>2, <1>3, <1>17, <2>1, <2>2, <2>3, RecordingStep, <2>4,
       EdgesOfTheGraph
       DEF NurtureLead, Handles
<1>18. CASE RefuseLead(w)
  <2>1. PICK new \in TaskRecord : new = [task[w] EXCEPT !.pc = "refuse"]
    BY <1>2, <1>3, <1>18 DEF RefuseLead, TaskRecord, PCs, Lead
  <2>2. /\ task' = [task EXCEPT ![w] = new]
        /\ new.lead = Lead(w) /\ new.event = task[w].event
    BY <1>2, <1>3, <1>18, <2>1 DEF RefuseLead, Goto, TaskRecord, Lead
  <2>3. Staged(new)'
    BY <1>3, <1>18, <2>1
       DEF RefuseLead, Staged, At, Handles, Reached, Graph!Reached, Lead,
           TaskRecord
  <2>. QED
    BY <1>1, <1>2, <1>3, <1>18, <2>1, <2>2, <2>3, PushingStep
       DEF RefuseLead, Events
<1>19. CASE FailDelivery(w)
  <2>1. PICK new \in TaskRecord : new = [task[w] EXCEPT !.pc = "lose"]
    BY <1>2, <1>3, <1>19 DEF FailDelivery, TaskRecord, PCs, Lead
  <2>2. /\ task' = [task EXCEPT ![w] = new]
        /\ new.lead = Lead(w) /\ new.event = task[w].event
    BY <1>2, <1>3, <1>19, <2>1 DEF FailDelivery, Goto, TaskRecord, Lead
  <2>3. Staged(new)'
    BY <1>3, <1>19, <2>1
       DEF FailDelivery, Staged, At, Handles, Reached, Graph!Reached, Lead,
           TaskRecord
  <2>. QED
    BY <1>1, <1>2, <1>3, <1>19, <2>1, <2>2, <2>3, PushingStep
       DEF FailDelivery, Events
<1>20. CASE AnnounceUnsold(w)
  <2>0. PICK pc \in {"close", "done"} : Goto(w, pc)
    BY <1>20 DEF AnnounceUnsold
  <2>1. PICK new \in TaskRecord : new = [task[w] EXCEPT !.pc = pc]
    BY <2>0, <1>2, <1>3, <1>20 DEF AnnounceUnsold, TaskRecord, PCs, Lead
  <2>2. /\ task' = [task EXCEPT ![w] = new]
        /\ new.lead = Lead(w) /\ new.event = task[w].event
    BY <2>0, <1>2, <1>3, <1>20, <2>1 DEF AnnounceUnsold, Goto, TaskRecord, Lead
  <2>3. Staged(new)'
    BY <2>0, <1>3, <1>20, <2>1
       DEF AnnounceUnsold, Staged, At, Handles, Reached, Graph!Reached, Lead,
           TaskRecord, leadVars
  <2>4. "unsold" \in Reached(Lead(w))
    BY <1>3, <1>20 DEF AnnounceUnsold, Staged, At, Lead
  <2>. QED
    BY <1>1, <1>20, <2>1, <2>2, <2>3, <2>4, PushingStep
       DEF AnnounceUnsold, Events, leadVars, repeatVars
<1>21. CASE PushResult(w)
  <2>1. PICK new \in TaskRecord :
          new = [task[w] EXCEPT !.pc = "done", !.seen = "new",
                             !.verdict = "qualified"]
    BY <1>2, <1>3, <1>21 DEF PushResult, TaskRecord, PCs, Lead, Statuses
  <2>2. /\ task' = [task EXCEPT ![w] = new]
        /\ new.lead = Lead(w) /\ new.event = task[w].event
    BY <1>2, <1>3, <1>21, <2>1 DEF PushResult, Leave, TaskRecord, Lead
  <2>3. Staged(new)'
    BY <1>3, <1>21, <2>1
       DEF PushResult, Staged, At, Handles, Reached, Graph!Reached, Lead,
           TaskRecord, leadVars
  <2>4. PICK e \in Events : Push(Lead(w), e) /\ e \in Reached(Lead(w))
    <3>1. CASE Handles(w, {"captured"})
      BY <1>3, <1>21, <3>1 DEF PushResult, Staged, At, Lead, Handles, Events
    <3>2. CASE ~Handles(w, {"captured"})
      BY <1>3, <1>21, <3>2
         DEF PushResult, Staged, At, Lead, Handles, Events, TaskRecord
    <3>. QED  BY <3>1, <3>2
  <2>. QED
    BY <1>1, <1>21, <2>1, <2>2, <2>3, <2>4, PushingStep
       DEF PushResult, leadVars, repeatVars
<1>22. CASE Finish(w)
  <2>1. IdleTask \in TaskRecord
    BY PipelineAssumption DEF IdleTask, TaskRecord, PCs, Events, Statuses
  <2>2. Remembers
    BY <1>22 DEF Finish, Remembers, leadVars, repeatVars
  <2>3. Grounded(IdleTask)'
    BY DEF Grounded, Named, Staged, IdleTask
  <2>4. task' \in [Workers -> TaskRecord] /\ TasksGrounded'
    BY <1>22, <2>1, <2>2, <2>3, TaskReplaced DEF Finish, PipelineInv
  <2>5. EventsGrounded'
    BY <1>22, <2>2, EventsStay DEF Finish, PipelineInv
  <2>. QED
    BY <1>22, <2>4, <2>5
       DEF Finish, PipelineInv, PipelineTypeOK, leadVars, repeatVars
<1>. QED
  BY <1>4, <1>5, <1>6, <1>7, <1>8, <1>9, <1>10, <1>11, <1>12, <1>13, <1>14,
     <1>15, <1>16, <1>17, <1>18, <1>19, <1>20, <1>21, <1>22
     DEF WorkerStep

\* Hatchet hands an event to a free worker.
LEMMA TakeInv ==
    ASSUME PipelineInv, NEW w \in Workers, NEW l \in Leads, NEW e \in Events,
           Take(w, l, e)
    PROVE  PipelineInv'
<1>1. PICK new \in TaskRecord :
          new = [IdleTask EXCEPT !.pc = "load", !.lead = l, !.event = e,
                                 !.left = Retries[e]]
  BY PipelineAssumption DEF IdleTask, TaskRecord, PCs, Statuses, Events
<1>2. Remembers
  BY DEF Take, Remembers, leadVars, repeatVars
<1>3. e \in Graph!Known(l)
  BY DEF PipelineInv, EventsGrounded, Take
<1>4. Grounded(new)'
  BY <1>1, <1>2, <1>3, KnownGrows DEF Grounded, Named, Staged, IdleTask
<1>5. task' \in [Workers -> TaskRecord] /\ TasksGrounded'
  BY <1>1, <1>2, <1>4, TaskReplaced DEF Take, PipelineInv
<1>6. pending \in [Leads -> [Events -> Nat]] /\ pending[l][e] > 0
  BY DEF PipelineInv, PipelineTypeOK, Take
<1>7. /\ pending' \in [Leads -> [Events -> Nat]]
      /\ \A k \in Leads, d \in Events : pending'[k][d] <= pending[k][d]
  BY <1>6 DEF Take
<1>8. EventsGrounded'
  <2>. SUFFICES ASSUME NEW k \in Leads, NEW d \in Events, pending'[k][d] > 0
                PROVE  d \in Graph!Known(k)'
    BY DEF EventsGrounded
  <2>1. pending[k][d] > 0
    BY <1>6, <1>7
  <2>. QED  BY <1>2, <2>1, KnownGrows DEF PipelineInv, EventsGrounded
<1>. QED
  BY <1>5, <1>7, <1>8
     DEF Take, PipelineInv, PipelineTypeOK, leadVars, repeatVars

LEMMA CaptureInv ==
    ASSUME PipelineInv, NEW l \in Leads, Capture(l)
    PROVE  PipelineInv'
<1>1. /\ timeline' \in [Leads -> SUBSET Graph!Edges]
      /\ "captured" \in Reached(l)'
      /\ \A k \in Leads : timeline[k] \subseteq timeline'[k]
  BY EdgesOfTheGraph, RecordReaches DEF Capture, PipelineInv
<1>2. Remembers
  BY <1>1 DEF Remembers, Capture, repeatVars
<1>3. "captured" \in Graph!Known(l)'
  BY <1>1 DEF Graph!Known, Reached, Graph!Reached
<1>4. pending' \in [Leads -> [Events -> Nat]] /\ EventsGrounded'
  BY <1>2, <1>3, PushGrounded DEF Capture, PipelineInv, Events
<1>5. TasksGrounded'
  <2>. SUFFICES ASSUME NEW w \in Workers  PROVE Grounded(task[w])'
    BY DEF TasksGrounded
  <2>1. PICK t : t = task[w] /\ Grounded(t)
    BY DEF PipelineInv, TasksGrounded
  <2>2. Grounded(t)'
    BY <1>2, <2>1, KnownGrows DEF Grounded, Named, Staged
  <2>. QED  BY <2>1, <2>2 DEF Capture
<1>. QED
  BY <1>1, <1>4, <1>5 DEF Capture, PipelineInv, PipelineTypeOK, repeatVars

LEMMA FailInv ==
    ASSUME PipelineInv, NEW w \in Workers, Fail(w)
    PROVE  PipelineInv'
<1>1. /\ task[w] \in TaskRecord /\ Lead(w) \in Leads
      /\ task[w].event \in Graph!Known(Lead(w))
  BY BusyTask DEF Fail
<1>2. Remembers
  BY DEF Fail, Remembers
<1>3. IdleTask \in TaskRecord
  BY PipelineAssumption DEF IdleTask, TaskRecord, PCs, Events, Statuses
<1>4. PICK new \in TaskRecord :
          /\ task' = [task EXCEPT ![w] = new]
          /\ \/ new = IdleTask
             \/ /\ new.pc = "load" /\ new.lead = Lead(w)
                /\ new.event = task[w].event
  <2>1. CASE task[w].left > 0
    <3>0. /\ task[w].event \in Events /\ task[w].left - 1 \in Nat
          /\ Lead(w) \in Leads \cup {NoLead}
      BY <1>1, <2>1 DEF TaskRecord
    <3>1. PICK new \in TaskRecord :
              new = [IdleTask EXCEPT !.pc = "load", !.lead = Lead(w),
                       !.event = task[w].event, !.left = task[w].left - 1]
      BY <3>0 DEF IdleTask, TaskRecord, PCs, Statuses
    <3>2. /\ new.pc = "load" /\ new.lead = Lead(w)
          /\ new.event = task[w].event
      BY <3>1 DEF IdleTask
    <3>. QED  BY <2>1, <3>1, <3>2 DEF Fail
  <2>2. CASE ~(task[w].left > 0)
    BY <1>3, <2>2 DEF Fail
  <2>. QED  BY <2>1, <2>2
<1>5. Grounded(new)'
  <2>1. CASE new = IdleTask
    BY <2>1 DEF Grounded, Named, Staged, IdleTask
  <2>2. CASE new.pc = "load" /\ new.lead = Lead(w) /\ new.event = task[w].event
    BY <1>1, <1>2, <2>2, KnownGrows DEF Grounded, Named, Staged
  <2>. QED  BY <1>4, <2>1, <2>2
<1>6. task' \in [Workers -> TaskRecord] /\ TasksGrounded'
  BY <1>2, <1>4, <1>5, TaskReplaced DEF PipelineInv
<1>7. EventsGrounded'
  BY <1>2, EventsStay DEF PipelineInv, Fail
<1>8. failures' \in [Leads -> Nat] /\ lost' \subseteq Leads
  BY <1>1 DEF Fail, PipelineInv, PipelineTypeOK
<1>. QED
  BY <1>6, <1>7, <1>8 DEF Fail, PipelineInv, PipelineTypeOK

LEMMA ReplayInv ==
    ASSUME PipelineInv, NEW l \in Leads, NEW checkpoint \in Events,
           Replay(l, checkpoint)
    PROVE  PipelineInv'
<1>1. PICK e \in Events :
          /\ Push(l, e)
          /\ claimed' = [claimed EXCEPT ![l] = @ \cup {e}]
  BY DEF Replay, Events
<1>2. claimed \in [Leads -> SUBSET Events]
  BY DEF PipelineInv, PipelineTypeOK
<1>3. /\ claimed' \in [Leads -> SUBSET Events] /\ e \in claimed'[l]
      /\ \A k \in Leads : claimed[k] \subseteq claimed'[k]
  BY <1>1, <1>2
<1>4. Remembers
  BY <1>3 DEF Replay, Remembers
<1>5. pending' \in [Leads -> [Events -> Nat]] /\ EventsGrounded'
  BY <1>1, <1>3, <1>4, PushGrounded DEF PipelineInv, Graph!Known
<1>6. TasksGrounded'
  <2>. SUFFICES ASSUME NEW w \in Workers  PROVE Grounded(task[w])'
    BY DEF TasksGrounded
  <2>1. PICK t : t = task[w] /\ Grounded(t)
    BY DEF PipelineInv, TasksGrounded
  <2>2. Grounded(t)'
    BY <1>4, <2>1, KnownGrows DEF Grounded, Named, Staged
  <2>. QED  BY <2>1, <2>2 DEF Replay
<1>7. replays' \in [Leads -> Nat]
  BY DEF Replay, PipelineInv, PipelineTypeOK
<1>. QED
  BY <1>3, <1>5, <1>6, <1>7 DEF Replay, PipelineInv, PipelineTypeOK

LEMMA StutterInv ==
    ASSUME PipelineInv, UNCHANGED vars
    PROVE  PipelineInv'
BY DEF vars, leadVars, repeatVars, PipelineInv, PipelineTypeOK, TasksGrounded,
       EventsGrounded, Grounded, Named, Staged, Graph!Known, Graph!Reached,
       Reached

LEMMA PipelineStepInv ==
    ASSUME PipelineInv, [PipelineNext]_vars
    PROVE  PipelineInv'
BY WorkerStepInv, TakeInv, CaptureInv, FailInv, ReplayInv, StutterInv
   DEF PipelineNext, Deliver

LEMMA PipelineInitInv == PipelineInit => PipelineInv
<1>. SUFFICES ASSUME PipelineInit  PROVE PipelineInv
  OBVIOUS
<1>1. IdleTask \in TaskRecord /\ IdleTask.pc = "idle"
  BY PipelineAssumption DEF IdleTask, TaskRecord, PCs, Events, Statuses
<1>2. PipelineTypeOK
  BY <1>1 DEF PipelineInit, PipelineTypeOK, Statuses
<1>3. TasksGrounded
  BY <1>1 DEF PipelineInit, TasksGrounded, Grounded, Named, Staged
<1>4. EventsGrounded
  BY DEF PipelineInit, EventsGrounded
<1>. QED  BY <1>2, <1>3, <1>4 DEF PipelineInv

\* Every variable of the pipeline keeps its type, and no task or event is under
\* way whose state was neither recorded nor claimed.
THEOREM PipelineInvariant == PipelineSpec => []PipelineInv
<1>1. PipelineInit => PipelineInv
  BY PipelineInitInv
<1>2. PipelineInv /\ [PipelineNext]_vars => PipelineInv'
  BY PipelineStepInv
<1>. QED  BY <1>1, <1>2, PTL DEF PipelineSpec

\* PipelineTypeOK alone.
THEOREM PipelineTypes == PipelineSpec => []PipelineTypeOK
<1>1. PipelineInv => PipelineTypeOK
  BY DEF PipelineInv
<1>. QED  BY <1>1, PipelineInvariant, PTL

-----------------------------------------------------------------------------
(* The pipeline implements its graph.                                      *)

\* Recording an edge is a step of the graph if its origin is known.
LEMMA RecordingWalks ==
    ASSUME NEW l \in Leads, NEW from, NEW to, <<from, to>> \in Graph!Edges,
           from \in Graph!Known(l), RecordTransition(l, from, to),
           UNCHANGED claimed
    PROVE  Graph!GraphNext
<1>1. PICK edge \in Graph!Edges : edge = <<from, to>>
  OBVIOUS
<1>2. edge[1] = from
  BY <1>1
<1>3. Graph!Walk(l, edge)
  BY <1>1, <1>2 DEF Graph!Walk, RecordTransition
<1>. QED  BY <1>3 DEF Graph!GraphNext

\* So is naming a state that nothing was recorded of.
LEMMA NamingClaims ==
    ASSUME NEW l \in Leads, NEW e \in Events,
           claimed' = [claimed EXCEPT ![l] = @ \cup {e}], UNCHANGED timeline
    PROVE  Graph!GraphNext
<1>1. e \in Graph!States
  BY DEF Graph!States, Events
<1>2. Graph!Claim(l, e)
  BY DEF Graph!Claim
<1>. QED  BY <1>1, <1>2 DEF Graph!GraphNext

\* Each step of an execution is a step of the graph, or leaves it alone.
LEMMA WorkerStepRefines ==
    ASSUME PipelineInv, NEW w \in Workers, WorkerStep(w)
    PROVE  Graph!GraphNext \/ UNCHANGED Graph!graphVars
<1>1. ~At(w, "idle")
  BY DEF WorkerStep, LoadRow, EnrichLead, QualifyLead, PushResult,
         EnterAuction, HoldLead, RefuseLead, CommitRefusal, RecordAuctioned,
         SellLead, SkipDelivery, FailDelivery, CommitFailure, RecordUnsold,
         AnnounceUnsold, CloseUnsold, SendOutreach, NurtureLead, Finish, At
<1>2. /\ task[w] \in TaskRecord /\ Staged(task[w]) /\ Lead(w) \in Leads
      /\ task[w].event \in Graph!Known(Lead(w))
  BY <1>1, BusyTask
<1>3. /\ "start" \in Graph!Known(Lead(w))
      /\ Reached(Lead(w)) \subseteq Graph!Known(Lead(w))
      /\ task[w].lead = Lead(w)
  BY DEF Graph!Known, Reached, Lead
<1>4. CASE EnrichLead(w)
  BY <1>2, <1>4, RecordingWalks, EdgesOfTheGraph
     DEF EnrichLead, Handles, repeatVars
<1>5. CASE QualifyLead(w)
  <2>1. PICK verdict \in {"qualified", "rejected"} :
            RecordTransition(Lead(w), "enriched", verdict)
    BY <1>5 DEF QualifyLead
  <2>. QED
    BY <1>2, <1>5, <2>1, RecordingWalks, EdgesOfTheGraph
       DEF QualifyLead, Handles, repeatVars
<1>6. CASE HoldLead(w)
  BY <1>2, <1>3, <1>6, RecordingWalks, EdgesOfTheGraph
     DEF HoldLead, repeatVars
<1>7. CASE RefuseLead(w)
  BY <1>2, <1>7, NamingClaims DEF RefuseLead, Events
<1>8. CASE CommitRefusal(w)
  BY <1>2, <1>3, <1>8, RecordingWalks, EdgesOfTheGraph
     DEF CommitRefusal, repeatVars
<1>9. CASE RecordAuctioned(w)
  BY <1>2, <1>9, RecordingWalks, EdgesOfTheGraph
     DEF RecordAuctioned, Staged, At, repeatVars
<1>10. CASE SellLead(w)
  BY <1>2, <1>3, <1>10, RecordingWalks, EdgesOfTheGraph
     DEF SellLead, Staged, At, repeatVars
<1>11. CASE FailDelivery(w)
  BY <1>2, <1>11, NamingClaims DEF FailDelivery, Events
<1>12. CASE CommitFailure(w)
  BY <1>2, <1>3, <1>12, RecordingWalks, EdgesOfTheGraph
     DEF CommitFailure, Staged, At, repeatVars
<1>13. CASE RecordUnsold(w)
  BY <1>2, <1>3, <1>13, RecordingWalks, EdgesOfTheGraph
     DEF RecordUnsold, Staged, At, repeatVars
<1>14. CASE NurtureLead(w)
  BY <1>2, <1>14, RecordingWalks, EdgesOfTheGraph
     DEF NurtureLead, Handles, repeatVars
<1>15. CASE \/ LoadRow(w) \/ PushResult(w) \/ EnterAuction(w)
            \/ SkipDelivery(w) \/ AnnounceUnsold(w) \/ CloseUnsold(w)
            \/ SendOutreach(w) \/ Finish(w)
  BY <1>15
     DEF LoadRow, PushResult, EnterAuction, SkipDelivery, AnnounceUnsold,
         CloseUnsold, SendOutreach, Finish, leadVars, repeatVars,
         Graph!graphVars
<1>. QED
  BY <1>4, <1>5, <1>6, <1>7, <1>8, <1>9, <1>10, <1>11, <1>12, <1>13, <1>14,
     <1>15
     DEF WorkerStep

\* Each step of the pipeline is a step of the graph, or leaves it alone.
LEMMA StepRefines ==
    ASSUME PipelineInv, [PipelineNext]_vars
    PROVE  [Graph!GraphNext]_Graph!graphVars
<1>1. ASSUME NEW l \in Leads, Capture(l)
      PROVE  Graph!GraphNext
  <2>1. "start" \in Graph!Known(l)
    BY DEF Graph!Known
  <2>. QED
    BY <1>1, <2>1, RecordingWalks, EdgesOfTheGraph DEF Capture, repeatVars
<1>2. ASSUME NEW w \in Workers, NEW l \in Leads, NEW e \in Events,
             Take(w, l, e)
      PROVE  UNCHANGED Graph!graphVars
  BY <1>2 DEF Take, leadVars, repeatVars, Graph!graphVars
<1>3. ASSUME NEW w \in Workers, Fail(w)
      PROVE  UNCHANGED Graph!graphVars
  BY <1>3 DEF Fail, Graph!graphVars
<1>4. ASSUME NEW l \in Leads, NEW checkpoint \in Events,
             Replay(l, checkpoint)
      PROVE  Graph!GraphNext
  BY <1>4, NamingClaims DEF Replay, Events
<1>5. ASSUME UNCHANGED vars
      PROVE  UNCHANGED Graph!graphVars
  BY <1>5 DEF vars, leadVars, repeatVars, Graph!graphVars
<1>. QED
  BY <1>1, <1>2, <1>3, <1>4, <1>5, WorkerStepRefines
     DEF PipelineNext, Deliver

\* However tasks are retried, replayed and overlapped, the timeline is a walk
\* of the pipeline graph.
THEOREM PipelineImplementsGraph == PipelineSpec => GraphRefined
<1>1. PipelineInit => Graph!GraphInit
  BY DEF PipelineInit, Graph!GraphInit
<1>2. PipelineInv /\ [PipelineNext]_vars => [Graph!GraphNext]_Graph!graphVars
  BY StepRefines
<1>. QED
  BY <1>1, <1>2, PipelineInvariant, PTL
     DEF PipelineSpec, GraphRefined, Graph!GraphSpec

-----------------------------------------------------------------------------
(* A status has its row.                                                   *)

\* Writing a status that has its row, with the row or after it.
LEMMA StatusSet ==
    ASSUME PipelineTypeOK, StatusIsRecorded, NEW l \in Leads, NEW s,
           \A k \in Leads : timeline[k] \subseteq timeline'[k],
           s \in Reached(l)',
           \/ SetStatus(l, s)
           \/ UNCHANGED status
    PROVE  StatusIsRecorded'
<1>1. status \in [Leads -> Statuses]
  BY DEF PipelineTypeOK
<1>2. ASSUME NEW k \in Leads
      PROVE  (status[k] = "new" \/ status[k] \in Reached(k))'
  <2>1. CASE status'[k] = status[k]
    BY <2>1 DEF StatusIsRecorded, Reached, Graph!Reached
  <2>2. CASE status'[k] # status[k]
    BY <1>1, <2>2 DEF SetStatus
  <2>. QED  BY <2>1, <2>2
<1>. QED  BY <1>2 DEF StatusIsRecorded

\* A step that only adds to the timeline.
LEMMA StatusStays ==
    ASSUME StatusIsRecorded, UNCHANGED status,
           \A k \in Leads : timeline[k] \subseteq timeline'[k]
    PROVE  StatusIsRecorded'
BY DEF StatusIsRecorded, Reached, Graph!Reached

\* An edge and a status written together.
LEMMA StatusRecorded ==
    ASSUME PipelineTypeOK, StatusIsRecorded, NEW l \in Leads, NEW from, NEW s,
           <<from, s>> \in Graph!Edges, RecordTransition(l, from, s),
           \/ SetStatus(l, s)
           \/ UNCHANGED status
    PROVE  StatusIsRecorded'
BY RecordReaches, StatusSet

\* The flush writes the status or leaves the one there is.
LEMMA FlushSets ==
    ASSUME PipelineTypeOK, NEW w \in Workers, NEW s, FlushStatus(w, s),
           Lead(w) \in Leads
    PROVE  SetStatus(Lead(w), s) \/ UNCHANGED status
<1>1. status \in [Leads -> Statuses]
  BY DEF PipelineTypeOK
<1>. QED  BY <1>1 DEF FlushStatus, SetStatus

\* Each step of an execution writes a status with its row, or after it.
LEMMA WorkerStepRecords ==
    ASSUME PipelineInv, StatusIsRecorded, NEW w \in Workers, WorkerStep(w)
    PROVE  StatusIsRecorded'
<1>1. ~At(w, "idle")
  BY DEF WorkerStep, LoadRow, EnrichLead, QualifyLead, PushResult,
         EnterAuction, HoldLead, RefuseLead, CommitRefusal, RecordAuctioned,
         SellLead, SkipDelivery, FailDelivery, CommitFailure, RecordUnsold,
         AnnounceUnsold, CloseUnsold, SendOutreach, NurtureLead, Finish, At
<1>2. /\ task[w] \in TaskRecord /\ Staged(task[w]) /\ Lead(w) \in Leads
      /\ task[w].event \in Graph!Known(Lead(w))
      /\ PipelineTypeOK
  BY <1>1, BusyTask DEF PipelineInv
<1>3. CASE EnrichLead(w)
  BY <1>2, <1>3, FlushSets, StatusRecorded, EdgesOfTheGraph DEF EnrichLead
<1>4. CASE QualifyLead(w)
  <2>1. PICK verdict \in {"qualified", "rejected"} :
            /\ FlushStatus(w, verdict)
            /\ RecordTransition(Lead(w), "enriched", verdict)
    BY <1>4 DEF QualifyLead
  <2>2. <<"enriched", verdict>> \in Graph!Edges
    BY EdgesOfTheGraph
  <2>. QED  BY <1>2, <2>1, <2>2, FlushSets, StatusRecorded
<1>5. CASE HoldLead(w)
  BY <1>2, <1>5, StatusRecorded, EdgesOfTheGraph DEF HoldLead
<1>6. CASE CommitRefusal(w)
  BY <1>2, <1>6, StatusRecorded, EdgesOfTheGraph DEF CommitRefusal
<1>7. CASE RecordAuctioned(w)
  BY <1>2, <1>7, StatusRecorded, EdgesOfTheGraph DEF RecordAuctioned
<1>8. CASE SellLead(w)
  BY <1>2, <1>8, StatusRecorded, EdgesOfTheGraph DEF SellLead
<1>9. CASE CommitFailure(w)
  BY <1>2, <1>9, StatusRecorded, EdgesOfTheGraph DEF CommitFailure
<1>10. CASE RecordUnsold(w)
  BY <1>2, <1>10, StatusRecorded, EdgesOfTheGraph DEF RecordUnsold
<1>11. CASE CloseUnsold(w)
  <2>. DEFINE l == Lead(w)
  <2>1. PICK k \in Leads : k = l /\ "unsold" \in Reached(k)
    BY <1>2, <1>11 DEF CloseUnsold, Staged, At, Lead
  <2>2. UNCHANGED timeline /\ SetStatus(k, "unsold")
    BY <1>11, <2>1 DEF CloseUnsold
  <2>3. "unsold" \in Reached(k)'
    BY <2>1, <2>2 DEF Reached, Graph!Reached
  <2>. QED  BY <1>2, <2>2, <2>3, StatusSet
<1>12. CASE NurtureLead(w)
  <2>1. <<task[w].event, "nurtured">> \in Graph!Edges
    BY <1>12, EdgesOfTheGraph DEF NurtureLead, Handles
  <2>. QED  BY <1>2, <1>12, <2>1, FlushSets, StatusRecorded DEF NurtureLead
<1>13. CASE \/ LoadRow(w) \/ PushResult(w) \/ EnterAuction(w)
            \/ RefuseLead(w) \/ SkipDelivery(w) \/ FailDelivery(w)
            \/ AnnounceUnsold(w) \/ SendOutreach(w) \/ Finish(w)
  BY <1>13, StatusStays
     DEF LoadRow, PushResult, EnterAuction, RefuseLead, SkipDelivery,
         FailDelivery, AnnounceUnsold, SendOutreach, Finish, leadVars
<1>. QED
  BY <1>3, <1>4, <1>5, <1>6, <1>7, <1>8, <1>9, <1>10, <1>11, <1>12, <1>13
     DEF WorkerStep

\* The status of a lead is always one its timeline has, for any number of
\* overlapping, failing and replayed tasks.
THEOREM StatusHasItsRow == PipelineSpec => []StatusIsRecorded
<1>1. PipelineInit => StatusIsRecorded
  BY DEF PipelineInit, StatusIsRecorded
<1>2. ASSUME PipelineInv, StatusIsRecorded, [PipelineNext]_vars
      PROVE  StatusIsRecorded'
  <2>1. ASSUME NEW l \in Leads, Capture(l)
        PROVE  StatusIsRecorded'
    BY <1>2, <2>1, StatusRecorded, EdgesOfTheGraph DEF Capture, PipelineInv
  <2>2. ASSUME NEW w \in Workers, NEW l \in Leads, NEW e \in Events,
               Take(w, l, e)
        PROVE  StatusIsRecorded'
    BY <1>2, <2>2, StatusStays DEF Take, leadVars
  <2>3. ASSUME NEW w \in Workers, Fail(w)
        PROVE  StatusIsRecorded'
    BY <1>2, <2>3, StatusStays DEF Fail
  <2>4. ASSUME NEW l \in Leads, NEW checkpoint \in Events,
               Replay(l, checkpoint)
        PROVE  StatusIsRecorded'
    BY <1>2, <2>4, StatusStays DEF Replay
  <2>5. ASSUME UNCHANGED vars
        PROVE  StatusIsRecorded'
    BY <1>2, <2>5, StatusStays DEF vars, leadVars
  <2>. QED
    BY <1>2, <2>1, <2>2, <2>3, <2>4, <2>5, WorkerStepRecords
       DEF PipelineNext, Deliver
<1>. QED  BY <1>1, <1>2, PipelineInvariant, PTL DEF PipelineSpec

-----------------------------------------------------------------------------
(* What is left of a lead's chances.  A capture grants a lead one chance,  *)
(* and each failure or replay one more.  An event under way holds one, and *)
(* so does an execution that may still push the next event, sell the lead  *)
(* or contact its owner; a sale, a message or a row "nurtured" uses one.   *)

Carries(t) ==
    \/ t.pc \in {"load", "push", "mark", "outcome", "announce", "contact"}
    \/ t.pc = "write" /\ t.event \in {"captured", "enriched"}

\* It has made its outreach call and will record the nurture.
Nurtures(t) == t.pc = "write" /\ t.event \notin {"captured", "enriched"}

Holds(t, l) == IF t.lead = l /\ Carries(t) THEN 1 ELSE 0
Ends(t, l)  == IF t.lead = l /\ Nurtures(t) THEN 1 ELSE 0

Carriers(l)  == {w \in Workers : task[w].lead = l /\ Carries(task[w])}
Nurturers(l) == {w \in Workers : task[w].lead = l /\ Nurtures(task[w])}

Due(l) == pending[l]["captured"] + pending[l]["enriched"]
            + pending[l]["qualified"] + pending[l]["unsold"]
            + pending[l]["rejected"]

\* Once for a state that has been reached, and for a lead that was captured
Row(l, s)  == IF s \in Reached(l) THEN 1 ELSE 0
Started(l) == IF timeline[l] = {} THEN 0 ELSE 1

Chances(l) == Due(l) + Cardinality(Carriers(l)) + Row(l, "sold")

Granted(l) == Started(l) + Repeats(l)

ContactsCounted(l) == contacts[l] + Chances(l) <= Granted(l)

FatesCounted(l) ==
    Cardinality(Nurturers(l)) + Row(l, "nurtured") + Chances(l) <= Granted(l)

CountInv == \A l \in Leads : ContactsCounted(l) /\ FatesCounted(l)

\* Two sets that agree but for one element.
LEMMA CountChanges ==
    ASSUME NEW A, NEW B, IsFiniteSet(A), NEW w, A \ {w} = B \ {w},
           NEW a, a = IF w \in A THEN 1 ELSE 0,
           NEW b, b = IF w \in B THEN 1 ELSE 0
    PROVE  /\ Cardinality(A) \in Nat /\ Cardinality(B) \in Nat
           /\ Cardinality(B) = Cardinality(A) - a + b
<1>. DEFINE C == A \ {w}
<1>1. IsFiniteSet(C) /\ Cardinality(C) \in Nat /\ w \notin C
  BY FS_RemoveElement, FS_CardinalityType
<1>2. /\ w \in A => A = C \cup {w}
      /\ w \notin A => A = C
      /\ w \in B => B = C \cup {w}
      /\ w \notin B => B = C
  OBVIOUS
<1>3. IsFiniteSet(C \cup {w}) /\ Cardinality(C \cup {w}) = Cardinality(C) + 1
  BY <1>1, FS_AddElement
<1>. HIDE DEF C
<1>4. Cardinality(A) = Cardinality(C) + a
  <2>1. CASE w \in A
    BY <1>2, <1>3, <2>1
  <2>2. CASE w \notin A
    BY <1>1, <1>2, <2>2
  <2>. QED  BY <2>1, <2>2
<1>5. Cardinality(B) = Cardinality(C) + b
  <2>1. CASE w \in B
    BY <1>2, <1>3, <2>1
  <2>2. CASE w \notin B
    BY <1>1, <1>2, <2>2
  <2>. QED  BY <2>1, <2>2
<1>. QED  BY <1>1, <1>4, <1>5

\* The executions of a lead are finitely many.
LEMMA HoldersAreFinite ==
    ASSUME NEW l
    PROVE  /\ IsFiniteSet(Carriers(l)) /\ Cardinality(Carriers(l)) \in Nat
           /\ IsFiniteSet(Nurturers(l)) /\ Cardinality(Nurturers(l)) \in Nat
<1>1. Carriers(l) \subseteq Workers /\ Nurturers(l) \subseteq Workers
  BY DEF Carriers, Nurturers
<1>. QED  BY <1>1, PipelineAssumption, FS_Subset, FS_CardinalityType

\* When one execution moves, it leaves one count and may enter another.
LEMMA HoldersChange ==
    ASSUME PipelineTypeOK, NEW w \in Workers, NEW new,
           task' = [task EXCEPT ![w] = new], NEW l
    PROVE  /\ Cardinality(Carriers(l))' \in Nat
           /\ Cardinality(Carriers(l))'
                = Cardinality(Carriers(l)) - Holds(task[w], l) + Holds(new, l)
           /\ Cardinality(Nurturers(l))' \in Nat
           /\ Cardinality(Nurturers(l))'
                = Cardinality(Nurturers(l)) - Ends(task[w], l) + Ends(new, l)
<1>1. task'[w] = new /\ \A v \in Workers \ {w} : task'[v] = task[v]
  BY DEF PipelineTypeOK
<1>2. PICK A, B : A = Carriers(l) /\ B = Carriers(l)'
  OBVIOUS
<1>3. PICK C, D : C = Nurturers(l) /\ D = Nurturers(l)'
  OBVIOUS
<1>4. /\ A \ {w} = B \ {w}
      /\ Holds(task[w], l) = IF w \in A THEN 1 ELSE 0
      /\ Holds(new, l) = IF w \in B THEN 1 ELSE 0
  BY <1>1, <1>2 DEF Carriers, Holds
<1>5. /\ C \ {w} = D \ {w}
      /\ Ends(task[w], l) = IF w \in C THEN 1 ELSE 0
      /\ Ends(new, l) = IF w \in D THEN 1 ELSE 0
  BY <1>1, <1>3 DEF Nurturers, Ends
<1>6. IsFiniteSet(A) /\ IsFiniteSet(C)
  BY <1>2, <1>3, HoldersAreFinite
<1>7. /\ Cardinality(B) \in Nat
      /\ Cardinality(B) = Cardinality(A) - Holds(task[w], l) + Holds(new, l)
  BY <1>4, <1>6, CountChanges
<1>8. /\ Cardinality(D) \in Nat
      /\ Cardinality(D) = Cardinality(C) - Ends(task[w], l) + Ends(new, l)
  BY <1>5, <1>6, CountChanges
<1>. QED  BY <1>2, <1>3, <1>7, <1>8

\* The other leads' counts, when a step leaves their variables alone.
LEMMA OtherCounts ==
    ASSUME CountInv, NEW l \in Leads,
           \A k \in Leads \ {l} :
              /\ pending'[k] = pending[k] /\ contacts'[k] = contacts[k]
              /\ timeline'[k] = timeline[k]
              /\ Repeats(k)' = Repeats(k)
              /\ Cardinality(Carriers(k))' = Cardinality(Carriers(k))
              /\ Cardinality(Nurturers(k))' = Cardinality(Nurturers(k)),
           ContactsCounted(l)', FatesCounted(l)'
    PROVE  CountInv'
<1>1. ASSUME NEW k \in Leads \ {l}
      PROVE  ContactsCounted(k)' /\ FatesCounted(k)'
  <2>1. /\ Chances(k)' = Chances(k) /\ Granted(k)' = Granted(k)
        /\ Row(k, "nurtured")' = Row(k, "nurtured")
    BY DEF Chances, Granted, Due, Row, Started, Reached, Graph!Reached
  <2>2. ContactsCounted(k) /\ FatesCounted(k)
    BY DEF CountInv
  <2>. QED  BY <2>1, <2>2 DEF ContactsCounted, FatesCounted
<1>. QED  BY <1>1 DEF CountInv

\* The execution w of l becomes new.  With what it pushes, sends and records it
\* uses no more chances than it held or was granted.
Spends(w, l, new) ==
    /\ task' = [task EXCEPT ![w] = new]
    /\ Carries(task[w]) \/ Nurtures(task[w]) => task[w].lead = l
    /\ Carries(new) \/ Nurtures(new) => new.lead = l
    /\ Due(l)' \in Int /\ contacts'[l] \in Int /\ Repeats(l)' \in Int
    /\ timeline[l] \subseteq timeline'[l]
    /\ \A k \in Leads \ {l} :
          /\ pending'[k] = pending[k] /\ contacts'[k] = contacts[k]
          /\ timeline'[k] = timeline[k]
          /\ Repeats(k)' = Repeats(k)
    /\ contacts'[l] + Due(l)' + Holds(new, l) + Row(l, "sold")' + Repeats(l)
         <= contacts[l] + Due(l) + Holds(task[w], l) + Row(l, "sold")
              + Repeats(l)'
    /\ Due(l)' + Holds(new, l) + Ends(new, l) + Row(l, "sold")'
           + Row(l, "nurtured")' + Repeats(l)
         <= Due(l) + Holds(task[w], l) + Ends(task[w], l) + Row(l, "sold")
              + Row(l, "nurtured") + Repeats(l)'

LEMMA StepCounts ==
    ASSUME PipelineTypeOK, CountInv, NEW w \in Workers, NEW l \in Leads,
           NEW new, Spends(w, l, new)
    PROVE  CountInv'
<1>1. ASSUME NEW k \in Leads \ {l}
      PROVE  /\ Cardinality(Carriers(k))' = Cardinality(Carriers(k))
             /\ Cardinality(Nurturers(k))' = Cardinality(Nurturers(k))
  <2>1. /\ Holds(task[w], k) = 0 /\ Holds(new, k) = 0
        /\ Ends(task[w], k) = 0 /\ Ends(new, k) = 0
    BY DEF Spends, Holds, Ends
  <2>2. Cardinality(Carriers(k)) \in Nat /\ Cardinality(Nurturers(k)) \in Nat
    BY HoldersAreFinite
  <2>3. /\ Cardinality(Carriers(k))'
              = Cardinality(Carriers(k)) - Holds(task[w], k) + Holds(new, k)
        /\ Cardinality(Nurturers(k))'
              = Cardinality(Nurturers(k)) - Ends(task[w], k) + Ends(new, k)
    BY HoldersChange DEF Spends
  <2>. QED  BY <2>1, <2>2, <2>3
<1>2. /\ Cardinality(Carriers(l)) \in Nat /\ Cardinality(Carriers(l))' \in Nat
      /\ Cardinality(Nurturers(l)) \in Nat /\ Cardinality(Nurturers(l))' \in Nat
      /\ Cardinality(Carriers(l))'
           = Cardinality(Carriers(l)) - Holds(task[w], l) + Holds(new, l)
      /\ Cardinality(Nurturers(l))'
           = Cardinality(Nurturers(l)) - Ends(task[w], l) + Ends(new, l)
  <2>1. task' = [task EXCEPT ![w] = new]
    BY DEF Spends
  <2>. QED  BY <2>1, HoldersChange, HoldersAreFinite
<1>3. /\ contacts[l] \in Nat /\ Repeats(l) \in Nat /\ Due(l) \in Nat
  BY DEF PipelineTypeOK, Repeats, Due, Events
<1>4. Started(l) <= Started(l)' /\ Started(l) \in Int /\ Started(l)' \in Int
  BY DEF Spends, Started
<1>5. /\ Row(l, "sold") \in Int /\ Row(l, "sold")' \in Int
      /\ Row(l, "nurtured") \in Int /\ Row(l, "nurtured")' \in Int
      /\ Holds(new, l) \in Int /\ Holds(task[w], l) \in Int
      /\ Ends(new, l) \in Int /\ Ends(task[w], l) \in Int
  BY DEF Row, Holds, Ends
<1>6. ContactsCounted(l) /\ FatesCounted(l)
  BY DEF CountInv
<1>7. ContactsCounted(l)'
  BY <1>2, <1>3, <1>4, <1>5, <1>6 DEF Spends, ContactsCounted, Chances, Granted
<1>8. FatesCounted(l)'
  BY <1>2, <1>3, <1>4, <1>5, <1>6 DEF Spends, FatesCounted, Chances, Granted
<1>. QED  BY <1>1, <1>7, <1>8, OtherCounts DEF Spends

\* What a push, a repetition and a record do to the counts.
LEMMA PushCounts ==
    ASSUME PipelineTypeOK, NEW l \in Leads, NEW e \in Events, Push(l, e)
    PROVE  /\ Due(l)' = Due(l) + 1
           /\ \A k \in Leads \ {l} : pending'[k] = pending[k]
BY DEF PipelineTypeOK, Push, Due, Events

LEMMA RepeatCounts ==
    ASSUME PipelineTypeOK, NEW l \in Leads,
           \/ failures' = [failures EXCEPT ![l] = @ + 1] /\ replays' = replays
           \/ replays' = [replays EXCEPT ![l] = @ + 1] /\ failures' = failures
    PROVE  /\ Repeats(l) \in Nat /\ Repeats(l)' = Repeats(l) + 1
           /\ \A k \in Leads \ {l} : Repeats(k)' = Repeats(k)
<1>1. /\ failures[l] \in Nat /\ replays[l] \in Nat
      /\ failures'[l] + replays'[l] = failures[l] + replays[l] + 1
      /\ \A k \in Leads \ {l} : /\ failures'[k] = failures[k]
                               /\ replays'[k] = replays[k]
  <2>1. failures \in [Leads -> Nat] /\ replays \in [Leads -> Nat]
    BY DEF PipelineTypeOK
  <2>2. CASE failures' = [failures EXCEPT ![l] = @ + 1] /\ replays' = replays
    <3>1. failures'[l] = failures[l] + 1 /\ replays'[l] = replays[l]
      BY <2>1, <2>2
    <3>. QED  BY <2>1, <2>2, <3>1
  <2>3. CASE replays' = [replays EXCEPT ![l] = @ + 1] /\ failures' = failures
    <3>1. replays'[l] = replays[l] + 1 /\ failures'[l] = failures[l]
      BY <2>1, <2>3
    <3>. QED  BY <2>1, <2>3, <3>1
  <2>. QED  BY <2>2, <2>3
<1>. QED  BY <1>1 DEF Repeats

LEMMA RecordCounts ==
    ASSUME PipelineTypeOK, NEW l \in Leads, NEW from, NEW to,
           RecordTransition(l, from, to)
    PROVE  /\ Reached(l)' = Reached(l) \cup {to}
           /\ timeline[l] \subseteq timeline'[l] /\ timeline'[l] # {}
           /\ \A k \in Leads \ {l} : timeline'[k] = timeline[k]
<1>1. /\ timeline'[l] = timeline[l] \cup {<<from, to>>}
      /\ \A k \in Leads \ {l} : timeline'[k] = timeline[k]
  BY DEF PipelineTypeOK, RecordTransition
<1>2. <<from, to>>[2] = to
  OBVIOUS
<1>. QED  BY <1>1, <1>2 DEF Reached, Graph!Reached

\* A step that pushes and sends nothing, and neither sells nor nurtures.
LEMMA QuietCounts ==
    ASSUME PipelineTypeOK, CountInv, NEW w \in Workers, NEW l \in Leads,
           Lead(w) = l, NEW new, task' = [task EXCEPT ![w] = new],
           Carries(new) => new.lead = l /\ Carries(task[w]),
           Nurtures(new) => new.lead = l /\ Nurtures(task[w]),
           \/ UNCHANGED timeline
           \/ \E from, to : to \notin {"sold", "nurtured"}
                             /\ RecordTransition(l, from, to),
           UNCHANGED <<pending, contacts, failures, replays>>
    PROVE  CountInv'
<1>1. /\ timeline[l] \subseteq timeline'[l]
      /\ Row(l, "sold")' = Row(l, "sold")
      /\ Row(l, "nurtured")' = Row(l, "nurtured")
      /\ \A k \in Leads \ {l} : timeline'[k] = timeline[k]
  <2>1. CASE UNCHANGED timeline
    BY <2>1 DEF Row, Reached, Graph!Reached
  <2>2. CASE \E from, to : to \notin {"sold", "nurtured"}
                            /\ RecordTransition(l, from, to)
    BY <2>2, RecordCounts DEF Row
  <2>. QED  BY <2>1, <2>2
<1>2. /\ Due(l)' = Due(l) /\ Due(l) \in Nat
      /\ contacts'[l] = contacts[l] /\ contacts[l] \in Nat
      /\ \A k \in Leads : Repeats(k)' = Repeats(k) /\ Repeats(k) \in Nat
  BY DEF PipelineTypeOK, Due, Repeats, Events
<1>3. Lead(w) = task[w].lead
  BY DEF Lead
<1>4. /\ Holds(new, l) <= Holds(task[w], l) /\ Ends(new, l) <= Ends(task[w], l)
      /\ Holds(new, l) \in Int /\ Holds(task[w], l) \in Int
      /\ Ends(new, l) \in Int /\ Ends(task[w], l) \in Int
  BY <1>3 DEF Holds, Ends
<1>5. Row(l, "sold") \in Int /\ Row(l, "nurtured") \in Int
  BY DEF Row
<1>6. /\ contacts'[l] + Due(l)' + Holds(new, l) + Row(l, "sold")' + Repeats(l)
           <= contacts[l] + Due(l) + Holds(task[w], l) + Row(l, "sold")
                + Repeats(l)'
      /\ Due(l)' + Holds(new, l) + Ends(new, l) + Row(l, "sold")'
             + Row(l, "nurtured")' + Repeats(l)
           <= Due(l) + Holds(task[w], l) + Ends(task[w], l) + Row(l, "sold")
                + Row(l, "nurtured") + Repeats(l)'
  BY <1>1, <1>2, <1>4, <1>5
<1>7. Spends(w, l, new)
  BY <1>1, <1>2, <1>3, <1>6 DEF Spends
<1>. QED  BY <1>7, StepCounts

\* A step that turns the execution's chance into an event.
LEMMA PushingCounts ==
    ASSUME PipelineTypeOK, CountInv, NEW w \in Workers, NEW l \in Leads,
           Lead(w) = l, NEW new, task' = [task EXCEPT ![w] = new],
           Carries(task[w]), ~Carries(new), ~Nurtures(new),
           NEW e \in Events, Push(l, e),
           UNCHANGED <<timeline, contacts, failures, replays>>
    PROVE  CountInv'
<1>1. /\ Row(l, "sold")' = Row(l, "sold")
      /\ Row(l, "nurtured")' = Row(l, "nurtured")
      /\ timeline[l] \subseteq timeline'[l]
      /\ \A k \in Leads : timeline'[k] = timeline[k]
  BY DEF Row, Reached, Graph!Reached
<1>2. /\ Due(l)' = Due(l) + 1 /\ Due(l) \in Nat
      /\ contacts'[l] = contacts[l] /\ contacts[l] \in Nat
      /\ \A k \in Leads \ {l} : pending'[k] = pending[k]
      /\ \A k \in Leads : Repeats(k)' = Repeats(k) /\ Repeats(k) \in Nat
  BY PushCounts DEF PipelineTypeOK, Repeats, Due, Events
<1>3. Lead(w) = task[w].lead
  BY DEF Lead
<1>4. /\ Holds(new, l) = 0 /\ Ends(new, l) = 0 /\ Holds(task[w], l) = 1
      /\ Ends(task[w], l) \in {0, 1}
  BY <1>3 DEF Holds, Ends
<1>5. Row(l, "sold") \in Int /\ Row(l, "nurtured") \in Int
  BY DEF Row
<1>6. /\ contacts'[l] + Due(l)' + Holds(new, l) + Row(l, "sold")' + Repeats(l)
           <= contacts[l] + Due(l) + Holds(task[w], l) + Row(l, "sold")
                + Repeats(l)'
      /\ Due(l)' + Holds(new, l) + Ends(new, l) + Row(l, "sold")'
             + Row(l, "nurtured")' + Repeats(l)
           <= Due(l) + Holds(task[w], l) + Ends(task[w], l) + Row(l, "sold")
                + Row(l, "nurtured") + Repeats(l)'
  BY <1>1, <1>2, <1>4, <1>5
<1>7. Spends(w, l, new)
  BY <1>1, <1>2, <1>3, <1>6 DEF Spends
<1>. QED  BY <1>7, StepCounts

\* An execution goes on, with its lead and its event.
LEMMA GoesOn ==
    ASSUME NEW w \in Workers, task[w] \in TaskRecord, NEW pc,
           Goto(w, pc) \/ Leave(w, pc)
    PROVE  \E new : /\ task' = [task EXCEPT ![w] = new]
                    /\ new.lead = task[w].lead /\ new.event = task[w].event
                    /\ new.pc = pc
<1>1. CASE Goto(w, pc)
  <2>. DEFINE new == [task[w] EXCEPT !.pc = pc]
  <2>1. task' = [task EXCEPT ![w] = new]
    BY <1>1 DEF Goto
  <2>2. /\ new.lead = task[w].lead /\ new.event = task[w].event
        /\ new.pc = pc
    BY DEF TaskRecord
  <2>. QED  BY <2>1, <2>2
<1>2. CASE Leave(w, pc)
  <2>. DEFINE new == [task[w] EXCEPT !.pc = pc, !.seen = "new",
                                     !.verdict = "qualified"]
  <2>1. task' = [task EXCEPT ![w] = new]
    BY <1>2 DEF Leave
  <2>2. /\ new.lead = task[w].lead /\ new.event = task[w].event
        /\ new.pc = pc
    BY DEF TaskRecord
  <2>. QED  BY <2>1, <2>2
<1>. QED  BY <1>1, <1>2

\* A sale uses the chance of its auction.
LEMMA SellCounts ==
    ASSUME PipelineTypeOK, CountInv, NEW w \in Workers, NEW l \in Leads,
           l = task[w].lead, task[w] \in TaskRecord, Staged(task[w]), SellLead(w)
    PROVE  CountInv'
<1>1. PICK new : /\ task' = [task EXCEPT ![w] = new]
                 /\ new.lead = l /\ new.event = task[w].event
                 /\ new.pc = "done"
  BY GoesOn DEF SellLead
<1>2. /\ Due(l)' = Due(l) /\ Due(l) \in Nat /\ contacts[l] \in Nat
      /\ pending' = pending
      /\ \A k \in Leads : Repeats(k)' = Repeats(k) /\ Repeats(k) \in Nat
  BY DEF SellLead, PipelineTypeOK, Due, Repeats, Events, repeatVars
<1>3. /\ timeline[l] \subseteq timeline'[l]
      /\ Row(l, "sold")' = 1 /\ Row(l, "nurtured")' = Row(l, "nurtured")
      /\ \A k \in Leads \ {l} : timeline'[k] = timeline[k]
  BY RecordCounts DEF SellLead, Row, Lead
<1>4. contacts' = contacts
  BY DEF SellLead
<1>5. /\ Holds(new, l) = 0 /\ Ends(new, l) = 0
      /\ Holds(task[w], l) = 1 /\ Ends(task[w], l) = 0
  BY <1>1 DEF SellLead, At, Holds, Ends, Carries, Nurtures
<1>6. Row(l, "sold") \in {0, 1} /\ Row(l, "nurtured") \in {0, 1}
  BY DEF Row
<1>7. /\ contacts'[l] + Due(l)' + Holds(new, l) + Row(l, "sold")' + Repeats(l)
           <= contacts[l] + Due(l) + Holds(task[w], l) + Row(l, "sold")
                + Repeats(l)'
      /\ Due(l)' + Holds(new, l) + Ends(new, l) + Row(l, "sold")'
             + Row(l, "nurtured")' + Repeats(l)
           <= Due(l) + Holds(task[w], l) + Ends(task[w], l) + Row(l, "sold")
                + Row(l, "nurtured") + Repeats(l)'
  BY <1>2, <1>3, <1>4, <1>5, <1>6
<1>8. Spends(w, l, new)
  BY <1>1, <1>2, <1>3, <1>4, <1>7 DEF Spends
<1>. QED  BY <1>8, StepCounts

\* So does an outreach call, whether or not a message was sent.
LEMMA OutreachCounts ==
    ASSUME PipelineTypeOK, CountInv, NEW w \in Workers, NEW l \in Leads,
           l = task[w].lead, task[w] \in TaskRecord, Staged(task[w]), SendOutreach(w)
    PROVE  CountInv'
<1>1. PICK new : /\ task' = [task EXCEPT ![w] = new]
                 /\ new.lead = l /\ new.event = task[w].event
                 /\ new.pc = "write"
  BY GoesOn DEF SendOutreach
<1>2. /\ Due(l)' = Due(l) /\ Due(l) \in Nat /\ contacts[l] \in Nat
      /\ pending' = pending
      /\ \A k \in Leads : Repeats(k)' = Repeats(k) /\ Repeats(k) \in Nat
  BY DEF SendOutreach, PipelineTypeOK, Due, Repeats, Events, repeatVars
<1>3. /\ timeline[l] \subseteq timeline'[l]
      /\ Row(l, "sold")' = Row(l, "sold")
      /\ Row(l, "nurtured")' = Row(l, "nurtured")
      /\ \A k \in Leads \ {l} : timeline'[k] = timeline[k]
  BY DEF SendOutreach, Row, Reached, Graph!Reached
<1>4. /\ contacts'[l] \in Nat /\ contacts'[l] <= contacts[l] + 1
      /\ \A k \in Leads \ {l} : contacts'[k] = contacts[k]
  BY DEF SendOutreach, PipelineTypeOK, Lead
<1>5. /\ Holds(new, l) = 0 /\ Ends(new, l) = 1
      /\ Holds(task[w], l) = 1 /\ Ends(task[w], l) = 0
  BY <1>1 DEF SendOutreach, At, Staged, Holds, Ends, Carries, Nurtures
<1>6. Row(l, "sold") \in {0, 1} /\ Row(l, "nurtured") \in {0, 1}
  BY DEF Row
<1>7. /\ contacts'[l] + Due(l)' + Holds(new, l) + Row(l, "sold")' + Repeats(l)
           <= contacts[l] + Due(l) + Holds(task[w], l) + Row(l, "sold")
                + Repeats(l)'
      /\ Due(l)' + Holds(new, l) + Ends(new, l) + Row(l, "sold")'
             + Row(l, "nurtured")' + Repeats(l)
           <= Due(l) + Holds(task[w], l) + Ends(task[w], l) + Row(l, "sold")
                + Row(l, "nurtured") + Repeats(l)'
  BY <1>2, <1>3, <1>4, <1>5, <1>6
<1>8. Spends(w, l, new)
  BY <1>1, <1>2, <1>3, <1>4, <1>7 DEF Spends
<1>. QED  BY <1>8, StepCounts

\* The row "nurtured" is that of an outreach call.
LEMMA NurtureCounts ==
    ASSUME PipelineTypeOK, CountInv, NEW w \in Workers, NEW l \in Leads,
           l = task[w].lead, task[w] \in TaskRecord, Staged(task[w]), NurtureLead(w)
    PROVE  CountInv'
<1>1. PICK new : /\ task' = [task EXCEPT ![w] = new]
                 /\ new.lead = l /\ new.event = task[w].event
                 /\ new.pc = "done"
  BY GoesOn DEF NurtureLead
<1>2. /\ Due(l)' = Due(l) /\ Due(l) \in Nat /\ contacts[l] \in Nat
      /\ pending' = pending
      /\ \A k \in Leads : Repeats(k)' = Repeats(k) /\ Repeats(k) \in Nat
  BY DEF NurtureLead, PipelineTypeOK, Due, Repeats, Events, repeatVars
<1>3. /\ timeline[l] \subseteq timeline'[l]
      /\ Row(l, "sold")' = Row(l, "sold") /\ Row(l, "nurtured")' = 1
      /\ \A k \in Leads \ {l} : timeline'[k] = timeline[k]
  BY RecordCounts DEF NurtureLead, Row, Lead
<1>4. contacts' = contacts
  BY DEF NurtureLead
<1>5. /\ Holds(new, l) = 0 /\ Ends(new, l) = 0
      /\ Holds(task[w], l) = 0 /\ Ends(task[w], l) = 1
  BY <1>1 DEF NurtureLead, At, Handles, Holds, Ends, Carries, Nurtures
<1>6. Row(l, "sold") \in {0, 1} /\ Row(l, "nurtured") \in {0, 1}
  BY DEF Row
<1>7. /\ contacts'[l] + Due(l)' + Holds(new, l) + Row(l, "sold")' + Repeats(l)
           <= contacts[l] + Due(l) + Holds(task[w], l) + Row(l, "sold")
                + Repeats(l)'
      /\ Due(l)' + Holds(new, l) + Ends(new, l) + Row(l, "sold")'
             + Row(l, "nurtured")' + Repeats(l)
           <= Due(l) + Holds(task[w], l) + Ends(task[w], l) + Row(l, "sold")
                + Row(l, "nurtured") + Repeats(l)'
  BY <1>2, <1>3, <1>4, <1>5, <1>6
<1>8. Spends(w, l, new)
  BY <1>1, <1>2, <1>3, <1>4, <1>7 DEF Spends
<1>. QED  BY <1>8, StepCounts

\* A step of an execution spends no chance that it does not hold.
LEMMA WorkerStepCounts ==
    ASSUME PipelineInv, CountInv, NEW w \in Workers, WorkerStep(w)
    PROVE  CountInv'
<1>1. ~At(w, "idle")
  BY DEF WorkerStep, LoadRow, EnrichLead, QualifyLead, PushResult,
         EnterAuction, HoldLead, RefuseLead, CommitRefusal, RecordAuctioned,
         SellLead, SkipDelivery, FailDelivery, CommitFailure, RecordUnsold,
         AnnounceUnsold, CloseUnsold, SendOutreach, NurtureLead, Finish, At
<1>2. /\ task[w] \in TaskRecord /\ Staged(task[w]) /\ PipelineTypeOK
  BY <1>1, BusyTask DEF PipelineInv
<1>3. PICK l \in Leads : l = Lead(w) /\ l = task[w].lead
  BY <1>1, BusyTask DEF Lead
<1>4. task[w].event \in Events /\ task[w].pc = task[w].pc
  BY <1>2 DEF TaskRecord
<1>5. CASE LoadRow(w)
  <2>1. PICK new : /\ task' = [task EXCEPT ![w] = new]
                   /\ new = [task[w] EXCEPT
                        !.pc = IF Handles(w, {"unsold", "rejected"})
                               THEN "contact" ELSE "write",
                        !.seen = status[Lead(w)]]
    BY <1>5 DEF LoadRow
  <2>2. /\ new.lead = l /\ new.event = task[w].event
        /\ new.pc = IF Handles(w, {"unsold", "rejected"})
                    THEN "contact" ELSE "write"
    BY <1>2, <1>3, <2>1 DEF TaskRecord
  <2>3. Carries(task[w]) /\ ~Nurtures(new)
    BY <1>4, <1>5, <2>2 DEF LoadRow, At, Handles, Carries, Nurtures, Events
  <2>4. UNCHANGED <<timeline, pending, contacts, failures, replays>>
    BY <1>5 DEF LoadRow, leadVars, repeatVars
  <2>. QED  BY <1>2, <1>3, <2>1, <2>2, <2>3, <2>4, QuietCounts
<1>6. CASE EnrichLead(w)
  <2>1. PICK new : /\ task' = [task EXCEPT ![w] = new]
                   /\ new.lead = l /\ new.event = task[w].event
                   /\ new.pc = "push"
    BY <1>2, <1>3, <1>6, GoesOn DEF EnrichLead
  <2>2. \E from, to : to \notin {"sold", "nurtured"}
                     /\ RecordTransition(l, from, to)
    BY <1>3, <1>6 DEF EnrichLead
  <2>3. ~Carries(new) \/ Carries(task[w])
    BY <1>6, <2>1 DEF EnrichLead, At, Handles, Carries
  <2>4. ~Nurtures(new)
    BY <2>1 DEF Nurtures
  <2>. QED
    BY <1>2, <1>3, <1>6, <2>1, <2>2, <2>3, <2>4, QuietCounts
       DEF EnrichLead, leadVars, repeatVars
<1>7. CASE QualifyLead(w)
  <2>1. PICK verdict \in {"qualified", "rejected"} :
            /\ RecordTransition(Lead(w), "enriched", verdict)
            /\ task' = [task EXCEPT ![w].pc = "push", ![w].seen = "new",
                                    ![w].verdict = verdict]
    BY <1>7 DEF QualifyLead
  <2>2. PICK new : /\ task' = [task EXCEPT ![w] = new]
                   /\ new = [task[w] EXCEPT !.pc = "push", !.seen = "new",
                                            !.verdict = verdict]
    BY <2>1
  <2>3. new.lead = l /\ new.pc = "push"
    BY <1>2, <1>3, <2>2 DEF TaskRecord
  <2>4. Carries(task[w]) /\ ~Nurtures(new)
    BY <1>7, <2>3 DEF QualifyLead, At, Handles, Carries, Nurtures
  <2>5. \E from, to : to \notin {"sold", "nurtured"}
                     /\ RecordTransition(l, from, to)
    BY <1>3, <2>1
  <2>6. UNCHANGED <<pending, contacts, failures, replays>>
    BY <1>7 DEF QualifyLead, repeatVars
  <2>. QED  BY <1>2, <1>3, <2>2, <2>3, <2>4, <2>5, <2>6, QuietCounts
<1>8. CASE EnterAuction(w)
  <2>1. PICK new : /\ task' = [task EXCEPT ![w] = new]
                   /\ new.lead = l /\ new.event = task[w].event
                   /\ new.pc = (IF "sold" \in Reached(Lead(w)) THEN "done" ELSE "mark")
    BY <1>2, <1>3, <1>8, GoesOn DEF EnterAuction
  <2>3. ~Carries(new) \/ Carries(task[w])
    BY <1>8, <2>1 DEF EnterAuction, At, Handles, Carries
  <2>4. ~Nurtures(new)
    BY <2>1 DEF Nurtures
  <2>. QED
    BY <1>2, <1>3, <1>8, <2>1, <2>3, <2>4, QuietCounts
       DEF EnterAuction, leadVars, repeatVars
<1>9. CASE HoldLead(w)
  <2>1. PICK new : /\ task' = [task EXCEPT ![w] = new]
                   /\ new.lead = l /\ new.event = task[w].event
                   /\ new.pc = "done"
    BY <1>2, <1>3, <1>9, GoesOn DEF HoldLead
  <2>2. \E from, to : to \notin {"sold", "nurtured"}
                     /\ RecordTransition(l, from, to)
    BY <1>3, <1>9 DEF HoldLead
  <2>3. ~Carries(new) \/ Carries(task[w])
    BY <1>9, <2>1 DEF HoldLead, At, Handles, Carries
  <2>4. ~Nurtures(new)
    BY <2>1 DEF Nurtures
  <2>. QED
    BY <1>2, <1>3, <1>9, <2>1, <2>2, <2>3, <2>4, QuietCounts
       DEF HoldLead, leadVars, repeatVars
<1>10. CASE CommitRefusal(w)
  <2>1. PICK new : /\ task' = [task EXCEPT ![w] = new]
                   /\ new.lead = l /\ new.event = task[w].event
                   /\ new.pc = "done"
    BY <1>2, <1>3, <1>10, GoesOn DEF CommitRefusal
  <2>2. \E from, to : to \notin {"sold", "nurtured"}
                     /\ RecordTransition(l, from, to)
    BY <1>3, <1>10 DEF CommitRefusal
  <2>3. ~Carries(new) \/ Carries(task[w])
    BY <1>10, <2>1 DEF CommitRefusal, At, Handles, Carries
  <2>4. ~Nurtures(new)
    BY <2>1 DEF Nurtures
  <2>. QED
    BY <1>2, <1>3, <1>10, <2>1, <2>2, <2>3, <2>4, QuietCounts
       DEF CommitRefusal, leadVars, repeatVars
<1>11. CASE RecordAuctioned(w)
  <2>1. PICK new : /\ task' = [task EXCEPT ![w] = new]
                   /\ new.lead = l /\ new.event = task[w].event
                   /\ new.pc = "outcome"
    BY <1>2, <1>3, <1>11, GoesOn DEF RecordAuctioned
  <2>2. \E from, to : to \notin {"sold", "nurtured"}
                     /\ RecordTransition(l, from, to)
    BY <1>3, <1>11 DEF RecordAuctioned
  <2>3. ~Carries(new) \/ Carries(task[w])
    BY <1>11, <2>1 DEF RecordAuctioned, At, Handles, Carries
  <2>4. ~Nurtures(new)
    BY <2>1 DEF Nurtures
  <2>. QED
    BY <1>2, <1>3, <1>11, <2>1, <2>2, <2>3, <2>4, QuietCounts
       DEF RecordAuctioned, leadVars, repeatVars
<1>12. CASE SkipDelivery(w)
  <2>1. PICK new : /\ task' = [task EXCEPT ![w] = new]
                   /\ new.lead = l /\ new.event = task[w].event
                   /\ new.pc = "done"
    BY <1>2, <1>3, <1>12, GoesOn DEF SkipDelivery
  <2>3. ~Carries(new) \/ Carries(task[w])
    BY <1>12, <2>1 DEF SkipDelivery, At, Handles, Carries
  <2>4. ~Nurtures(new)
    BY <2>1 DEF Nurtures
  <2>. QED
    BY <1>2, <1>3, <1>12, <2>1, <2>3, <2>4, QuietCounts
       DEF SkipDelivery, leadVars, repeatVars
<1>13. CASE CommitFailure(w)
  <2>1. PICK new : /\ task' = [task EXCEPT ![w] = new]
                   /\ new.lead = l /\ new.event = task[w].event
                   /\ new.pc = "done"
    BY <1>2, <1>3, <1>13, GoesOn DEF CommitFailure
  <2>2. \E from, to : to \notin {"sold", "nurtured"}
                     /\ RecordTransition(l, from, to)
    BY <1>3, <1>13 DEF CommitFailure
  <2>3. ~Carries(new) \/ Carries(task[w])
    BY <1>13, <2>1 DEF CommitFailure, At, Handles, Carries
  <2>4. ~Nurtures(new)
    BY <2>1 DEF Nurtures
  <2>. QED
    BY <1>2, <1>3, <1>13, <2>1, <2>2, <2>3, <2>4, QuietCounts
       DEF CommitFailure, leadVars, repeatVars
<1>14. CASE RecordUnsold(w)
  <2>1. PICK new : /\ task' = [task EXCEPT ![w] = new]
                   /\ new.lead = l /\ new.event = task[w].event
                   /\ new.pc = "announce"
    BY <1>2, <1>3, <1>14, GoesOn DEF RecordUnsold
  <2>2. \E from, to : to \notin {"sold", "nurtured"}
                     /\ RecordTransition(l, from, to)
    BY <1>3, <1>14 DEF RecordUnsold
  <2>3. ~Carries(new) \/ Carries(task[w])
    BY <1>14, <2>1 DEF RecordUnsold, At, Handles, Carries
  <2>4. ~Nurtures(new)
    BY <2>1 DEF Nurtures
  <2>. QED
    BY <1>2, <1>3, <1>14, <2>1, <2>2, <2>3, <2>4, QuietCounts
       DEF RecordUnsold, leadVars, repeatVars
<1>15. CASE CloseUnsold(w)
  <2>1. PICK new : /\ task' = [task EXCEPT ![w] = new]
                   /\ new.lead = l /\ new.event = task[w].event
                   /\ new.pc = "done"
    BY <1>2, <1>3, <1>15, GoesOn DEF CloseUnsold
  <2>3. ~Carries(new) \/ Carries(task[w])
    BY <1>15, <2>1 DEF CloseUnsold, At, Handles, Carries
  <2>4. ~Nurtures(new)
    BY <2>1 DEF Nurtures
  <2>. QED
    BY <1>2, <1>3, <1>15, <2>1, <2>3, <2>4, QuietCounts
       DEF CloseUnsold, leadVars, repeatVars
<1>16. CASE Finish(w)
  <2>1. ~Carries(IdleTask) /\ ~Nurtures(IdleTask)
    BY DEF IdleTask, Carries, Nurtures
  <2>. QED
    BY <1>2, <1>3, <1>16, <2>1, QuietCounts
       DEF Finish, leadVars, repeatVars
<1>17. CASE PushResult(w)
  <2>1. PICK e \in Events : Push(l, e)
    BY <1>2, <1>3, <1>4, <1>17 DEF PushResult, TaskRecord, Events
  <2>2. PICK new : /\ task' = [task EXCEPT ![w] = new]
                   /\ new.pc \in {"done"}
    BY <1>2, <1>17, GoesOn DEF PushResult
  <2>3. Carries(task[w]) /\ ~Carries(new) /\ ~Nurtures(new)
    BY <1>17, <2>2 DEF PushResult, At, Carries, Nurtures
  <2>. QED
    BY <1>2, <1>3, <1>17, <2>1, <2>2, <2>3, PushingCounts
       DEF PushResult, leadVars, repeatVars
<1>18. CASE RefuseLead(w)
  <2>1. PICK e \in Events : Push(l, e)
    BY <1>2, <1>3, <1>4, <1>18 DEF RefuseLead, TaskRecord, Events
  <2>2. PICK new : /\ task' = [task EXCEPT ![w] = new]
                   /\ new.pc \in {"refuse"}
    BY <1>2, <1>18, GoesOn DEF RefuseLead
  <2>3. Carries(task[w]) /\ ~Carries(new) /\ ~Nurtures(new)
    BY <1>18, <2>2 DEF RefuseLead, At, Carries, Nurtures
  <2>. QED
    BY <1>2, <1>3, <1>18, <2>1, <2>2, <2>3, PushingCounts
       DEF RefuseLead, leadVars, repeatVars
<1>19. CASE FailDelivery(w)
  <2>1. PICK e \in Events : Push(l, e)
    BY <1>2, <1>3, <1>4, <1>19 DEF FailDelivery, TaskRecord, Events
  <2>2. PICK new : /\ task' = [task EXCEPT ![w] = new]
                   /\ new.pc \in {"lose"}
    BY <1>2, <1>19, GoesOn DEF FailDelivery
  <2>3. Carries(task[w]) /\ ~Carries(new) /\ ~Nurtures(new)
    BY <1>19, <2>2 DEF FailDelivery, At, Carries, Nurtures
  <2>. QED
    BY <1>2, <1>3, <1>19, <2>1, <2>2, <2>3, PushingCounts
       DEF FailDelivery, leadVars, repeatVars
<1>20. CASE AnnounceUnsold(w)
  <2>1. PICK e \in Events : Push(l, e)
    BY <1>2, <1>3, <1>4, <1>20 DEF AnnounceUnsold, TaskRecord, Events
  <2>2. PICK new : /\ task' = [task EXCEPT ![w] = new]
                   /\ new.pc \in {"close", "done"}
    BY <1>2, <1>20, GoesOn DEF AnnounceUnsold
  <2>3. Carries(task[w]) /\ ~Carries(new) /\ ~Nurtures(new)
    BY <1>20, <2>2 DEF AnnounceUnsold, At, Carries, Nurtures
  <2>. QED
    BY <1>2, <1>3, <1>20, <2>1, <2>2, <2>3, PushingCounts
       DEF AnnounceUnsold, leadVars, repeatVars
<1>21. CASE SellLead(w) \/ SendOutreach(w) \/ NurtureLead(w)
  BY <1>2, <1>3, <1>21, SellCounts, OutreachCounts, NurtureCounts
<1>. QED
  BY <1>5, <1>6, <1>7, <1>8, <1>9, <1>10, <1>11, <1>12, <1>13, <1>14, <1>15,
     <1>16, <1>17, <1>18, <1>19, <1>20, <1>21
     DEF WorkerStep

\* The execution that is started holds the chance of its event.
LEMMA TakeCounts ==
    ASSUME PipelineTypeOK, CountInv, NEW w \in Workers, NEW l \in Leads,
           NEW e \in Events, Take(w, l, e)
    PROVE  CountInv'
<1>1. PICK new : /\ task' = [task EXCEPT ![w] = new]
                 /\ new = [IdleTask EXCEPT !.pc = "load", !.lead = l,
                             !.event = e, !.left = Retries[e]]
  BY DEF Take
<1>2. new.pc = "load" /\ new.lead = l /\ new.event = e
  BY <1>1 DEF IdleTask
<1>3. /\ Due(l)' = Due(l) - 1 /\ Due(l) \in Nat
      /\ \A k \in Leads \ {l} : pending'[k] = pending[k]
  BY DEF Take, PipelineTypeOK, Due, Events
<1>4. /\ UNCHANGED <<timeline, contacts>> /\ contacts[l] \in Nat
      /\ \A k \in Leads : Repeats(k)' = Repeats(k) /\ Repeats(k) \in Nat
  BY DEF Take, leadVars, repeatVars, PipelineTypeOK, Repeats
<1>5. Row(l, "sold")' = Row(l, "sold") /\ Row(l, "nurtured")' = Row(l, "nurtured")
  BY <1>4 DEF Row, Reached, Graph!Reached
<1>6. Row(l, "sold") \in Int /\ Row(l, "nurtured") \in Int
  BY DEF Row
<1>7. ~Carries(task[w]) /\ ~Nurtures(task[w]) /\ Carries(new) /\ ~Nurtures(new)
  BY <1>2 DEF Take, At, Carries, Nurtures
<1>8. /\ Holds(new, l) = 1 /\ Ends(new, l) = 0
      /\ Holds(task[w], l) = 0 /\ Ends(task[w], l) = 0
  BY <1>2, <1>7 DEF Holds, Ends
<1>9. /\ contacts'[l] + Due(l)' + Holds(new, l) + Row(l, "sold")' + Repeats(l)
           <= contacts[l] + Due(l) + Holds(task[w], l) + Row(l, "sold")
                + Repeats(l)'
      /\ Due(l)' + Holds(new, l) + Ends(new, l) + Row(l, "sold")'
             + Row(l, "nurtured")' + Repeats(l)
           <= Due(l) + Holds(task[w], l) + Ends(task[w], l) + Row(l, "sold")
                + Row(l, "nurtured") + Repeats(l)'
  BY <1>3, <1>4, <1>5, <1>6, <1>8
<1>10. Spends(w, l, new)
  BY <1>1, <1>2, <1>3, <1>4, <1>7, <1>9 DEF Spends
<1>. QED  BY <1>10, StepCounts

\* A failure grants the chance that the next attempt holds.
LEMMA FailCounts ==
    ASSUME PipelineInv, CountInv, NEW w \in Workers, Fail(w)
    PROVE  CountInv'
<1>1. PipelineTypeOK /\ ~At(w, "idle")
  BY DEF PipelineInv, Fail
<1>2. PICK l \in Leads : l = Lead(w) /\ l = task[w].lead
  BY <1>1, BusyTask DEF Lead
<1>3. PICK new : /\ task' = [task EXCEPT ![w] = new]
                 /\ new = IF task[w].left > 0
                          THEN [IdleTask EXCEPT !.pc = "load", !.lead = l,
                                  !.event = task[w].event,
                                  !.left = task[w].left - 1]
                          ELSE IdleTask
  BY <1>2 DEF Fail
<1>4. ~Nurtures(new) /\ (Carries(new) => new.lead = l)
  BY <1>3 DEF IdleTask, Carries, Nurtures
<1>5. /\ UNCHANGED <<timeline, pending, contacts>>
      /\ contacts[l] \in Nat /\ Due(l) \in Nat /\ Due(l)' = Due(l)
      /\ Repeats(l) \in Nat /\ Repeats(l)' = Repeats(l) + 1
      /\ \A k \in Leads \ {l} : Repeats(k)' = Repeats(k)
  <2>1. /\ UNCHANGED <<timeline, pending, contacts, replays>>
        /\ failures' = [failures EXCEPT ![l] = @ + 1]
    BY <1>2 DEF Fail
  <2>2. /\ contacts[l] \in Nat /\ Due(l) \in Nat /\ Due(l)' = Due(l)
    BY <1>1, <2>1 DEF PipelineTypeOK, Due, Events
  <2>3. /\ Repeats(l) \in Nat /\ Repeats(l)' = Repeats(l) + 1
        /\ \A k \in Leads \ {l} : Repeats(k)' = Repeats(k)
    BY <1>1, <2>1, RepeatCounts
  <2>. QED  BY <2>1, <2>2, <2>3
<1>6. Row(l, "sold")' = Row(l, "sold") /\ Row(l, "nurtured")' = Row(l, "nurtured")
  BY <1>5 DEF Row, Reached, Graph!Reached
<1>7. Row(l, "sold") \in Int /\ Row(l, "nurtured") \in Int
  BY DEF Row
<1>8. /\ Holds(new, l) \in {0, 1} /\ Ends(new, l) = 0
      /\ Holds(task[w], l) \in {0, 1} /\ Ends(task[w], l) \in {0, 1}
  BY <1>4 DEF Holds, Ends
<1>9. /\ contacts'[l] + Due(l)' + Holds(new, l) + Row(l, "sold")' + Repeats(l)
           <= contacts[l] + Due(l) + Holds(task[w], l) + Row(l, "sold")
                + Repeats(l)'
      /\ Due(l)' + Holds(new, l) + Ends(new, l) + Row(l, "sold")'
             + Row(l, "nurtured")' + Repeats(l)
           <= Due(l) + Holds(task[w], l) + Ends(task[w], l) + Row(l, "sold")
                + Row(l, "nurtured") + Repeats(l)'
  BY <1>5, <1>6, <1>7, <1>8
<1>10. Spends(w, l, new)
  BY <1>2, <1>3, <1>4, <1>5, <1>9 DEF Spends
<1>. QED  BY <1>1, <1>10, StepCounts

\* A capture or a replay grants the chance that its event holds.
LEMMA GrantCounts ==
    ASSUME PipelineTypeOK, CountInv, NEW l \in Leads,
           \/ Capture(l)
           \/ \E checkpoint \in Events : Replay(l, checkpoint)
    PROVE  CountInv'
<1>1. PICK e \in Events : Push(l, e)
  BY DEF Capture, Replay, Events
<1>2. /\ Due(l)' = Due(l) + 1 /\ Due(l) \in Nat
      /\ \A k \in Leads \ {l} : pending'[k] = pending[k]
  BY <1>1, PushCounts DEF PipelineTypeOK, Due, Events
<1>3. UNCHANGED <<task, contacts>> /\ contacts[l] \in Nat
  BY DEF Capture, Replay, PipelineTypeOK
<1>4. \A k : /\ Cardinality(Carriers(k))' = Cardinality(Carriers(k))
             /\ Cardinality(Nurturers(k))' = Cardinality(Nurturers(k))
             /\ Cardinality(Carriers(k)) \in Nat
             /\ Cardinality(Nurturers(k)) \in Nat
  BY <1>3, HoldersAreFinite DEF Carriers, Nurturers
<1>5. /\ Granted(l) \in Nat /\ Granted(l)' = Granted(l) + 1
      /\ Row(l, "sold")' = Row(l, "sold")
      /\ Row(l, "nurtured")' = Row(l, "nurtured")
      /\ \A k \in Leads \ {l} : /\ timeline'[k] = timeline[k]
                               /\ Repeats(k)' = Repeats(k)
  <2>1. CASE Capture(l)
    <3>1. /\ Reached(l)' = Reached(l) \cup {"captured"}
          /\ timeline[l] = {} /\ timeline'[l] # {}
          /\ \A k \in Leads \ {l} : timeline'[k] = timeline[k]
      BY <2>1, RecordCounts DEF Capture
    <3>2. \A k \in Leads : Repeats(k)' = Repeats(k) /\ Repeats(k) \in Nat
      BY <2>1 DEF Capture, repeatVars, Repeats, PipelineTypeOK
    <3>. QED  BY <3>1, <3>2 DEF Granted, Started, Row
  <2>2. CASE \E checkpoint \in Events : Replay(l, checkpoint)
    <3>1. /\ Repeats(l) \in Nat /\ Repeats(l)' = Repeats(l) + 1
          /\ \A k \in Leads \ {l} : Repeats(k)' = Repeats(k)
          /\ UNCHANGED timeline
      BY <2>2, RepeatCounts DEF Replay
    <3>2. Row(l, "sold")' = Row(l, "sold")
          /\ Row(l, "nurtured")' = Row(l, "nurtured")
      BY <3>1 DEF Row, Reached, Graph!Reached
    <3>3. Started(l) \in Nat /\ Started(l)' = Started(l)
      BY <3>1 DEF Started
    <3>. QED  BY <3>1, <3>2, <3>3 DEF Granted
  <2>. QED  BY <2>1, <2>2
<1>6. Row(l, "sold") \in Int /\ Row(l, "nurtured") \in Int
  BY DEF Row
<1>7. ContactsCounted(l) /\ FatesCounted(l)
  BY DEF CountInv
<1>8. ContactsCounted(l)' /\ FatesCounted(l)'
  BY <1>2, <1>3, <1>4, <1>5, <1>6, <1>7
     DEF ContactsCounted, FatesCounted, Chances
<1>. QED  BY <1>2, <1>3, <1>4, <1>5, <1>8, OtherCounts

LEMMA NextCounts == PipelineInv /\ CountInv /\ [PipelineNext]_vars => CountInv'
<1>. SUFFICES ASSUME PipelineInv, CountInv, [PipelineNext]_vars
              PROVE  CountInv'
  OBVIOUS
<1>1. CASE UNCHANGED vars
  BY <1>1 DEF vars, leadVars, repeatVars, CountInv, ContactsCounted,
              FatesCounted, Chances, Granted, Due, Carriers, Nurturers, Row,
              Started, Repeats, Reached, Graph!Reached
<1>2. PipelineTypeOK
  BY DEF PipelineInv
<1>. QED
  BY <1>1, <1>2, WorkerStepCounts, TakeCounts, FailCounts, GrantCounts
     DEF PipelineNext, Deliver

LEMMA InitCounts == PipelineInit => CountInv
<1>. SUFFICES ASSUME PipelineInit, NEW l \in Leads
              PROVE  ContactsCounted(l) /\ FatesCounted(l)
  BY DEF CountInv
<1>1. Carriers(l) = {} /\ Nurturers(l) = {}
  BY DEF PipelineInit, Carriers, Nurturers, Carries, Nurtures, IdleTask
<1>2. Cardinality(Carriers(l)) = 0 /\ Cardinality(Nurturers(l)) = 0
  BY <1>1, FS_EmptySet
<1>3. Due(l) = 0 /\ Repeats(l) = 0 /\ contacts[l] = 0
  BY DEF PipelineInit, Due, Repeats, Events
<1>4. Row(l, "sold") = 0 /\ Row(l, "nurtured") = 0 /\ Started(l) = 0
  BY DEF PipelineInit, Row, Reached, Graph!Reached, Started
<1>. QED  BY <1>2, <1>3, <1>4
             DEF ContactsCounted, FatesCounted, Chances, Granted

\* The counts never exceed what was granted.
THEOREM ChancesAreCounted == PipelineSpec => []CountInv
BY InitCounts, NextCounts, PipelineInvariant, PTL DEF PipelineSpec

\* The outreach call of nurture_lead is made inside a transaction that may be
\* rolled back and repeated: for any number of overlapping executions, each
\* failure or replay costs the owner at most one more message.
THEOREM ContactsAreBounded == PipelineSpec => []ContactsBounded
<1>1. PipelineInv /\ CountInv => ContactsBounded
  <2>. SUFFICES ASSUME PipelineInv, CountInv, NEW l \in Leads
                PROVE  contacts[l] <= 1 + Repeats(l)
    BY DEF ContactsBounded
  <2>1. /\ contacts[l] \in Nat /\ Repeats(l) \in Nat /\ Due(l) \in Nat
        /\ Cardinality(Carriers(l)) \in Nat
        /\ Row(l, "sold") \in Nat /\ Started(l) \in {0, 1}
    BY HoldersAreFinite DEF PipelineInv, PipelineTypeOK, Repeats, Due, Events,
                            Row, Started
  <2>. QED  BY <2>1 DEF CountInv, ContactsCounted, Chances, Granted
<1>. QED  BY <1>1, PipelineInvariant, ChancesAreCounted, PTL

\* A lead that went through without a failure or a replay is not both sold and
\* nurtured, and the owner of a sold one is not contacted.
THEOREM LeadHasOneFate == PipelineSpec => []OneFate
<1>1. PipelineInv /\ CountInv => OneFate
  <2>. SUFFICES ASSUME PipelineInv, CountInv, NEW l \in Leads,
                       Repeats(l) = 0, "sold" \in Reached(l)
                PROVE  "nurtured" \notin Reached(l) /\ contacts[l] = 0
    BY DEF OneFate
  <2>1. /\ contacts[l] \in Nat /\ Due(l) \in Nat
        /\ Cardinality(Carriers(l)) \in Nat
        /\ Cardinality(Nurturers(l)) \in Nat
        /\ Row(l, "sold") = 1 /\ Started(l) \in {0, 1}
    BY HoldersAreFinite DEF PipelineInv, PipelineTypeOK, Due, Events, Row,
                            Started
  <2>2. contacts[l] = 0
    <3>1. contacts[l] + (Due(l) + Cardinality(Carriers(l)) + 1) <= Started(l) + 0
      BY <2>1 DEF CountInv, ContactsCounted, Chances, Granted
    <3>. QED  BY <2>1, <3>1
  <2>3. Row(l, "nurtured") # 1
    <3>1. Row(l, "nurtured") \in {0, 1}
      BY DEF Row
    <3>. QED  BY <2>1, <3>1 DEF CountInv, FatesCounted, Chances, Granted
  <2>. QED  BY <2>2, <2>3 DEF Row
<1>. QED  BY <1>1, PipelineInvariant, ChancesAreCounted, PTL

-----------------------------------------------------------------------------
(* A lead that nothing was repeated for goes through the states in order:  *)
(* while it waits to be enriched or qualified it has not been further.     *)

Unenriched(t) == t.event = "captured" /\ t.pc \in {"load", "write"}

Unqualified(t) ==
    \/ t.event = "captured" /\ t.pc = "push"
    \/ t.event = "enriched" /\ t.pc \in {"load", "write"}

AwaitsEnrichment(l) ==
    \/ pending[l]["captured"] > 0
    \/ \E w \in Workers : task[w].lead = l /\ Unenriched(task[w])

AwaitsQualification(l) ==
    \/ pending[l]["enriched"] > 0
    \/ \E w \in Workers : task[w].lead = l /\ Unqualified(task[w])

Refused(l) == \E w \in Workers : task[w].lead = l /\ task[w].pc = "refuse"

Young(l) ==
    /\ AwaitsEnrichment(l) =>
          Reached(l) \subseteq {"captured"} /\ ~Refused(l)
    /\ AwaitsQualification(l) =>
          Reached(l) \subseteq {"captured", "enriched"} /\ ~Refused(l)

YoungInv ==
    \A l \in Leads : /\ timeline[l] = {} => claimed[l] = {}
                     /\ Repeats(l) = 0 => Young(l)

\* The execution w moves, for lead l.
Touches(w, l) ==
    /\ task'[w].lead \in {l, NoLead}
    /\ \A v \in Workers \ {w} : task'[v] = task[v]
    /\ \A k \in Leads \ {l} :
          /\ pending'[k] = pending[k] /\ timeline'[k] = timeline[k]
          /\ claimed'[k] = claimed[k] /\ Repeats(k)' = Repeats(k)

\* Only the lead it works for has to be looked at.
LEMMA TouchedYoung ==
    ASSUME YoungInv, NEW w \in Workers, NEW l \in Leads, Touches(w, l),
           timeline'[l] # {}, Repeats(l)' = 0 => Young(l)'
    PROVE  YoungInv'
<1>1. ASSUME NEW k \in Leads \ {l}, Repeats(k) = 0
      PROVE  Young(k)'
  <2>1. task'[w].lead # k
    BY PipelineAssumption DEF Touches
  <2>2. /\ AwaitsEnrichment(k)' => AwaitsEnrichment(k)
        /\ AwaitsQualification(k)' => AwaitsQualification(k)
        /\ Refused(k)' => Refused(k)
    BY <2>1 DEF Touches, AwaitsEnrichment, AwaitsQualification, Refused,
                Unenriched, Unqualified
  <2>3. Reached(k)' = Reached(k)
    BY DEF Touches, Reached, Graph!Reached
  <2>. QED  BY <1>1, <2>2, <2>3 DEF YoungInv, Young
<1>. QED  BY <1>1 DEF YoungInv, Touches

\* Nothing is recorded, and nothing waits that did not wait before.
LEMMA QuietYoung ==
    ASSUME NEW w \in Workers, NEW l \in Leads, Touches(w, l), Young(l),
           task[w].lead = l, timeline'[l] = timeline[l],
           pending'[l]["captured"] > 0 => pending[l]["captured"] > 0,
           pending'[l]["enriched"] > 0 =>
              pending[l]["enriched"] > 0 \/ Unqualified(task[w]),
           Unenriched(task'[w]) => Unenriched(task[w]),
           Unqualified(task'[w]) => Unqualified(task[w]),
           task'[w].pc # "refuse"
    PROVE  Young(l)'
<1>1. /\ AwaitsEnrichment(l)' => AwaitsEnrichment(l)
      /\ AwaitsQualification(l)' => AwaitsQualification(l)
      /\ Refused(l)' => Refused(l)
  BY DEF Touches, AwaitsEnrichment, AwaitsQualification, Refused, Unenriched,
         Unqualified
<1>2. Reached(l)' = Reached(l)
  BY DEF Reached, Graph!Reached
<1>. QED  BY <1>1, <1>2 DEF Young

\* An execution that holds a chance of a lead that was granted one is alone.
LEMMA HoldsTheChance ==
    ASSUME PipelineTypeOK, CountInv, NEW w \in Workers, NEW l \in Leads,
           task[w].lead = l, Repeats(l) = 0,
           Carries(task[w]) \/ Nurtures(task[w])
    PROVE  /\ \A e \in Events : pending[l][e] = 0
           /\ \A v \in Workers \ {w} : task[v].lead = l => ~Carries(task[v])
<1>1. /\ Cardinality(Carriers(l)) \in Nat /\ Cardinality(Nurturers(l)) \in Nat
      /\ IsFiniteSet(Carriers(l)) /\ IsFiniteSet(Nurturers(l))
  BY HoldersAreFinite
<1>2. /\ pending[l] \in [Events -> Nat] /\ Due(l) \in Nat
      /\ Row(l, "sold") \in {0, 1} /\ Row(l, "nurtured") \in {0, 1}
      /\ Started(l) \in {0, 1}
  BY DEF PipelineTypeOK, Due, Events, Row, Started
<1>3. Cardinality(Nurturers(l)) + Due(l) + Cardinality(Carriers(l)) <= 1
  <2>1. Cardinality(Nurturers(l)) + Row(l, "nurtured")
          + (Due(l) + Cardinality(Carriers(l)) + Row(l, "sold"))
            <= Started(l) + 0
    BY DEF CountInv, FatesCounted, Chances, Granted
  <2>. QED  BY <1>1, <1>2, <2>1
<1>4. /\ Carriers(l) # {} => Cardinality(Carriers(l)) >= 1
      /\ Nurturers(l) # {} => Cardinality(Nurturers(l)) >= 1
  BY <1>1, FS_EmptySet
<1>5. Carriers(l) # {} \/ Nurturers(l) # {}
  BY DEF Carriers, Nurturers
<1>6. Due(l) = 0
  BY <1>1, <1>2, <1>3, <1>4, <1>5
<1>7. \A e \in Events : pending[l][e] = 0
  <2>1. \A e \in Events : pending[l][e] \in Nat
    BY <1>2
  <2>2. PICK c, e, q, u, r \in Nat :
            /\ c = pending[l]["captured"] /\ e = pending[l]["enriched"]
            /\ q = pending[l]["qualified"] /\ u = pending[l]["unsold"]
            /\ r = pending[l]["rejected"]
    BY <2>1 DEF Events
  <2>3. c + e + q + u + r = 0
    BY <1>6, <2>2 DEF Due
  <2>4. c = 0 /\ e = 0 /\ q = 0 /\ u = 0 /\ r = 0
    BY <2>3
  <2>. QED  BY <2>2, <2>4 DEF Events
<1>8. ASSUME NEW v \in Workers \ {w}, task[v].lead = l, Carries(task[v])
      PROVE  FALSE
  <2>1. v \in Carriers(l)
    BY <1>8 DEF Carriers
  <2>2. Cardinality(Carriers(l)) = 1 /\ Cardinality(Nurturers(l)) = 0
    BY <1>1, <1>2, <1>3, <1>4, <2>1
  <2>3. Nurturers(l) = {}
    BY <1>1, <2>2, FS_EmptySet
  <2>4. w \in Carriers(l)
    BY <2>3 DEF Carriers, Nurturers
  <2>5. PICK S : S = Carriers(l) /\ IsFiniteSet(S) /\ Cardinality(S) = 1
    BY <1>1, <2>2
  <2>6. IsFiniteSet(S \ {v}) /\ Cardinality(S \ {v}) = 0
    BY <2>1, <2>5, FS_RemoveElement
  <2>7. S \ {v} = {}
    BY <2>6, FS_EmptySet
  <2>. QED  BY <2>4, <2>5, <2>7
<1>. QED  BY <1>7, <1>8

\* When such an execution goes past qualify_lead, nothing waits any more.
LEMMA LastYoung ==
    ASSUME PipelineTypeOK, CountInv, NEW w \in Workers, NEW l \in Leads,
           Touches(w, l), task[w].lead = l, Repeats(l) = 0,
           Carries(task[w]) \/ Nurtures(task[w]),
           pending'[l]["captured"] = pending[l]["captured"],
           pending'[l]["enriched"] = pending[l]["enriched"],
           ~Unenriched(task'[w]), ~Unqualified(task'[w])
    PROVE  Young(l)'
<1>1. /\ pending[l]["captured"] = 0 /\ pending[l]["enriched"] = 0
      /\ \A v \in Workers \ {w} : task[v].lead = l => ~Carries(task[v])
  BY HoldsTheChance DEF Events
<1>2. ~AwaitsEnrichment(l)' /\ ~AwaitsQualification(l)'
  BY <1>1 DEF Touches, AwaitsEnrichment, AwaitsQualification, Carries,
              Unenriched, Unqualified
<1>. QED  BY <1>2 DEF Young

\* A refusal or a failed delivery is committed when nothing waits.
LEMMA LateYoung ==
    ASSUME PipelineInv, NEW w \in Workers, NEW l \in Leads, Touches(w, l),
           Young(l), task[w].lead = l, task[w].pc \in {"refuse", "lose"},
           pending' = pending, task'[w].pc = "done"
    PROVE  Young(l)'
<1>1. task[w].pc = "lose" => "auctioned" \in Reached(l)
  BY BusyTask DEF At, Staged
<1>2. ~AwaitsEnrichment(l) /\ ~AwaitsQualification(l)
  BY <1>1 DEF Young, Refused
<1>3. ~AwaitsEnrichment(l)' /\ ~AwaitsQualification(l)'
  BY <1>2 DEF Touches, AwaitsEnrichment, AwaitsQualification, Unenriched,
              Unqualified
<1>. QED  BY <1>3 DEF Young

\* A step of an execution is one for its lead, and repeats nothing.
LEMMA WorkerTouches ==
    ASSUME PipelineInv, NEW w \in Workers, NEW l \in Leads, l = task[w].lead,
           task[w] \in TaskRecord, WorkerStep(w)
    PROVE  /\ Touches(w, l) /\ timeline[l] \subseteq timeline'[l]
           /\ \A k \in Leads : Repeats(k)' = Repeats(k)
<1>1. task \in [Workers -> TaskRecord] /\ PipelineTypeOK
  BY DEF PipelineInv, PipelineTypeOK
<1>2. Lead(w) = l
  BY DEF Lead
<1>3. \A k \in Leads : Repeats(k)' = Repeats(k)
  BY DEF WorkerStep, LoadRow, EnrichLead, QualifyLead, PushResult,
         EnterAuction, HoldLead, RefuseLead, CommitRefusal, RecordAuctioned,
         SellLead, SkipDelivery, FailDelivery, CommitFailure, RecordUnsold,
         AnnounceUnsold, CloseUnsold, SendOutreach, NurtureLead, Finish,
         Repeats, leadVars, repeatVars
<1>4. /\ task'[w].lead \in {l, NoLead}
      /\ \A v \in Workers \ {w} : task'[v] = task[v]
  <2>1. CASE LoadRow(w)
    BY <1>1, <2>1 DEF LoadRow, TaskRecord
  <2>2. CASE QualifyLead(w)
    BY <1>1, <2>2 DEF QualifyLead, TaskRecord
  <2>3. CASE Finish(w)
    BY <1>1, <2>3 DEF Finish, IdleTask
  <2>4. CASE WorkerStep(w) /\ ~(LoadRow(w) \/ QualifyLead(w) \/ Finish(w))
    <3>1. \E pc : Goto(w, pc) \/ Leave(w, pc)
      BY <2>4
         DEF WorkerStep, EnrichLead, PushResult, EnterAuction, HoldLead,
             RefuseLead, CommitRefusal, RecordAuctioned, SellLead,
             SkipDelivery, FailDelivery, CommitFailure, RecordUnsold,
             AnnounceUnsold, CloseUnsold, SendOutreach, NurtureLead
    <3>2. PICK new : task' = [task EXCEPT ![w] = new] /\ new.lead = l
      BY <3>1, GoesOn
    <3>. QED  BY <1>1, <3>2
  <2>. QED  BY <2>1, <2>2, <2>3, <2>4
<1>5. pending' = pending \/ \E e : Push(l, e)
  BY <1>2
     DEF WorkerStep, LoadRow, EnrichLead, QualifyLead, PushResult,
         EnterAuction, HoldLead, RefuseLead, CommitRefusal, RecordAuctioned,
         SellLead, SkipDelivery, FailDelivery, CommitFailure, RecordUnsold,
         AnnounceUnsold, CloseUnsold, SendOutreach, NurtureLead, Finish,
         leadVars, repeatVars
<1>6. timeline' = timeline \/ \E from, to : RecordTransition(l, from, to)
  BY <1>2
     DEF WorkerStep, LoadRow, EnrichLead, QualifyLead, PushResult,
         EnterAuction, HoldLead, RefuseLead, CommitRefusal, RecordAuctioned,
         SellLead, SkipDelivery, FailDelivery, CommitFailure, RecordUnsold,
         AnnounceUnsold, CloseUnsold, SendOutreach, NurtureLead, Finish,
         leadVars, repeatVars
<1>7. \/ claimed' = claimed
      \/ \E s : claimed' = [claimed EXCEPT ![l] = @ \cup {s}]
  BY <1>2
     DEF WorkerStep, LoadRow, EnrichLead, QualifyLead, PushResult,
         EnterAuction, HoldLead, RefuseLead, CommitRefusal, RecordAuctioned,
         SellLead, SkipDelivery, FailDelivery, CommitFailure, RecordUnsold,
         AnnounceUnsold, CloseUnsold, SendOutreach, NurtureLead, Finish,
         leadVars, repeatVars
<1>8. ASSUME NEW k \in Leads \ {l}
      PROVE  /\ pending'[k] = pending[k] /\ timeline'[k] = timeline[k]
             /\ claimed'[k] = claimed[k]
  BY <1>1, <1>5, <1>6, <1>7 DEF PipelineTypeOK, Push, RecordTransition
<1>9. timeline[l] \subseteq timeline'[l]
  BY <1>1, <1>6, RecordCounts
<1>. QED  BY <1>3, <1>4, <1>8, <1>9 DEF Touches

\* The steps of an execution keep a lead young that nothing was repeated for.
LEMMA WorkerStepYoung ==
    ASSUME PipelineInv, CountInv, YoungInv, NEW w \in Workers, WorkerStep(w)
    PROVE  YoungInv'
<1>1. ~At(w, "idle")
  BY DEF WorkerStep, LoadRow, EnrichLead, QualifyLead, PushResult,
         EnterAuction, HoldLead, RefuseLead, CommitRefusal, RecordAuctioned,
         SellLead, SkipDelivery, FailDelivery, CommitFailure, RecordUnsold,
         AnnounceUnsold, CloseUnsold, SendOutreach, NurtureLead, Finish, At
<1>2. /\ task[w] \in TaskRecord /\ Staged(task[w]) /\ PipelineTypeOK
      /\ task \in [Workers -> TaskRecord]
  BY <1>1, BusyTask DEF PipelineInv, PipelineTypeOK
<1>3. PICK l \in Leads : l = Lead(w) /\ l = task[w].lead
  BY <1>1, BusyTask DEF Lead
<1>4. /\ Touches(w, l) /\ timeline[l] \subseteq timeline'[l]
      /\ \A k \in Leads : Repeats(k)' = Repeats(k)
  BY <1>2, <1>3, WorkerTouches
<1>5. timeline'[l] # {}
  <2>1. timeline[l] = {} => Graph!Known(l) = {"start"}
    BY DEF YoungInv, Graph!Known, Graph!Reached
  <2>2. task[w].event \in Graph!Known(l) /\ task[w].event \in Events
    BY <1>1, <1>2, <1>3, BusyTask DEF TaskRecord
  <2>. QED  BY <1>4, <2>1, <2>2 DEF Events
<1>6. ASSUME Repeats(l) = 0 PROVE Young(l)'
  <2>1. Young(l)
    BY <1>6 DEF YoungInv
  <2>2. CASE LoadRow(w)
    <3>1. task'[w].event = task[w].event /\ task'[w].pc = (IF Handles(w, {"unsold", "rejected"})
                          THEN "contact" ELSE "write")
      BY <1>2, <2>2 DEF LoadRow, Goto, Leave, TaskRecord
    <3>2. /\ timeline'[l] = timeline[l]
          /\ pending'[l]["captured"] > 0 => pending[l]["captured"] > 0
          /\ pending'[l]["enriched"] > 0 =>
                pending[l]["enriched"] > 0 \/ Unqualified(task[w])
      BY <1>2, <1>3, <2>2 DEF LoadRow, leadVars
    <3>3. /\ Unenriched(task'[w]) => Unenriched(task[w])
          /\ Unqualified(task'[w]) => Unqualified(task[w])
      BY <2>2, <3>1 DEF LoadRow, At, Handles, Unenriched, Unqualified
    <3>. QED  BY <1>3, <1>4, <2>1, <3>1, <3>2, <3>3, QuietYoung
  <2>3. CASE EnrichLead(w)
    <3>1. /\ task'[w].event = "captured" /\ task'[w].pc = "push"
          /\ Unenriched(task[w]) /\ Carries(task[w]) /\ pending' = pending
      BY <1>2, <2>3 DEF EnrichLead, At, Handles, Leave, TaskRecord, Unenriched,
                        Carries
    <3>2. /\ pending[l]["captured"] = 0 /\ pending[l]["enriched"] = 0
          /\ \A v \in Workers \ {w} : task[v].lead = l => ~Carries(task[v])
      BY <1>2, <1>3, <1>6, <3>1, HoldsTheChance DEF Events
    <3>3. ~AwaitsEnrichment(l)'
      BY <1>4, <3>1, <3>2
         DEF Touches, AwaitsEnrichment, Carries, Unenriched
    <3>4. Reached(l) \subseteq {"captured"} /\ ~Refused(l)
      BY <1>3, <2>1, <3>1 DEF Young, AwaitsEnrichment
    <3>5. Reached(l)' = Reached(l) \cup {"enriched"}
      BY <1>2, <1>3, <2>3, RecordCounts DEF EnrichLead
    <3>6. ~Refused(l)'
      BY <1>4, <3>1, <3>4 DEF Touches, Refused
    <3>. QED  BY <3>3, <3>4, <3>5, <3>6 DEF Young
  <2>4. CASE QualifyLead(w)
    <3>1. task'[w].event = task[w].event /\ task'[w].pc = "push"
      BY <1>2, <2>4 DEF QualifyLead, Goto, Leave, TaskRecord
    <3>2. /\ pending'[l]["captured"] = pending[l]["captured"]
          /\ pending'[l]["enriched"] = pending[l]["enriched"]
      BY <1>2, <1>3, <2>4 DEF QualifyLead
    <3>3. /\ ~Unenriched(task'[w]) /\ ~Unqualified(task'[w])
          /\ Carries(task[w]) \/ Nurtures(task[w])
      BY <2>4, <3>1 DEF QualifyLead, At, Handles, Unenriched, Unqualified, Carries,
                          Nurtures
    <3>. QED  BY <1>2, <1>3, <1>4, <1>6, <3>2, <3>3, LastYoung
  <2>5. CASE PushResult(w)
    <3>1. task'[w].event = task[w].event /\ task'[w].pc = "done"
      BY <1>2, <2>5 DEF PushResult, Goto, Leave, TaskRecord
    <3>2. /\ timeline'[l] = timeline[l]
          /\ pending'[l]["captured"] > 0 => pending[l]["captured"] > 0
          /\ pending'[l]["enriched"] > 0 =>
                pending[l]["enriched"] > 0 \/ Unqualified(task[w])
      BY <1>2, <1>3, <2>5 DEF PushResult, Push, PipelineTypeOK, Events, At, Handles, Unqualified, TaskRecord, leadVars
    <3>3. /\ Unenriched(task'[w]) => Unenriched(task[w])
          /\ Unqualified(task'[w]) => Unqualified(task[w])
      BY <2>5, <3>1 DEF PushResult, At, Handles, Unenriched, Unqualified
    <3>. QED  BY <1>3, <1>4, <2>1, <3>1, <3>2, <3>3, QuietYoung
  <2>6. CASE EnterAuction(w)
    <3>1. task'[w].event = task[w].event /\ task'[w].pc = (IF "sold" \in Reached(Lead(w)) THEN "done"
                          ELSE "mark")
      BY <1>2, <2>6 DEF EnterAuction, Goto, Leave, TaskRecord
    <3>2. /\ timeline'[l] = timeline[l]
          /\ pending'[l]["captured"] > 0 => pending[l]["captured"] > 0
          /\ pending'[l]["enriched"] > 0 =>
                pending[l]["enriched"] > 0 \/ Unqualified(task[w])
      BY <1>2, <1>3, <2>6 DEF EnterAuction, leadVars
    <3>3. /\ Unenriched(task'[w]) => Unenriched(task[w])
          /\ Unqualified(task'[w]) => Unqualified(task[w])
      BY <2>6, <3>1 DEF EnterAuction, At, Handles, Unenriched, Unqualified
    <3>. QED  BY <1>3, <1>4, <2>1, <3>1, <3>2, <3>3, QuietYoung
  <2>7. CASE HoldLead(w)
    <3>1. task'[w].pc = "done"
      BY <1>2, <2>7 DEF HoldLead, Goto, Leave, TaskRecord
    <3>2. /\ pending'[l]["captured"] = pending[l]["captured"]
          /\ pending'[l]["enriched"] = pending[l]["enriched"]
      BY <1>2, <1>3, <2>7 DEF HoldLead
    <3>3. /\ ~Unenriched(task'[w]) /\ ~Unqualified(task'[w])
          /\ Carries(task[w]) \/ Nurtures(task[w])
      BY <2>7, <3>1 DEF HoldLead, At, Handles, Unenriched, Unqualified, Carries,
                          Nurtures
    <3>. QED  BY <1>2, <1>3, <1>4, <1>6, <3>2, <3>3, LastYoung
  <2>8. CASE RefuseLead(w)
    <3>1. task'[w].pc = "refuse"
      BY <1>2, <2>8 DEF RefuseLead, Goto, Leave, TaskRecord
    <3>2. /\ pending'[l]["captured"] = pending[l]["captured"]
          /\ pending'[l]["enriched"] = pending[l]["enriched"]
      BY <1>2, <1>3, <2>8 DEF RefuseLead, Push, PipelineTypeOK, Events
    <3>3. /\ ~Unenriched(task'[w]) /\ ~Unqualified(task'[w])
          /\ Carries(task[w]) \/ Nurtures(task[w])
      BY <2>8, <3>1 DEF RefuseLead, At, Handles, Unenriched, Unqualified, Carries,
                          Nurtures
    <3>. QED  BY <1>2, <1>3, <1>4, <1>6, <3>2, <3>3, LastYoung
  <2>9. CASE CommitRefusal(w)
    <3>1. task'[w].pc = "done"
      BY <1>2, <2>9 DEF CommitRefusal, Goto, Leave, TaskRecord
    <3>2. task[w].pc \in {"refuse", "lose"} /\ pending' = pending
      BY <2>9 DEF CommitRefusal, At
    <3>. QED  BY <1>3, <1>4, <2>1, <3>1, <3>2, LateYoung
  <2>10. CASE RecordAuctioned(w)
    <3>1. task'[w].pc = "outcome"
      BY <1>2, <2>10 DEF RecordAuctioned, Goto, Leave, TaskRecord
    <3>2. /\ pending'[l]["captured"] = pending[l]["captured"]
          /\ pending'[l]["enriched"] = pending[l]["enriched"]
      BY <1>2, <1>3, <2>10 DEF RecordAuctioned
    <3>3. /\ ~Unenriched(task'[w]) /\ ~Unqualified(task'[w])
          /\ Carries(task[w]) \/ Nurtures(task[w])
      BY <2>10, <3>1 DEF RecordAuctioned, At, Handles, Unenriched, Unqualified, Carries,
                          Nurtures
    <3>. QED  BY <1>2, <1>3, <1>4, <1>6, <3>2, <3>3, LastYoung
  <2>11. CASE SellLead(w)
    <3>1. task'[w].pc = "done"
      BY <1>2, <2>11 DEF SellLead, Goto, Leave, TaskRecord
    <3>2. /\ pending'[l]["captured"] = pending[l]["captured"]
          /\ pending'[l]["enriched"] = pending[l]["enriched"]
      BY <1>2, <1>3, <2>11 DEF SellLead
    <3>3. /\ ~Unenriched(task'[w]) /\ ~Unqualified(task'[w])
          /\ Carries(task[w]) \/ Nurtures(task[w])
      BY <2>11, <3>1 DEF SellLead, At, Handles, Unenriched, Unqualified, Carries,
                          Nurtures
    <3>. QED  BY <1>2, <1>3, <1>4, <1>6, <3>2, <3>3, LastYoung
  <2>12. CASE SkipDelivery(w)
    <3>1. task'[w].pc = "done"
      BY <1>2, <2>12 DEF SkipDelivery, Goto, Leave, TaskRecord
    <3>2. /\ timeline'[l] = timeline[l]
          /\ pending'[l]["captured"] > 0 => pending[l]["captured"] > 0
          /\ pending'[l]["enriched"] > 0 =>
                pending[l]["enriched"] > 0 \/ Unqualified(task[w])
      BY <1>2, <1>3, <2>12 DEF SkipDelivery, leadVars
    <3>3. /\ Unenriched(task'[w]) => Unenriched(task[w])
          /\ Unqualified(task'[w]) => Unqualified(task[w])
      BY <2>12, <3>1 DEF SkipDelivery, At, Handles, Unenriched, Unqualified
    <3>. QED  BY <1>3, <1>4, <2>1, <3>1, <3>2, <3>3, QuietYoung
  <2>13. CASE FailDelivery(w)
    <3>1. task'[w].pc = "lose"
      BY <1>2, <2>13 DEF FailDelivery, Goto, Leave, TaskRecord
    <3>2. /\ timeline'[l] = timeline[l]
          /\ pending'[l]["captured"] > 0 => pending[l]["captured"] > 0
          /\ pending'[l]["enriched"] > 0 =>
                pending[l]["enriched"] > 0 \/ Unqualified(task[w])
      BY <1>2, <1>3, <2>13 DEF FailDelivery, Push, PipelineTypeOK, Events
    <3>3. /\ Unenriched(task'[w]) => Unenriched(task[w])
          /\ Unqualified(task'[w]) => Unqualified(task[w])
      BY <2>13, <3>1 DEF FailDelivery, At, Handles, Unenriched, Unqualified
    <3>. QED  BY <1>3, <1>4, <2>1, <3>1, <3>2, <3>3, QuietYoung
  <2>14. CASE CommitFailure(w)
    <3>1. task'[w].pc = "done"
      BY <1>2, <2>14 DEF CommitFailure, Goto, Leave, TaskRecord
    <3>2. task[w].pc \in {"refuse", "lose"} /\ pending' = pending
      BY <2>14 DEF CommitFailure, At
    <3>. QED  BY <1>3, <1>4, <2>1, <3>1, <3>2, LateYoung
  <2>15. CASE RecordUnsold(w)
    <3>1. task'[w].pc = "announce"
      BY <1>2, <2>15 DEF RecordUnsold, Goto, Leave, TaskRecord
    <3>2. /\ pending'[l]["captured"] = pending[l]["captured"]
          /\ pending'[l]["enriched"] = pending[l]["enriched"]
      BY <1>2, <1>3, <2>15 DEF RecordUnsold
    <3>3. /\ ~Unenriched(task'[w]) /\ ~Unqualified(task'[w])
          /\ Carries(task[w]) \/ Nurtures(task[w])
      BY <2>15, <3>1 DEF RecordUnsold, At, Handles, Unenriched, Unqualified, Carries,
                          Nurtures
    <3>. QED  BY <1>2, <1>3, <1>4, <1>6, <3>2, <3>3, LastYoung
  <2>16. CASE AnnounceUnsold(w)
    <3>1. task'[w].pc \in {"close", "done"}
      BY <1>2, <2>16 DEF AnnounceUnsold, Goto, Leave, TaskRecord
    <3>2. /\ timeline'[l] = timeline[l]
          /\ pending'[l]["captured"] > 0 => pending[l]["captured"] > 0
          /\ pending'[l]["enriched"] > 0 =>
                pending[l]["enriched"] > 0 \/ Unqualified(task[w])
      BY <1>2, <1>3, <2>16 DEF AnnounceUnsold, Push, PipelineTypeOK, Events, leadVars
    <3>3. /\ Unenriched(task'[w]) => Unenriched(task[w])
          /\ Unqualified(task'[w]) => Unqualified(task[w])
      BY <2>16, <3>1 DEF AnnounceUnsold, At, Handles, Unenriched, Unqualified
    <3>. QED  BY <1>3, <1>4, <2>1, <3>1, <3>2, <3>3, QuietYoung
  <2>17. CASE CloseUnsold(w)
    <3>1. task'[w].pc = "done"
      BY <1>2, <2>17 DEF CloseUnsold, Goto, Leave, TaskRecord
    <3>2. /\ timeline'[l] = timeline[l]
          /\ pending'[l]["captured"] > 0 => pending[l]["captured"] > 0
          /\ pending'[l]["enriched"] > 0 =>
                pending[l]["enriched"] > 0 \/ Unqualified(task[w])
      BY <1>2, <1>3, <2>17 DEF CloseUnsold
    <3>3. /\ Unenriched(task'[w]) => Unenriched(task[w])
          /\ Unqualified(task'[w]) => Unqualified(task[w])
      BY <2>17, <3>1 DEF CloseUnsold, At, Handles, Unenriched, Unqualified
    <3>. QED  BY <1>3, <1>4, <2>1, <3>1, <3>2, <3>3, QuietYoung
  <2>18. CASE SendOutreach(w)
    <3>1. task'[w].event = task[w].event /\ task'[w].pc = "write"
      BY <1>2, <2>18 DEF SendOutreach, Goto, Leave, TaskRecord
    <3>2. /\ timeline'[l] = timeline[l]
          /\ pending'[l]["captured"] > 0 => pending[l]["captured"] > 0
          /\ pending'[l]["enriched"] > 0 =>
                pending[l]["enriched"] > 0 \/ Unqualified(task[w])
      BY <1>2, <1>3, <2>18 DEF SendOutreach
    <3>3. /\ Unenriched(task'[w]) => Unenriched(task[w])
          /\ Unqualified(task'[w]) => Unqualified(task[w])
      BY <1>2, <2>18, <3>1
         DEF SendOutreach, At, Staged, Unenriched, Unqualified
    <3>. QED  BY <1>3, <1>4, <2>1, <3>1, <3>2, <3>3, QuietYoung
  <2>19. CASE NurtureLead(w)
    <3>1. task'[w].pc = "done"
      BY <1>2, <2>19 DEF NurtureLead, Goto, Leave, TaskRecord
    <3>2. /\ pending'[l]["captured"] = pending[l]["captured"]
          /\ pending'[l]["enriched"] = pending[l]["enriched"]
      BY <1>2, <1>3, <2>19 DEF NurtureLead
    <3>3. /\ ~Unenriched(task'[w]) /\ ~Unqualified(task'[w])
          /\ Carries(task[w]) \/ Nurtures(task[w])
      BY <2>19, <3>1 DEF NurtureLead, At, Handles, Unenriched, Unqualified, Carries,
                          Nurtures
    <3>. QED  BY <1>2, <1>3, <1>4, <1>6, <3>2, <3>3, LastYoung
  <2>20. CASE Finish(w)
    <3>1. task'[w].pc = "idle"
      BY <1>2, <2>20 DEF Finish, IdleTask
    <3>2. /\ timeline'[l] = timeline[l]
          /\ pending'[l]["captured"] > 0 => pending[l]["captured"] > 0
          /\ pending'[l]["enriched"] > 0 =>
                pending[l]["enriched"] > 0 \/ Unqualified(task[w])
      BY <1>2, <1>3, <2>20 DEF Finish, leadVars
    <3>3. /\ Unenriched(task'[w]) => Unenriched(task[w])
          /\ Unqualified(task'[w]) => Unqualified(task[w])
      BY <2>20, <3>1 DEF Finish, At, Handles, Unenriched, Unqualified
    <3>. QED  BY <1>3, <1>4, <2>1, <3>1, <3>2, <3>3, QuietYoung
  <2>. QED
    BY <2>2, <2>3, <2>4, <2>5, <2>6, <2>7, <2>8, <2>9, <2>10, <2>11, <2>12,
       <2>13, <2>14, <2>15, <2>16, <2>17, <2>18, <2>19, <2>20
       DEF WorkerStep
<1>. QED  BY <1>4, <1>5, <1>6, TouchedYoung

\* A lead whose state somebody knows of was captured.
LEMMA KnownIsCaptured ==
    ASSUME YoungInv, NEW l \in Leads, NEW e \in Events, e \in Graph!Known(l)
    PROVE  timeline[l] # {}
<1>1. timeline[l] = {} => Graph!Known(l) = {"start"}
  BY DEF YoungInv, Graph!Known, Graph!Reached
<1>. QED  BY <1>1 DEF Events

\* A task that starts waits instead of its event.
LEMMA TakeYoung ==
    ASSUME PipelineInv, YoungInv, NEW w \in Workers, NEW l \in Leads,
           NEW e \in Events, Take(w, l, e)
    PROVE  YoungInv'
<1>1. /\ task'[w].pc = "load" /\ task'[w].lead = l /\ task'[w].event = e
      /\ \A v \in Workers \ {w} : task'[v] = task[v]
  BY DEF Take, IdleTask, PipelineInv, PipelineTypeOK
<1>2. /\ pending'[l] = [pending[l] EXCEPT ![e] = @ - 1] /\ pending[l][e] > 0
      /\ pending[l] \in [Events -> Nat]
      /\ \A k \in Leads \ {l} : pending'[k] = pending[k]
      /\ UNCHANGED <<timeline, claimed, failures, replays>>
  BY DEF Take, PipelineInv, PipelineTypeOK, leadVars, repeatVars
<1>3. Touches(w, l) /\ Repeats(l)' = Repeats(l)
  BY <1>1, <1>2 DEF Touches, Repeats
<1>4. timeline'[l] # {}
  BY <1>2, KnownIsCaptured DEF PipelineInv, EventsGrounded
<1>5. ASSUME Repeats(l) = 0 PROVE Young(l)'
  <2>1. \A d \in Events : pending'[l][d] > 0 => pending[l][d] > 0
    BY <1>2
  <2>2. AwaitsEnrichment(l)' => AwaitsEnrichment(l)
    BY <1>1, <1>2, <2>1 DEF AwaitsEnrichment, Unenriched, Events
  <2>3. AwaitsQualification(l)' => AwaitsQualification(l)
    BY <1>1, <1>2, <2>1 DEF AwaitsQualification, Unqualified, Events
  <2>4. Refused(l)' => Refused(l)
    BY <1>1 DEF Refused
  <2>5. Reached(l)' = Reached(l) /\ Young(l)
    BY <1>2, <1>5 DEF Reached, Graph!Reached, YoungInv
  <2>. QED  BY <2>2, <2>3, <2>4, <2>5 DEF Young
<1>. QED  BY <1>3, <1>4, <1>5, TouchedYoung

\* A failure repeats.
LEMMA FailYoung ==
    ASSUME PipelineInv, YoungInv, NEW w \in Workers, Fail(w)
    PROVE  YoungInv'
<1>1. PipelineTypeOK /\ ~At(w, "idle")
  BY DEF PipelineInv, Fail
<1>2. PICK l \in Leads : /\ l = Lead(w) /\ task[w].event \in Graph!Known(l)
                        /\ task[w] \in TaskRecord
  BY <1>1, BusyTask
<1>3. /\ task'[w].lead \in {l, NoLead}
      /\ \A v \in Workers \ {w} : task'[v] = task[v]
  <2>1. PICK new : /\ task' = [task EXCEPT ![w] = new]
                   /\ new = IF task[w].left > 0
                            THEN [IdleTask EXCEPT !.pc = "load", !.lead = l,
                                    !.event = task[w].event,
                                    !.left = task[w].left - 1]
                            ELSE IdleTask
    BY <1>2 DEF Fail
  <2>2. new.lead \in {l, NoLead}
    BY <2>1 DEF IdleTask
  <2>. QED  BY <1>1, <2>1, <2>2 DEF PipelineTypeOK
<1>4. /\ Repeats(l)' = Repeats(l) + 1 /\ Repeats(l) \in Nat
      /\ \A k \in Leads \ {l} : Repeats(k)' = Repeats(k)
      /\ UNCHANGED <<pending, timeline, claimed>>
  <2>1. /\ UNCHANGED <<pending, timeline, claimed, replays>>
        /\ failures' = [failures EXCEPT ![l] = @ + 1]
    BY <1>2 DEF Fail
  <2>. QED  BY <1>1, <2>1, RepeatCounts
<1>5. Touches(w, l)
  BY <1>3, <1>4 DEF Touches
<1>6. timeline'[l] # {}
  BY <1>2, <1>4, KnownIsCaptured DEF TaskRecord
<1>. QED  BY <1>4, <1>5, <1>6, TouchedYoung

\* A lead that is captured has not been further, and nothing works for it yet.
LEMMA GrantYoung ==
    ASSUME PipelineInv, YoungInv, NEW l \in Leads,
           \/ Capture(l)
           \/ \E checkpoint \in Events : Replay(l, checkpoint)
    PROVE  YoungInv'
<1>1. PipelineTypeOK
  BY DEF PipelineInv
<1>2. PICK e \in Events : Push(l, e)
  BY DEF Capture, Replay, Events
<1>3. \A k \in Leads \ {l} : pending'[k] = pending[k]
  BY <1>1, <1>2, PushCounts
<1>4. ASSUME NEW k \in Leads \ {l}, timeline'[k] = timeline[k], task' = task,
             Young(k)
      PROVE  Young(k)'
  BY <1>3, <1>4 DEF Young, AwaitsEnrichment, AwaitsQualification, Refused,
                    Reached, Graph!Reached
<1>5. CASE Capture(l)
  <2>1. /\ timeline[l] = {} /\ timeline'[l] # {}
        /\ Reached(l)' = Reached(l) \cup {"captured"}
        /\ \A k \in Leads \ {l} : timeline'[k] = timeline[k]
        /\ UNCHANGED <<task, claimed, failures, replays>>
    BY <1>1, <1>5, RecordCounts DEF Capture, repeatVars
  <2>2. Reached(l)' = {"captured"}
    BY <2>1 DEF Reached, Graph!Reached
  <2>3. ~Refused(l)'
    <3>1. ASSUME NEW w \in Workers, task[w].lead = l, task[w].pc = "refuse"
          PROVE  FALSE
      <4>1. task[w] \in TaskRecord /\ task[w].event \in Graph!Known(l)
        BY <3>1, BusyTask DEF At, Lead
      <4>. QED  BY <2>1, <4>1, KnownIsCaptured DEF TaskRecord
    <3>. QED  BY <2>1, <3>1 DEF Refused
  <2>4. Young(l)'
    BY <2>2, <2>3 DEF Young
  <2>5. \A k \in Leads : Repeats(k)' = Repeats(k)
    BY <2>1 DEF Repeats
  <2>. QED  BY <1>4, <2>1, <2>4, <2>5 DEF YoungInv
<1>6. CASE \E checkpoint \in Events : Replay(l, checkpoint)
  <2>1. /\ timeline[l] # {} /\ UNCHANGED <<task, timeline>>
        /\ \A k \in Leads \ {l} : claimed'[k] = claimed[k]
    BY <1>1, <1>6 DEF Replay, PipelineTypeOK
  <2>2. /\ Repeats(l)' = Repeats(l) + 1 /\ Repeats(l) \in Nat
        /\ \A k \in Leads \ {l} : Repeats(k)' = Repeats(k)
    BY <1>1, <1>6, RepeatCounts DEF Replay
  <2>. QED  BY <1>4, <2>1, <2>2 DEF YoungInv
<1>. QED  BY <1>5, <1>6

LEMMA NextYoung ==
    PipelineInv /\ CountInv /\ YoungInv /\ [PipelineNext]_vars => YoungInv'
<1>. SUFFICES ASSUME PipelineInv, CountInv, YoungInv, [PipelineNext]_vars
              PROVE  YoungInv'
  OBVIOUS
<1>1. CASE UNCHANGED vars
  BY <1>1 DEF vars, leadVars, repeatVars, YoungInv, Young, AwaitsEnrichment,
              AwaitsQualification, Refused, Repeats, Reached, Graph!Reached
<1>. QED
  BY <1>1, WorkerStepYoung, TakeYoung, FailYoung, GrantYoung
     DEF PipelineNext, Deliver

LEMMA InitYoung == PipelineInit => YoungInv
BY DEF PipelineInit, YoungInv, Young, AwaitsEnrichment, AwaitsQualification,
       Refused, Unenriched, Unqualified, IdleTask, Events

\* A lead that nothing was repeated for waits for its next state in order.
THEOREM LeadsAreYoung == PipelineSpec => []YoungInv
BY InitYoung, NextYoung, PipelineInvariant, ChancesAreCounted, PTL
   DEF PipelineSpec

\* The status that a step writes, of a lead that nothing was repeated for.
LEMMA StepForward ==
    ASSUME PipelineInv, CountInv, YoungInv, StatusIsRecorded, PipelineNext,
           NEW l \in Leads, Rank[status'[l]] < Rank[status[l]], Repeats(l) = 0
    PROVE  status[l] = "nurtured" /\ status'[l] \in {"unsold", "rejected"}
<1>1. /\ PipelineTypeOK /\ status[l] \in Statuses
      /\ status[l] = "new" \/ status[l] \in Reached(l)
  BY DEF PipelineInv, PipelineTypeOK, StatusIsRecorded
<1>2. status'[l] # status[l]
  BY <1>1 DEF Rank, Statuses
<1>3. PICK w \in Workers : /\ WorkerStep(w) /\ status' # status
                          /\ Lead(w) = l
  <2>1. PICK w \in Workers : WorkerStep(w)
    BY <1>2 DEF PipelineNext, Deliver, Capture, Take, Fail, Replay, leadVars
  <2>2. Lead(w) # l => status'[l] = status[l]
    BY <1>1, <2>1
       DEF WorkerStep, LoadRow, EnrichLead, QualifyLead, PushResult,
           EnterAuction, HoldLead, RefuseLead, CommitRefusal, RecordAuctioned,
           SellLead, SkipDelivery, FailDelivery, CommitFailure, RecordUnsold,
           AnnounceUnsold, CloseUnsold, SendOutreach, NurtureLead, Finish,
           leadVars, PipelineTypeOK, SetStatus, FlushStatus
  <2>. QED  BY <1>2, <2>1, <2>2
<1>4. task[w].lead = l /\ Young(l)
  BY <1>3 DEF Lead, YoungInv
<1>5. CASE EnrichLead(w)
  <2>1. status'[l] = "enriched"
    BY <1>1, <1>2, <1>3, <1>5 DEF EnrichLead, FlushStatus, PipelineTypeOK
  <2>2. AwaitsEnrichment(l)
    BY <1>4, <1>5 DEF EnrichLead, At, Handles, AwaitsEnrichment, Unenriched
  <2>3. status[l] = "new"
    BY <1>1, <1>4, <2>2 DEF Young, Statuses
  <2>. QED  BY <2>1, <2>3 DEF Rank
<1>6. CASE QualifyLead(w)
  <2>1. status'[l] \in {"qualified", "rejected"}
    BY <1>1, <1>2, <1>3, <1>6 DEF QualifyLead, FlushStatus, PipelineTypeOK
  <2>2. AwaitsQualification(l)
    BY <1>4, <1>6 DEF QualifyLead, At, Handles, AwaitsQualification, Unqualified
  <2>3. status[l] \in {"new", "enriched"}
    BY <1>1, <1>4, <2>2 DEF Young, Statuses
  <2>. QED  BY <2>1, <2>3 DEF Rank
<1>7. CASE SellLead(w)
  <2>1. status'[l] = "sold"
    BY <1>1, <1>3, <1>7 DEF SellLead, SetStatus, PipelineTypeOK
  <2>2. status[l] = "nurtured" /\ "nurtured" \in Reached(l)
    BY <1>1, <2>1 DEF Rank, Statuses
  <2>3. w \in Carriers(l)
    BY <1>4, <1>7 DEF SellLead, At, Carriers, Carries
  <2>4. /\ Cardinality(Carriers(l)) >= 1 /\ Cardinality(Carriers(l)) \in Nat
        /\ Cardinality(Nurturers(l)) \in Nat
    BY <2>3, HoldersAreFinite, FS_EmptySet
  <2>5. /\ Due(l) \in Nat /\ Row(l, "nurtured") = 1 /\ Row(l, "sold") \in {0, 1}
        /\ Started(l) \in {0, 1}
    BY <1>1, <2>2 DEF PipelineTypeOK, Due, Events, Row, Started
  <2>6. Cardinality(Nurturers(l)) + 1
          + (Due(l) + Cardinality(Carriers(l)) + Row(l, "sold"))
            <= Started(l) + 0
    BY <2>5 DEF CountInv, FatesCounted, Chances, Granted
  <2>. QED  BY <2>4, <2>5, <2>6
<1>8. CASE CommitRefusal(w) \/ CommitFailure(w) \/ CloseUnsold(w)
  <2>1. status'[l] \in {"unsold", "rejected"}
    BY <1>1, <1>3, <1>8
       DEF CommitRefusal, CommitFailure, CloseUnsold, SetStatus, PipelineTypeOK
  <2>2. status[l] = "nurtured"
    BY <1>1, <2>1 DEF Rank, Statuses
  <2>. QED  BY <2>1, <2>2
<1>9. CASE NurtureLead(w)
  <2>1. status'[l] = "nurtured"
    BY <1>1, <1>2, <1>3, <1>9 DEF NurtureLead, FlushStatus, PipelineTypeOK
  <2>. QED  BY <1>1, <2>1 DEF Rank, Statuses
<1>. QED
  BY <1>3, <1>5, <1>6, <1>7, <1>8, <1>9
     DEF WorkerStep, LoadRow, PushResult, EnterAuction, HoldLead, RefuseLead,
         RecordAuctioned, SkipDelivery, FailDelivery, RecordUnsold,
         AnnounceUnsold, SendOutreach, Finish, leadVars

\* A status goes back only when something was repeated, or from "nurtured" to
\* the outcome the auction announced before it wrote it.
THEOREM StatusOnlyGoesForward == PipelineSpec => StatusGoesForward
<1>1. PipelineInv /\ CountInv /\ YoungInv /\ StatusIsRecorded
          /\ [PipelineNext]_vars
        => [\A l \in Leads :
              Rank[status'[l]] < Rank[status[l]] =>
                 \/ Repeats(l) > 0
                 \/ /\ status[l] = "nurtured"
                    /\ status'[l] \in {"unsold", "rejected"}]_status
  <2>. SUFFICES ASSUME PipelineInv, CountInv, YoungInv, StatusIsRecorded,
                       PipelineNext, NEW l \in Leads,
                       Rank[status'[l]] < Rank[status[l]], ~(Repeats(l) > 0)
                PROVE  /\ status[l] = "nurtured"
                       /\ status'[l] \in {"unsold", "rejected"}
    BY DEF vars, leadVars
  <2>1. failures[l] \in Nat /\ replays[l] \in Nat
    BY DEF PipelineInv, PipelineTypeOK
  <2>2. Repeats(l) = 0
    BY <2>1 DEF Repeats
  <2>. QED  BY <2>2, StepForward
<1>. QED
  BY <1>1, PipelineInvariant, ChancesAreCounted, LeadsAreYoung,
     StatusHasItsRow, PTL
     DEF PipelineSpec, StatusGoesForward

=============================================================================
