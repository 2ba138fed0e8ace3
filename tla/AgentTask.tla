----------------------------- MODULE AgentTask -----------------------------
(***************************************************************************)
(* A task of the agent runtime: the model is asked, then the fallback      *)
(* model, and the answer is saved.  qualify_lead and hermes_self_evolution *)
(* are such tasks; a scan of hermes saves up to five proposals.            *)
(*                                                                         *)
(* An error of the models, or an answer that is refused, is reported as a  *)
(* dead letter and raised, so that Hatchet runs the task again while it    *)
(* has retries.  An interruption (the time-out of the task, the loss of    *)
(* its worker, an error while saving) does so without a report, and may    *)
(* come as late as between the report of a success and the return: Hatchet *)
(* then runs again what was announced as done.  A model that hangs is one: *)
(* a call may take as long as the whole task, so that the deadline of the  *)
(* task comes first and the fallback is not asked.                         *)
(*                                                                         *)
(* What qualify_lead saves, and the event it then pushes, are the subject  *)
(* of module LeadPipeline.                                                 *)
(***************************************************************************)
EXTENDS Integers

CONSTANTS
    Tasks,
    Scans,         \* the tasks that are runs of hermes_self_evolution
    Retries,       \* Retries[t]: 2 for qualify_lead, 1 for a scan
    MaxProposals   \* saved by a scan: 5

ASSUME AgentAssumption ==
    /\ Scans \subseteq Tasks
    /\ Retries \in [Tasks -> Nat]
    /\ MaxProposals \in Nat

VARIABLES
    pc,          \* pc[t]: where task t is
    left,        \* left[t]: its retries
    paid,        \* paid[t]: answers the models were paid for
    proposals,   \* proposals[t]: rows of skill_proposals it inserted
    log,         \* log[t]: the events agent.task.* it emitted
    silent,      \* history: silent[t]: its attempts that were interrupted
    early,       \* history: early[t]: those that failed before their first event
    late         \* history: late[t]: those interrupted after they had saved

historyVars == <<silent, early, late>>
vars == <<pc, left, paid, proposals, log, historyVars>>

Waiting == {"queued", "done", "dead"}
PCs == Waiting \cup {"prompt", "primary", "fallback", "save", "report",
                     "return"}
Running(t) == pc[t] \notin Waiting

AgentInit ==
    /\ pc = [t \in Tasks |-> "queued"]
    /\ left = Retries
    /\ paid = [t \in Tasks |-> 0]
    /\ proposals = [t \in Tasks |-> 0]
    /\ log = [t \in Tasks |-> [started |-> 0, dead |-> 0, succeeded |-> 0]]
    /\ silent = [t \in Tasks |-> 0]
    /\ early = [t \in Tasks |-> 0]
    /\ late = [t \in Tasks |-> 0]

Goto(t, place) == pc' = [pc EXCEPT ![t] = place]

\* The attempt is over, and Hatchet queues the next one.
Raise(t) ==
    IF left[t] = 0 THEN Goto(t, "dead") /\ UNCHANGED left
    ELSE Goto(t, "queued") /\ left' = [left EXCEPT ![t] = @ - 1]

\* emit_task_event(status="dead_lettered"), whatever retries are left, and
\* raise.
DeadLetter(t) ==
    /\ log' = [log EXCEPT ![t].dead = @ + 1]
    /\ Raise(t)

-----------------------------------------------------------------------------

Start(t) ==
    /\ pc[t] = "queued"
    /\ log' = [log EXCEPT ![t].started = @ + 1]
    /\ Goto(t, "prompt")
    /\ UNCHANGED <<left, paid, proposals, historyVars>>

Ask(t) ==
    /\ pc[t] = "prompt"
    /\ Goto(t, "primary")
    /\ UNCHANGED <<left, paid, proposals, log, historyVars>>

\* The prompt is above the token cap.
RefusePrompt(t) ==
    /\ pc[t] = "prompt"
    /\ DeadLetter(t)
    /\ UNCHANGED <<paid, proposals, historyVars>>

\* _local_simulation_result: a lead of a simulation needs no model.
Simulate(t) ==
    /\ pc[t] = "prompt"
    /\ t \notin Scans
    /\ Goto(t, "save")
    /\ UNCHANGED <<left, paid, proposals, log, historyVars>>

Asking(t) == pc[t] \in {"primary", "fallback"}

\* Mutant of NextModel: the fallback of the fallback is itself.
NextModelAgain(t) ==
    /\ Goto(t, "fallback")
    /\ UNCHANGED <<left, log>>

NextModel(t) ==
    IF pc[t] = "primary" THEN Goto(t, "fallback") /\ UNCHANGED <<left, log>>
    ELSE DeadLetter(t)

\* An error, before the deadline.
CallFails(t) ==
    /\ Asking(t)
    /\ NextModel(t)
    /\ UNCHANGED <<paid, proposals, historyVars>>

\* The answer is above the token cap or the cost cap.
RefuseAnswer(t) ==
    /\ Asking(t)
    /\ paid' = [paid EXCEPT ![t] = @ + 1]
    /\ NextModel(t)
    /\ UNCHANGED <<proposals, historyVars>>

\* Mutant of AcceptAnswer: the success is reported before anything is saved.
AcceptAndReport(t) ==
    /\ Asking(t)
    /\ paid' = [paid EXCEPT ![t] = @ + 1]
    /\ log' = [log EXCEPT ![t].succeeded = @ + 1]
    /\ Goto(t, "save")
    /\ UNCHANGED <<left, proposals, historyVars>>

AcceptAnswer(t) ==
    /\ Asking(t)
    /\ paid' = [paid EXCEPT ![t] = @ + 1]
    /\ Goto(t, "save")
    /\ UNCHANGED <<left, proposals, log, historyVars>>

\* _parse_qualification fails.  (A scan takes such an answer for none.)
RefuseText(t) ==
    /\ Asking(t)
    /\ t \notin Scans
    /\ paid' = [paid EXCEPT ![t] = @ + 1]
    /\ DeadLetter(t)
    /\ UNCHANGED <<proposals, historyVars>>

\* Mutant of Save: the list is not cut.
SaveAll(t) ==
    /\ pc[t] = "save"
    /\ \E n \in IF t \in Scans THEN 0 .. MaxProposals + 1 ELSE {0} :
         proposals' = [proposals EXCEPT ![t] = @ + n]
    /\ Goto(t, "report")
    /\ UNCHANGED <<left, paid, log, historyVars>>

\* The transaction of _persist_proposals, or of qualify_lead.
Save(t) ==
    /\ pc[t] = "save"
    /\ \E n \in IF t \in Scans THEN 0 .. MaxProposals ELSE {0} :
         proposals' = [proposals EXCEPT ![t] = @ + n]
    /\ Goto(t, "report")
    /\ UNCHANGED <<left, paid, log, historyVars>>

\* emit_task_event(status="success")
Report(t) ==
    /\ pc[t] = "report"
    /\ log' = [log EXCEPT ![t].succeeded = @ + 1]
    /\ Goto(t, "return")
    /\ UNCHANGED <<left, paid, proposals, historyVars>>

\* The function returns, and Hatchet learns that the task has succeeded.
Return(t) ==
    /\ pc[t] = "return"
    /\ Goto(t, "done")
    /\ UNCHANGED <<left, paid, proposals, log, historyVars>>

Interrupt(t) ==
    /\ Running(t)
    /\ silent' = [silent EXCEPT ![t] = @ + 1]
    /\ late' = IF pc[t] \in {"report", "return"} THEN [late EXCEPT ![t] = @ + 1]
               ELSE late
    /\ Raise(t)
    /\ UNCHANGED <<early, paid, proposals, log>>

\* What precedes the first event fails (the lead is read, the traces are
\* fetched), or the worker is lost meanwhile.
FailEarly(t) ==
    /\ pc[t] = "queued"
    /\ silent' = [silent EXCEPT ![t] = @ + 1]
    /\ early' = [early EXCEPT ![t] = @ + 1]
    /\ Raise(t)
    /\ UNCHANGED <<late, paid, proposals, log>>

Work(t) ==
    \/ Start(t) \/ Ask(t) \/ RefusePrompt(t) \/ Simulate(t)
    \/ CallFails(t) \/ RefuseAnswer(t) \/ AcceptAnswer(t) \/ RefuseText(t)
    \/ Save(t) \/ Report(t) \/ Return(t)

Step(t) == Work(t) \/ Interrupt(t) \/ FailEarly(t)

AgentNext == \E t \in Tasks : Step(t)

AgentSpec == AgentInit /\ [][AgentNext]_vars

-----------------------------------------------------------------------------

\* Every variable has its type.
AgentTypeOK ==
    /\ pc \in [Tasks -> PCs]
    /\ left \in [Tasks -> Nat]
    /\ paid \in [Tasks -> Nat]
    /\ proposals \in [Tasks -> Nat]
    /\ log \in [Tasks -> [started : Nat, dead : Nat, succeeded : Nat]]
    /\ silent \in [Tasks -> Nat]
    /\ early \in [Tasks -> Nat]
    /\ late \in [Tasks -> Nat]

\* What a task reports is what it did: a success is emitted once per commit at
\* most, and after it, so that none announces what was not saved; an attempt
\* that saved is not reported as a dead letter, whatever was interrupted; and
\* Hatchet holds no task for done that did not report its success.
ReportsAreTrue ==
    \A t \in Tasks :
        LET saved == late[t] + (IF pc[t] \in {"report", "return", "done"}
                                THEN 1 ELSE 0)
        IN  /\ log[t].succeeded <= saved - (IF pc[t] = "report" THEN 1 ELSE 0)
            /\ log[t].dead + saved <= log[t].started
            /\ pc[t] = "done" => log[t].succeeded > 0

\* A dead letter comes after the retry budget is exhausted, as the retry runbook
\* has it; the code emits one in every attempt that fails.
DeadLetterIsLast ==
    \A t \in Tasks : log[t].dead > 0 => pc[t] = "dead"

\* However often it fails, a task pays for two answers per attempt at most.
SpendBounded ==
    \A t \in Tasks : paid[t] <= 2 * (Retries[t] + 1)

\* A scan inserts its proposals once, and again for each attempt that was
\* interrupted after its commit.
ProposalsBounded ==
    \A t \in Tasks : proposals[t] <= MaxProposals * (1 + late[t])

=============================================================================
