------------------------ MODULE HatchetTasks_proofs ------------------------
(***************************************************************************)
(* Theorems about the two modules of tasks that stand apart: AgentTask,    *)
(* for any tasks, retries and cut, and StormWatcher, for any sources,      *)
(* reports and polls at once.                                              *)
(*                                                                         *)
(* AgentInv says of each task where its attempts have gone, and of the     *)
(* attempt under way what it can have paid for and saved so far.  StormInv *)
(* says of each poll that nobody has overtaken that nobody else can have   *)
(* seen what supersedes its reports.                                       *)
(***************************************************************************)
EXTENDS AgentTask, StormWatcher, TLAPS

-----------------------------------------------------------------------------
(* Agent tasks                                                             *)

Over(t) == log[t].dead + silent[t] + (IF pc[t] = "done" THEN 1 ELSE 0)

\* The attempts that are over, and the retries that are left.
AttemptsInv(t) ==
    /\ left[t] <= Retries[t]
    /\ log[t].started + early[t] = Over(t) + (IF Running(t) THEN 1 ELSE 0)
    /\ Over(t) = Retries[t] - left[t] + (IF pc[t] \in {"done", "dead"}
                                         THEN 1 ELSE 0)
    /\ pc[t] = "dead" => left[t] = 0

\* The attempts that announced a success are those that were interrupted after
\* they had, and the one that has now.
ReportsInv(t) ==
    /\ late[t] + early[t] <= silent[t]
    /\ log[t].succeeded <= late[t] + (IF pc[t] \in {"return", "done"}
                                      THEN 1 ELSE 0)
    /\ pc[t] \in {"return", "done"} => log[t].succeeded > 0

\* Answers that the attempt under way may have been paid for.
Asked(t) == IF pc[t] \in {"queued", "prompt", "primary"} THEN 0
            ELSE IF pc[t] = "fallback" THEN 1 ELSE 2

SpendInv(t) == paid[t] <= 2 * (Retries[t] - left[t]) + Asked(t)

\* The commits that no interruption has made void.
Kept(t) == IF pc[t] \in {"report", "return", "done"} THEN MaxProposals ELSE 0

ProposalsInv(t) == proposals[t] <= MaxProposals * late[t] + Kept(t)

TaskInv(t) == AttemptsInv(t) /\ ReportsInv(t) /\ SpendInv(t) /\ ProposalsInv(t)

AgentInv == AgentTypeOK /\ \A t \in Tasks : TaskInv(t)

-----------------------------------------------------------------------------

\* What a product does when one of its factors grows.
LEMMA OneMoreCommit ==
    ASSUME NEW m \in Nat, NEW n \in Nat
    PROVE  /\ m * n \in Nat
           /\ m * (n + 1) = m * n + m
           /\ m * (1 + n) = m * n + m
OBVIOUS

\* The initial state satisfies the invariant.
LEMMA InitAgentInv == AgentInit => AgentInv
<1> SUFFICES ASSUME AgentInit PROVE AgentInv
  OBVIOUS
<1>1. AgentTypeOK
  BY AgentAssumption DEF AgentInit, AgentTypeOK, PCs, Waiting
<1>2. ASSUME NEW t \in Tasks PROVE TaskInv(t)
  <2>1. AttemptsInv(t)
    BY AgentAssumption DEF AgentInit, AttemptsInv, Over, Running, Waiting
  <2>2. SpendInv(t)
    BY AgentAssumption DEF AgentInit, SpendInv, Asked
  <2>3. ProposalsInv(t)
    BY AgentAssumption DEF AgentInit, ProposalsInv, Kept
  <2>4. ReportsInv(t)
    BY DEF AgentInit, ReportsInv
  <2> QED BY <2>1, <2>2, <2>3, <2>4 DEF TaskInv
<1> QED BY <1>1, <1>2 DEF AgentInv

\* A step of one task leaves what the others have.
LEMMA OthersStay ==
    ASSUME AgentTypeOK, NEW t \in Tasks, Step(t)
    PROVE  \A s \in Tasks \ {t} :
             /\ pc'[s] = pc[s] /\ left'[s] = left[s] /\ paid'[s] = paid[s]
             /\ proposals'[s] = proposals[s] /\ log'[s] = log[s]
             /\ silent'[s] = silent[s] /\ early'[s] = early[s]
             /\ late'[s] = late[s]
  BY DEF AgentTypeOK, Step, Work, Start, Ask, RefusePrompt, Simulate, CallFails,
         RefuseAnswer, AcceptAnswer, RefuseText, Save, Report, Return,
         Interrupt, FailEarly, NextModel, DeadLetter, Raise, Goto, historyVars

\* Each step of a task keeps the types.
LEMMA StepTypes ==
    ASSUME AgentTypeOK, NEW t \in Tasks, Step(t)
    PROVE  AgentTypeOK'
<1> USE DEF AgentTypeOK, PCs, Waiting, Goto, historyVars
<1>1. ASSUME Raise(t) PROVE pc' \in [Tasks -> PCs] /\ left' \in [Tasks -> Nat]
  <2>1. CASE left[t] = 0
    BY <1>1, <2>1 DEF Raise
  <2>2. CASE left[t] # 0
    <3>1. left[t] - 1 \in Nat
      BY <2>2
    <3> QED BY <1>1, <2>2, <3>1 DEF Raise
  <2> QED BY <2>1, <2>2
<1>2. ASSUME DeadLetter(t)
      PROVE  /\ pc' \in [Tasks -> PCs] /\ left' \in [Tasks -> Nat]
             /\ log' \in [Tasks -> [started : Nat, dead : Nat, succeeded : Nat]]
  BY <1>1, <1>2 DEF DeadLetter
<1>3. ASSUME NextModel(t)
      PROVE  /\ pc' \in [Tasks -> PCs] /\ left' \in [Tasks -> Nat]
             /\ log' \in [Tasks -> [started : Nat, dead : Nat, succeeded : Nat]]
  BY <1>2, <1>3 DEF NextModel
<1>4. CASE Start(t)
  BY <1>4 DEF Start
<1>5. CASE Ask(t)
  BY <1>5 DEF Ask
<1>6. CASE RefusePrompt(t)
  BY <1>2, <1>6 DEF RefusePrompt
<1>7. CASE Simulate(t)
  BY <1>7 DEF Simulate
<1>8. CASE CallFails(t)
  BY <1>3, <1>8 DEF CallFails
<1>9. CASE RefuseAnswer(t)
  BY <1>3, <1>9 DEF RefuseAnswer
<1>10. CASE AcceptAnswer(t)
  BY <1>10 DEF AcceptAnswer
<1>11. CASE RefuseText(t)
  BY <1>2, <1>11 DEF RefuseText
<1>12. CASE Save(t)
  BY <1>12, AgentAssumption DEF Save
<1>13. CASE Report(t)
  BY <1>13 DEF Report
<1>14. CASE Interrupt(t)
  BY <1>1, <1>14 DEF Interrupt
<1>15. CASE FailEarly(t)
  BY <1>1, <1>15 DEF FailEarly
<1>16. CASE Return(t)
  BY <1>16 DEF Return
<1> QED
  BY <1>4, <1>5, <1>6, <1>7, <1>8, <1>9, <1>10, <1>11, <1>12, <1>13, <1>14,
     <1>15, <1>16 DEF Step, Work

\* What an attempt that was reported as a dead letter leaves.
LEMMA DeadLetterEnds ==
    ASSUME AgentTypeOK, NEW t \in Tasks, AttemptsInv(t), Running(t),
           DeadLetter(t), UNCHANGED <<silent, early>>
    PROVE  /\ AttemptsInv(t)'
           /\ pc'[t] \in {"queued", "dead"}
           /\ 2 * (Retries[t] - left'[t]) + Asked(t)' = 2 * (Retries[t] - left[t]) + 2
<1>1. /\ log'[t].dead = log[t].dead + 1
      /\ log'[t].started = log[t].started
      /\ log'[t].succeeded = log[t].succeeded
      /\ silent'[t] = silent[t] /\ early'[t] = early[t]
  BY DEF DeadLetter, AgentTypeOK
<1>2. /\ log[t].dead \in Nat /\ log[t].started \in Nat
      /\ log[t].succeeded \in Nat /\ silent[t] \in Nat
      /\ early[t] \in Nat
      /\ left[t] \in Nat /\ Retries[t] \in Nat
  BY AgentAssumption DEF AgentTypeOK
<1>3. CASE left[t] = 0
  <2>1. pc'[t] = "dead" /\ left'[t] = left[t]
    BY <1>3 DEF DeadLetter, Raise, Goto, AgentTypeOK
  <2>2. AttemptsInv(t)'
    BY <1>1, <1>2, <1>3, <2>1 DEF AttemptsInv, Over, Running, Waiting
  <2> QED BY <1>2, <1>3, <2>1, <2>2 DEF Asked
<1>4. CASE left[t] # 0
  <2>1. pc'[t] = "queued" /\ left'[t] = left[t] - 1
    BY <1>4 DEF DeadLetter, Raise, Goto, AgentTypeOK
  <2>2. AttemptsInv(t)'
    BY <1>1, <1>2, <1>4, <2>1 DEF AttemptsInv, Over, Running, Waiting
  <2> QED BY <1>2, <1>4, <2>1, <2>2 DEF Asked
<1> QED BY <1>3, <1>4

\* Each step of a task keeps count of its attempts.
LEMMA StepAttempts ==
    ASSUME AgentTypeOK, NEW t \in Tasks, AttemptsInv(t), Step(t)
    PROVE  AttemptsInv(t)'
<1> USE AgentAssumption DEF AgentTypeOK, PCs, Waiting, Running, Goto,
        historyVars
<1>1. CASE Start(t) \/ Ask(t) \/ Simulate(t)
  <2>1. CASE Start(t)
    <3>1. /\ log'[t].dead = log[t].dead
          /\ log'[t].started = log[t].started + 1
          /\ pc[t] = "queued" /\ pc'[t] = "prompt"
          /\ left'[t] = left[t] /\ silent'[t] = silent[t]
          /\ early'[t] = early[t]
      BY <2>1 DEF Start
    <3>2. /\ log[t].dead \in Nat /\ log[t].started \in Nat
          /\ silent[t] \in Nat /\ early[t] \in Nat /\ left[t] \in Nat
      OBVIOUS
    <3> QED BY <3>1, <3>2 DEF AttemptsInv, Over
  <2>2. CASE Ask(t) \/ Simulate(t)
    BY <2>2 DEF Ask, Simulate, AttemptsInv, Over
  <2> QED BY <1>1, <2>1, <2>2
<1>2. CASE RefusePrompt(t)
  BY <1>2, DeadLetterEnds DEF RefusePrompt
<1>3. ASSUME Asking(t), NextModel(t), UNCHANGED <<silent, early>>
      PROVE  AttemptsInv(t)'
  <2>1. CASE pc[t] = "primary"
    BY <1>3, <2>1 DEF NextModel, Asking, AttemptsInv, Over
  <2>2. CASE pc[t] # "primary"
    BY <1>3, <2>2, DeadLetterEnds DEF NextModel, Asking
  <2> QED BY <2>1, <2>2
<1>4. CASE CallFails(t) \/ RefuseAnswer(t)
  BY <1>3, <1>4 DEF CallFails, RefuseAnswer
<1>5. CASE RefuseText(t)
  BY <1>5, DeadLetterEnds DEF RefuseText, Asking
<1>6. CASE AcceptAnswer(t) \/ Save(t) \/ Report(t) \/ Return(t)
  BY <1>6 DEF AcceptAnswer, Asking, Save, Report, Return, AttemptsInv, Over
<1>7. ASSUME Raise(t), log' = log, silent'[t] = silent[t] + 1,
             \/ Running(t) /\ early'[t] = early[t]
             \/ pc[t] = "queued" /\ early'[t] = early[t] + 1
      PROVE  AttemptsInv(t)'
  <2>1. /\ log[t].dead \in Nat /\ log[t].started \in Nat
        /\ log[t].succeeded \in Nat /\ silent[t] \in Nat
        /\ early[t] \in Nat /\ left[t] \in Nat /\ Retries[t] \in Nat
    OBVIOUS
  <2>2. CASE left[t] = 0
    <3>1. pc'[t] = "dead" /\ left'[t] = left[t]
      BY <1>7, <2>2 DEF Raise
    <3> QED BY <1>7, <2>1, <2>2, <3>1 DEF AttemptsInv, Over
  <2>3. CASE left[t] # 0
    <3>1. pc'[t] = "queued" /\ left'[t] = left[t] - 1
      BY <1>7, <2>3 DEF Raise
    <3> QED BY <1>7, <2>1, <2>3, <3>1, SMTT(60) DEF AttemptsInv, Over
  <2> QED BY <2>2, <2>3
<1>8. CASE Interrupt(t)
  BY <1>7, <1>8 DEF Interrupt
<1>9. CASE FailEarly(t)
  BY <1>7, <1>9 DEF FailEarly
<1> QED BY <1>1, <1>2, <1>4, <1>5, <1>6, <1>8, <1>9 DEF Step, Work

\* Each step of a task keeps its reports in step with its commits.
LEMMA StepReports ==
    ASSUME AgentTypeOK, NEW t \in Tasks, ReportsInv(t), Step(t)
    PROVE  ReportsInv(t)'
<1> USE DEF AgentTypeOK, PCs, Waiting, Running, Goto, historyVars
<1>1. /\ log[t].succeeded \in Nat /\ silent[t] \in Nat
      /\ early[t] \in Nat /\ late[t] \in Nat
  OBVIOUS
<1>2. CASE Report(t)
  BY <1>1, <1>2 DEF Report, ReportsInv
<1>3. CASE Return(t)
  BY <1>1, <1>3 DEF Return, ReportsInv
<1>4. ASSUME Raise(t)  PROVE pc'[t] \in {"queued", "dead"}
  BY <1>4 DEF Raise
<1>5. CASE Interrupt(t)
  BY <1>1, <1>4, <1>5 DEF Interrupt, ReportsInv
<1>6. CASE FailEarly(t)
  BY <1>1, <1>4, <1>6 DEF FailEarly, ReportsInv
<1>7. ASSUME DeadLetter(t)
      PROVE  pc'[t] \in {"queued", "dead"} /\ log'[t].succeeded = log[t].succeeded
  BY <1>4, <1>7 DEF DeadLetter
<1>8. ASSUME Step(t), ~Report(t), ~Return(t), ~Interrupt(t), ~FailEarly(t)
      PROVE  /\ UNCHANGED <<silent, early, late>>
             /\ log'[t].succeeded = log[t].succeeded
             /\ pc[t] \notin {"return", "done"}
             /\ pc'[t] \notin {"return", "done"}
  BY <1>7, <1>8
     DEF Step, Work, Start, Ask, RefusePrompt, Simulate, CallFails, Asking,
         RefuseAnswer, AcceptAnswer, RefuseText, Save, NextModel
<1>9. CASE ~Report(t) /\ ~Return(t) /\ ~Interrupt(t) /\ ~FailEarly(t)
  BY <1>1, <1>8, <1>9 DEF ReportsInv
<1> QED BY <1>2, <1>3, <1>5, <1>6, <1>9

\* Each step of a task keeps within what its attempts may cost.
LEMMA StepSpend ==
    ASSUME AgentTypeOK, NEW t \in Tasks, AttemptsInv(t), SpendInv(t), Step(t)
    PROVE  SpendInv(t)'
<1> USE AgentAssumption DEF AgentTypeOK, PCs, Waiting, Running, Goto,
        historyVars
<1>1. CASE Start(t) \/ Ask(t) \/ Simulate(t)
  BY <1>1 DEF Start, Ask, Simulate, SpendInv, Asked
<1>2. CASE RefusePrompt(t)
  BY <1>2, DeadLetterEnds DEF RefusePrompt, SpendInv, Asked
<1>3. CASE CallFails(t)
  <2>1. CASE pc[t] = "primary"
    BY <1>3, <2>1 DEF CallFails, NextModel, SpendInv, Asked
  <2>2. CASE pc[t] = "fallback"
    <3>1. 2 * (Retries[t] - left'[t]) + Asked(t)'
            = 2 * (Retries[t] - left[t]) + 2
      BY <1>3, <2>2, DeadLetterEnds DEF CallFails, NextModel
    <3> QED BY <1>3, <2>2, <3>1 DEF CallFails, SpendInv, Asked
  <2> QED BY <1>3, <2>1, <2>2 DEF CallFails, Asking
<1>4. CASE RefuseAnswer(t)
  <2>1. CASE pc[t] = "primary"
    BY <1>4, <2>1 DEF RefuseAnswer, NextModel, SpendInv, Asked
  <2>2. CASE pc[t] = "fallback"
    <3>1. 2 * (Retries[t] - left'[t]) + Asked(t)'
            = 2 * (Retries[t] - left[t]) + 2
      BY <1>4, <2>2, DeadLetterEnds DEF RefuseAnswer, NextModel
    <3>2. paid'[t] = paid[t] + 1
      BY <1>4 DEF RefuseAnswer
    <3> QED BY <2>2, <3>1, <3>2 DEF SpendInv, Asked
  <2> QED BY <1>4, <2>1, <2>2 DEF RefuseAnswer, Asking
<1>5. CASE RefuseText(t)
  <2>1. 2 * (Retries[t] - left'[t]) + Asked(t)'
          = 2 * (Retries[t] - left[t]) + 2
    BY <1>5, DeadLetterEnds DEF RefuseText, Asking
  <2>2. paid'[t] = paid[t] + 1
    BY <1>5 DEF RefuseText
  <2> QED BY <1>5, <2>1, <2>2 DEF SpendInv, Asked, RefuseText, Asking
<1>6. CASE AcceptAnswer(t) \/ Save(t) \/ Report(t) \/ Return(t)
  BY <1>6 DEF AcceptAnswer, Asking, Save, Report, Return, SpendInv, Asked
<1>7. CASE Interrupt(t) \/ FailEarly(t)
  <2>1. CASE left[t] = 0
    BY <1>7, <2>1
       DEF Interrupt, FailEarly, Raise, SpendInv, Asked, AttemptsInv
  <2>2. CASE left[t] # 0
    BY <1>7, <2>2
       DEF Interrupt, FailEarly, Raise, SpendInv, Asked, AttemptsInv
  <2> QED BY <2>1, <2>2
<1> QED BY <1>1, <1>2, <1>3, <1>4, <1>5, <1>6, <1>7 DEF Step, Work

\* Each step of a task keeps its proposals within the commits it made.
LEMMA StepProposals ==
    ASSUME AgentTypeOK, NEW t \in Tasks, AttemptsInv(t), ProposalsInv(t),
           Step(t)
    PROVE  ProposalsInv(t)'
<1> USE AgentAssumption DEF AgentTypeOK, PCs, Waiting, Running, Goto,
        historyVars
<1> DEFINE Void == MaxProposals * late[t]
<1>1. /\ Void \in Nat
      /\ MaxProposals * (late[t] + 1) = Void + MaxProposals
  BY OneMoreCommit
<1>2. CASE /\ proposals'[t] = proposals[t]
           /\ late'[t] = late[t]
           /\ pc[t] \notin {"report", "return", "done"}
  <2>1. Kept(t) = 0 /\ Kept(t)' \in Nat
    BY <1>2 DEF Kept
  <2> QED BY <1>1, <1>2, <2>1 DEF ProposalsInv
<1>3. CASE Save(t)
  <2>1. /\ proposals'[t] <= proposals[t] + MaxProposals
        /\ proposals'[t] \in Nat
    BY <1>3 DEF Save
  <2>2. late'[t] = late[t] /\ Kept(t) = 0 /\ Kept(t)' = MaxProposals
    BY <1>3 DEF Save, Kept
  <2> QED BY <1>1, <2>1, <2>2 DEF ProposalsInv
<1>4. CASE Report(t) \/ Return(t)
  BY <1>4 DEF Report, Return, ProposalsInv, Kept
<1>5. CASE Interrupt(t)
  <2>1. proposals'[t] = proposals[t] /\ Kept(t)' = 0
    BY <1>5 DEF Interrupt, Raise, Kept
  <2>2. CASE pc[t] \in {"report", "return"}
    <3>1. late'[t] = late[t] + 1 /\ Kept(t) = MaxProposals
      BY <1>5, <2>2 DEF Interrupt, Kept
    <3> QED BY <1>1, <2>1, <3>1 DEF ProposalsInv
  <2>3. CASE pc[t] \notin {"report", "return"}
    <3>1. late'[t] = late[t] /\ Kept(t) = 0
      BY <1>5, <2>3 DEF Interrupt, Kept
    <3> QED BY <1>1, <2>1, <3>1 DEF ProposalsInv
  <2> QED BY <2>2, <2>3
<1>6. ASSUME Step(t), ~Save(t), ~Report(t), ~Return(t), ~Interrupt(t)
      PROVE  /\ proposals'[t] = proposals[t]
             /\ late'[t] = late[t]
             /\ pc[t] \notin {"report", "return", "done"}
  BY <1>6 DEF Step, Work, Start, Ask, RefusePrompt, Simulate, CallFails, Asking,
              RefuseAnswer, AcceptAnswer, RefuseText, FailEarly
<1> QED BY <1>2, <1>3, <1>4, <1>5, <1>6

\* Every step keeps the invariant.
LEMMA NextAgentInv == AgentInv /\ [AgentNext]_vars => AgentInv'
<1> SUFFICES ASSUME AgentInv, [AgentNext]_vars PROVE AgentInv'
  OBVIOUS
<1>1. CASE AgentNext
  <2> PICK t \in Tasks : Step(t)
    BY <1>1 DEF AgentNext
  <2>1. AgentTypeOK'
    BY StepTypes DEF AgentInv
  <2>2. TaskInv(t)'
    BY StepAttempts, StepReports, StepSpend, StepProposals
       DEF AgentInv, TaskInv
  <2>3. ASSUME NEW s \in Tasks \ {t} PROVE TaskInv(s)'
    <3>1. /\ pc'[s] = pc[s] /\ left'[s] = left[s] /\ paid'[s] = paid[s]
          /\ proposals'[s] = proposals[s] /\ log'[s] = log[s]
          /\ silent'[s] = silent[s] /\ early'[s] = early[s]
          /\ late'[s] = late[s]
      BY OthersStay DEF AgentInv
    <3>2. TaskInv(s)
      BY DEF AgentInv
    <3> QED BY <3>1, <3>2 DEF TaskInv, AttemptsInv, ReportsInv, SpendInv,
                              ProposalsInv, Over, Running, Asked, Kept
  <2> QED BY <2>1, <2>2, <2>3 DEF AgentInv
<1>2. CASE UNCHANGED vars
  BY <1>2 DEF AgentInv, AgentTypeOK, TaskInv, AttemptsInv, ReportsInv,
              SpendInv, ProposalsInv, Over, Running, Asked, Kept, vars, historyVars
<1> QED BY <1>1, <1>2

\* The inductive invariant holds of every behaviour.
THEOREM AgentInvariant == AgentSpec => []AgentInv
BY InitAgentInv, NextAgentInv, PTL DEF AgentSpec

-----------------------------------------------------------------------------

\* The variables of execution.py, hermes.py and qualify.py keep their types.
THEOREM AgentTypes == AgentSpec => []AgentTypeOK
<1>1. AgentInv => AgentTypeOK
  BY DEF AgentInv
<1> QED BY AgentInvariant, <1>1, PTL

\* Whatever the number of retries and wherever an attempt is interrupted, the
\* events of hermes.py and qualify.py agree with what was committed.
THEOREM ReportsAgree == AgentSpec => []ReportsAreTrue
<1>1. AgentInv => ReportsAreTrue
  <2> SUFFICES ASSUME AgentInv, NEW t \in Tasks
               PROVE  LET saved == late[t] + (IF pc[t] \in {"report", "return",
                                                            "done"}
                                              THEN 1 ELSE 0)
                      IN  /\ log[t].succeeded
                               <= saved - (IF pc[t] = "report" THEN 1 ELSE 0)
                          /\ log[t].dead + saved <= log[t].started
                          /\ pc[t] = "done" => log[t].succeeded > 0
    BY DEF ReportsAreTrue
  <2>1. /\ log[t].dead \in Nat /\ log[t].started \in Nat
        /\ log[t].succeeded \in Nat /\ silent[t] \in Nat
        /\ early[t] \in Nat /\ late[t] \in Nat
    BY DEF AgentInv, AgentTypeOK
  <2> QED BY <2>1 DEF AgentInv, TaskInv, AttemptsInv, ReportsInv, Over, Running,
                      Waiting
<1> QED BY AgentInvariant, <1>1, PTL

\* run_agent_task pays for two answers at most, and the retries of the task
\* are the only thing that multiplies them.
THEOREM SpendIsBounded == AgentSpec => []SpendBounded
<1>1. AgentInv => SpendBounded
  <2> SUFFICES ASSUME AgentInv, NEW t \in Tasks
               PROVE  paid[t] <= 2 * (Retries[t] + 1)
    BY DEF SpendBounded
  <2>1. /\ paid[t] <= 2 * (Retries[t] - left[t]) + Asked(t)
        /\ Asked(t) \in 0 .. 2 /\ left[t] \in Nat /\ paid[t] \in Nat
    BY DEF AgentInv, AgentTypeOK, TaskInv, SpendInv, Asked
  <2> QED BY <2>1, AgentAssumption
<1> QED BY AgentInvariant, <1>1, PTL

\* Only an attempt that was interrupted after _persist_proposals has committed
\* lets the proposals of a scan be inserted again.
THEOREM ProposalsAreBounded == AgentSpec => []ProposalsBounded
<1>1. AgentInv => ProposalsBounded
  <2> SUFFICES ASSUME AgentInv, NEW t \in Tasks
               PROVE  proposals[t] <= MaxProposals * (1 + late[t])
    BY DEF ProposalsBounded
  <2>1. /\ proposals[t] <= MaxProposals * late[t] + Kept(t)
        /\ proposals[t] \in Nat /\ late[t] \in Nat
        /\ Kept(t) \in Nat /\ Kept(t) <= MaxProposals
    BY AgentAssumption DEF AgentInv, AgentTypeOK, TaskInv, ProposalsInv, Kept
  <2>2. /\ MaxProposals * late[t] \in Nat
        /\ MaxProposals * (1 + late[t]) = MaxProposals * late[t] + MaxProposals
    BY <2>1, OneMoreCommit, AgentAssumption
  <2> QED BY <2>1, <2>2, AgentAssumption
<1> QED BY AgentInvariant, <1>1, PTL

-----------------------------------------------------------------------------
(* The storm watcher                                                       *)

\* A source lists its own reports, none that is superseded.
FeedInv(s) ==
    \A q \in On(feed[s]) :
        /\ q \in published /\ Source[q] = s
        /\ \A r \in published : q \notin Replaces[r]

\* The polls and the rows hold reports that have been published; a poll works
\* for the source of its reports.
HeldInv ==
    /\ \A p \in Polls : \A q \in On(poll[p].todo) :
         q \in published /\ Source[q] = poll[p].source
    /\ \A k \in Keys : latest[k] # NoReport => latest[k] \in published
    /\ \A r \in published : Replaces[r] \subseteq published \ {r}

\* Nobody else has seen r: it is in no row and no poll works on it.
Unseen(r) ==
    /\ \A k \in Keys : latest[k] # r
    /\ \A p \in Polls : r \notin On(poll[p].todo)

\* What would supersede the reports of a poll that is not overtaken is unseen.
PollInv(p) ==
    ~poll[p].overtaken =>
       \A q \in On(poll[p].todo), r \in Reports :
          q \in Replaces[r] => Unseen(r)

StormInv ==
    /\ StormTypeOK
    /\ \A s \in Sources : FeedInv(s)
    /\ HeldInv
    /\ \A p \in Polls : PollInv(p)

\* What a list holds.
LEMMA OnList ==
    ASSUME NEW list \in SUBSET (Reports \X Reports), NEW r \in Reports,
           NEW X
    PROVE  /\ On(list) \subseteq Reports
           /\ InFront(r, list) \in SUBSET (Reports \X Reports)
           /\ On(InFront(r, list)) = On(list) \cup {r}
           /\ Without(list, X) \in SUBSET (Reports \X Reports)
           /\ On(Without(list, X)) \subseteq On(list) \ X
<1>1. On(list) \subseteq Reports
  BY DEF On
<1>2. InFront(r, list) \in SUBSET (Reports \X Reports)
  BY <1>1 DEF InFront
<1>3. On(InFront(r, list)) \subseteq On(list) \cup {r}
  BY DEF InFront, On
<1>4. On(list) \cup {r} \subseteq On(InFront(r, list))
  <2>1. <<r, r>> \in InFront(r, list) /\ <<r, r>>[1] = r
    BY DEF InFront
  <2>2. list \subseteq InFront(r, list)
    BY DEF InFront
  <2>. QED  BY <2>1, <2>2 DEF On
<1>5. Without(list, X) \in SUBSET (Reports \X Reports)
  BY DEF Without
<1>6. On(Without(list, X)) \subseteq On(list) \ X
  BY DEF Without, On
<1>. QED  BY <1>1, <1>2, <1>3, <1>4, <1>5, <1>6

LEMMA OnNothing == On({}) = {}
BY DEF On

\* The report a poll works on is one of its list.
LEMMA CurrentIsOn ==
    ASSUME StormTypeOK, NEW p \in Polls, NEW r, Current(p, r)
    PROVE  r \in On(poll[p].todo)
<1>1. PICK e \in poll[p].todo : TRUE
  BY DEF Current, Working
<1>2. e[1] \in On(poll[p].todo)
  BY DEF On
<1>3. <<r, e[1]>> \in poll[p].todo /\ <<r, e[1]>>[1] = r
  BY <1>2 DEF Current
<1>. QED  BY <1>3 DEF On

\* The initial state.
LEMMA InitStorm == StormInit => StormInv
<1>. SUFFICES ASSUME StormInit PROVE StormInv
  OBVIOUS
<1>1. StormTypeOK
  BY StormAssumption DEF StormInit, StormTypeOK, IdlePoll
<1>2. \A s \in Sources : FeedInv(s)
  BY OnNothing DEF StormInit, FeedInv
<1>3. HeldInv
  BY OnNothing DEF StormInit, HeldInv, IdlePoll
<1>4. \A p \in Polls : PollInv(p)
  BY OnNothing DEF StormInit, PollInv, IdlePoll
<1>. QED  BY <1>1, <1>2, <1>3, <1>4 DEF StormInv

\* A step that leaves every poll at most what it had, and writes only reports
\* of a poll into the rows.
Works ==
    /\ UNCHANGED feedVars
    /\ \A p \in Polls :
         /\ On(poll'[p].todo) \subseteq On(poll[p].todo)
         /\ On(poll'[p].todo) # {} =>
              /\ poll'[p].source = poll[p].source
              /\ poll'[p].overtaken = poll[p].overtaken
    /\ \A k \in Keys :
         \/ latest'[k] = latest[k]
         \/ \E p \in Polls : latest'[k] \in On(poll[p].todo)

LEMMA WorksKeeps ==
    ASSUME StormInv, StormTypeOK', Works
    PROVE  StormInv'
<1>1. \A s \in Sources : FeedInv(s)'
  BY DEF StormInv, FeedInv, Works, feedVars
<1>2. HeldInv'
  BY DEF StormInv, HeldInv, Works, feedVars
<1>3. ASSUME NEW r, Unseen(r) PROVE Unseen(r)'
  BY <1>3 DEF Unseen, Works
<1>4. \A p \in Polls : PollInv(p)'
  BY <1>3 DEF StormInv, PollInv, Works
<1>. QED  BY <1>1, <1>2, <1>4 DEF StormInv

\* A poll drops the report it worked on, or all of them.
LEMMA DropsReports ==
    ASSUME StormTypeOK, NEW p \in Polls, NEW r \in Reports,
           Stop(p) \/ Advance(p, r)
    PROVE  /\ poll' \in [Polls -> [source : Sources \cup {NoSource},
                                   todo : SUBSET (Reports \X Reports),
                                   overtaken : BOOLEAN]]
           /\ \A q \in Polls :
                /\ On(poll'[q].todo) \subseteq On(poll[q].todo)
                /\ On(poll'[q].todo) # {} =>
                     /\ poll'[q].source = poll[q].source
                     /\ poll'[q].overtaken = poll[q].overtaken
<1>1. CASE Stop(p)
  <2>1. poll' = [poll EXCEPT ![p] = IdlePoll]
    BY <1>1 DEF Stop
  <2>2. IdlePoll \in [source : Sources \cup {NoSource},
                      todo : SUBSET (Reports \X Reports), overtaken : BOOLEAN]
    BY DEF IdlePoll
  <2>3. IdlePoll.todo = {}
    BY DEF IdlePoll
  <2>. QED  BY <2>1, <2>2, <2>3, OnNothing DEF StormTypeOK
<1>2. CASE Advance(p, r) /\ ~Stop(p)
  <2>1. PICK list : list = Without(poll[p].todo, {r})
    OBVIOUS
  <2>2. poll' = [poll EXCEPT ![p].todo = list]
    BY <1>2, <2>1 DEF Advance
  <2>3. /\ list \in SUBSET (Reports \X Reports)
        /\ On(list) \subseteq On(poll[p].todo)
    <3>1. poll[p].todo \in SUBSET (Reports \X Reports)
      BY DEF StormTypeOK
    <3>. QED  BY <2>1, <3>1, OnList
  <2>4. PICK rec : rec = [poll[p] EXCEPT !.todo = list]
    OBVIOUS
  <2>5. poll' = [poll EXCEPT ![p] = rec]
    BY <2>2, <2>4
  <2>6. /\ rec \in [source : Sources \cup {NoSource},
                    todo : SUBSET (Reports \X Reports), overtaken : BOOLEAN]
        /\ rec.todo = list /\ rec.source = poll[p].source
        /\ rec.overtaken = poll[p].overtaken
    BY <2>3, <2>4 DEF StormTypeOK
  <2>. QED  BY <2>3, <2>5, <2>6 DEF StormTypeOK
<1>. QED  BY <1>1, <1>2

\* A poll that works on a report.
LEMMA WorkStorm ==
    ASSUME StormInv, NEW p \in Polls,
           \/ RecordStorm(p) \/ UpsertFails(p) \/ SkipReport(p)
           \/ Choke(p) \/ TimeOut(p)
    PROVE  StormInv' /\ Works
<1>1. StormTypeOK
  BY DEF StormInv
<1>2. CASE RecordStorm(p)
  <2>1. PICK r \in Useful : /\ Current(p, r) /\ Upsert(Key[r], r)
                            /\ Advance(p, r) /\ UNCHANGED <<feedVars, failures>>
    BY <1>2 DEF RecordStorm
  <2>2. r \in On(poll[p].todo) /\ r \in Reports /\ Key[r] \in Keys
        /\ r # NoReport
    BY <1>1, <2>1, CurrentIsOn, StormAssumption DEF Useful
  <2>3. /\ first' \in [Keys -> Useful \cup {NoReport}]
        /\ latest' \in [Keys -> Useful \cup {NoReport}]
        /\ \A k \in Keys : latest'[k] = latest[k] \/ latest'[k] = r
        /\ \A k \in Keys : first'[k] = NoReport <=> latest'[k] = NoReport
    BY <1>1, <2>1, <2>2 DEF StormTypeOK, Upsert
  <2>4. StormTypeOK'
    BY <1>1, <2>1, <2>2, <2>3, DropsReports DEF StormTypeOK, feedVars
  <2>5. Works
    BY <1>1, <2>1, <2>2, <2>3, DropsReports DEF Works
  <2>. QED  BY <2>4, <2>5, WorksKeeps
<1>3. CASE UpsertFails(p) \/ SkipReport(p) \/ Choke(p) \/ TimeOut(p)
  <2>1. PICK r \in Reports : Stop(p) \/ Advance(p, r)
    <3>1. CASE TimeOut(p)
      <4>1. Working(p)
        BY <3>1 DEF TimeOut
      <4>2. poll[p].todo \in SUBSET (Reports \X Reports)
        BY <1>1 DEF StormTypeOK
      <4>3. Reports # {}
        BY <4>1, <4>2 DEF Working
      <4>. QED  BY <3>1, <4>3 DEF TimeOut
    <3>2. CASE ~TimeOut(p)
      <4>1. PICK r : Current(p, r) /\ (Stop(p) \/ Advance(p, r))
        BY <1>3, <3>2 DEF UpsertFails, SkipReport, Choke
      <4>2. r \in Reports
        <5>1. poll[p].todo \in SUBSET (Reports \X Reports)
          BY <1>1 DEF StormTypeOK
        <5>2. r \in On(poll[p].todo)
          BY <1>1, <4>1, CurrentIsOn
        <5>. QED  BY <5>1, <5>2 DEF On
      <4>. QED  BY <4>1, <4>2
    <3>. QED  BY <3>1, <3>2
  <2>2. /\ UNCHANGED <<feedVars, stormVars>>
        /\ failures' \in 0 .. MaxFailures
    BY <1>1, <1>3, StormAssumption
       DEF UpsertFails, SkipReport, Choke, TimeOut, StormTypeOK
  <2>3. StormTypeOK'
    BY <1>1, <2>1, <2>2, DropsReports DEF StormTypeOK, feedVars, stormVars
  <2>4. Works
    BY <1>1, <2>1, <2>2, DropsReports DEF Works, stormVars
  <2>. QED  BY <2>3, <2>4, WorksKeeps
<1>. QED  BY <1>2, <1>3

\* A poll that starts has seen the newest reports of its source, and overtakes
\* the others that work for it.
LEMMA FetchStorm ==
    ASSUME StormInv, NEW p \in Polls, NEW s \in Sources, Fetch(p, s)
    PROVE  StormInv'
<1>1. StormTypeOK /\ FeedInv(s) /\ HeldInv
  BY DEF StormInv
<1>2. /\ UNCHANGED <<feedVars, stormVars, failures>>
      /\ poll' = [q \in Polls |->
                    IF q = p THEN [source |-> s, todo |-> feed[s],
                                   overtaken |-> FALSE]
                    ELSE [poll[q] EXCEPT !.overtaken =
                            @ \/ (Working(q) /\ poll[q].source = s)]]
  BY DEF Fetch, Begin
<1>3. /\ poll'[p].source = s /\ poll'[p].todo = feed[s]
      /\ poll'[p] \in [source : Sources \cup {NoSource},
                       todo : SUBSET (Reports \X Reports),
                       overtaken : BOOLEAN]
  BY <1>1, <1>2 DEF StormTypeOK
<1>4. ASSUME NEW q \in Polls \ {p}
      PROVE  /\ poll'[q].source = poll[q].source
             /\ poll'[q].todo = poll[q].todo
             /\ ~poll'[q].overtaken =>
                  ~poll[q].overtaken /\ ~(Working(q) /\ poll[q].source = s)
             /\ poll'[q] \in [source : Sources \cup {NoSource},
                              todo : SUBSET (Reports \X Reports),
                              overtaken : BOOLEAN]
  <2>1. PICK b \in BOOLEAN :
          b = (poll[q].overtaken \/ (Working(q) /\ poll[q].source = s))
    OBVIOUS
  <2>2. poll'[q] = [poll[q] EXCEPT !.overtaken = b]
    BY <1>2, <2>1
  <2>. QED  BY <1>1, <2>1, <2>2 DEF StormTypeOK
<1>5. StormTypeOK'
  <2>1. DOMAIN poll' = Polls /\ poll' = [q \in Polls |-> poll'[q]]
    BY <1>2
  <2>2. poll' \in [Polls -> [source : Sources \cup {NoSource},
                             todo : SUBSET (Reports \X Reports),
                             overtaken : BOOLEAN]]
    BY <1>3, <1>4, <2>1
  <2>. QED  BY <1>1, <1>2, <2>2 DEF StormTypeOK, feedVars, stormVars
<1>6. \A z \in Sources : FeedInv(z)'
  BY <1>2 DEF StormInv, FeedInv, feedVars
<1>7. HeldInv'
  BY <1>1, <1>2, <1>3, <1>4 DEF HeldInv, FeedInv, feedVars, stormVars
<1>8. ASSUME NEW q \in On(feed[s]), NEW r \in Reports, q \in Replaces[r]
      PROVE  Unseen(r)'
  <2>1. r \notin published
    BY <1>1, <1>8 DEF FeedInv
  <2>2. r # NoReport
    BY StormAssumption
  <2>. QED  BY <1>7, <2>1, <2>2, <1>2 DEF HeldInv, Unseen, feedVars
<1>9. ASSUME NEW v \in Polls \ {p}, ~poll'[v].overtaken,
             NEW q \in On(poll[v].todo), NEW r \in Reports, q \in Replaces[r]
      PROVE  Unseen(r)'
  <2>1. poll[v].todo # {}
    BY <1>9, OnNothing
  <2>2. Unseen(r) /\ poll[v].source # s
    BY <1>4, <1>9, <2>1 DEF StormInv, PollInv, Working
  <2>3. Source[r] # s
    BY <1>1, <1>9, <2>2, StormAssumption DEF HeldInv
  <2>4. r \notin On(feed[s])
    BY <1>1, <2>3 DEF FeedInv
  <2>. QED  BY <1>2, <1>3, <1>4, <2>2, <2>4 DEF Unseen, stormVars
<1>10. \A v \in Polls : PollInv(v)'
  BY <1>3, <1>4, <1>8, <1>9 DEF PollInv
<1>. QED  BY <1>5, <1>6, <1>7, <1>10 DEF StormInv

\* What a source publishes is new, and takes the place of what it supersedes.
LEMMA PublishStorm ==
    ASSUME StormInv, NEW n \in Reports, Publish(n)
    PROVE  StormInv'
<1>1. /\ StormTypeOK /\ HeldInv /\ \A s \in Sources : FeedInv(s)
      /\ Source[n] \in Sources
  BY StormAssumption DEF StormInv
<1>2. PICK list : list = Without(feed[Source[n]], Replaces[n])
  OBVIOUS
<1>3. PICK new : new = InFront(n, list)
  OBVIOUS
<1>4. /\ n \notin published /\ Replaces[n] \subseteq published
      /\ feed' = [feed EXCEPT ![Source[n]] = new]
      /\ published' = published \cup {n}
      /\ UNCHANGED <<season, stormVars, poll, failures>>
  BY <1>2, <1>3 DEF Publish
<1>5. /\ new \in SUBSET (Reports \X Reports)
      /\ On(new) \subseteq (On(feed[Source[n]]) \ Replaces[n]) \cup {n}
  <2>1. feed[Source[n]] \in SUBSET (Reports \X Reports)
    BY <1>1 DEF StormTypeOK
  <2>2. /\ list \in SUBSET (Reports \X Reports)
        /\ On(list) \subseteq On(feed[Source[n]]) \ Replaces[n]
    BY <1>2, <2>1, OnList
  <2>. QED  BY <1>3, <2>2, OnList
<1>6. StormTypeOK'
  BY <1>1, <1>4, <1>5 DEF StormTypeOK, stormVars
<1>7. ASSUME NEW s \in Sources, NEW q \in On(feed'[s])
      PROVE  /\ q = n => s = Source[n]
             /\ q # n => q \in On(feed[s])
             /\ q \notin Replaces[n] /\ (q = n \/ q \in published)
  <2>1. CASE s = Source[n]
    <3>1. q \in (On(feed[s]) \ Replaces[n]) \cup {n}
      BY <1>1, <1>4, <1>5, <1>7, <2>1 DEF StormTypeOK
    <3>. QED  BY <1>1, <1>4, <2>1, <3>1 DEF FeedInv
  <2>2. CASE s # Source[n]
    <3>1. q \in On(feed[s])
      BY <1>1, <1>4, <1>7, <2>2 DEF StormTypeOK
    <3>2. q \in published /\ Source[q] = s
      BY <1>1, <3>1 DEF FeedInv
    <3>3. q \notin Replaces[n]
      BY <2>2, <3>2, StormAssumption
    <3>. QED  BY <1>4, <3>1, <3>2, <3>3
  <2>. QED  BY <2>1, <2>2
<1>8. \A s \in Sources : FeedInv(s)'
  <2>. SUFFICES ASSUME NEW s \in Sources, NEW q \in On(feed'[s])
                PROVE  /\ q \in published' /\ Source[q] = s
                       /\ \A r \in published' : q \notin Replaces[r]
    BY DEF FeedInv
  <2>1. CASE q = n
    BY <1>1, <1>4, <1>7, <2>1 DEF HeldInv
  <2>2. CASE q # n
    BY <1>1, <1>4, <1>7, <2>2 DEF FeedInv
  <2>. QED  BY <2>1, <2>2
<1>9. HeldInv'
  BY <1>1, <1>4 DEF HeldInv, stormVars
<1>10. \A p \in Polls : PollInv(p)'
  BY <1>4 DEF StormInv, PollInv, Unseen, stormVars
<1>. QED  BY <1>6, <1>8, <1>9, <1>10 DEF StormInv

LEMMA NextStorm == StormInv /\ [StormNext]_watcherVars => StormInv'
<1>. SUFFICES ASSUME StormInv, [StormNext]_watcherVars PROVE StormInv'
  OBVIOUS
<1>1. ASSUME NEW r \in Reports, Withdraw(r) PROVE StormInv'
  <2>1. StormTypeOK /\ Source[r] \in Sources
    BY StormAssumption DEF StormInv
  <2>2. PICK new : new = Without(feed[Source[r]], {r})
    OBVIOUS
  <2>3. /\ feed' = [feed EXCEPT ![Source[r]] = new]
        /\ UNCHANGED <<published, season, stormVars, poll, failures>>
    BY <1>1, <2>2 DEF Withdraw
  <2>4. /\ new \in SUBSET (Reports \X Reports)
        /\ On(new) \subseteq On(feed[Source[r]])
    <3>1. feed[Source[r]] \in SUBSET (Reports \X Reports)
      BY <2>1 DEF StormTypeOK
    <3>. QED  BY <2>2, <3>1, OnList
  <2>5. StormTypeOK'
    BY <2>1, <2>3, <2>4 DEF StormTypeOK, stormVars
  <2>6. \A s \in Sources : On(feed'[s]) \subseteq On(feed[s])
    BY <2>1, <2>3, <2>4 DEF StormTypeOK
  <2>7. \A s \in Sources : FeedInv(s)'
    BY <2>3, <2>6 DEF StormInv, FeedInv
  <2>8. HeldInv' /\ \A p \in Polls : PollInv(p)'
    BY <2>3 DEF StormInv, HeldInv, PollInv, Unseen, stormVars
  <2>. QED  BY <2>5, <2>7, <2>8 DEF StormInv
<1>2. CASE TurnSeason
  BY <1>2 DEF TurnSeason, StormInv, StormTypeOK, FeedInv, HeldInv, PollInv,
              Unseen, stormVars
<1>3. CASE UNCHANGED watcherVars
  BY <1>3 DEF StormInv, StormTypeOK, FeedInv, HeldInv, PollInv, Unseen,
              watcherVars, feedVars, stormVars
<1>. QED
  BY <1>1, <1>2, <1>3, PublishStorm, FetchStorm, WorkStorm DEF StormNext

THEOREM StormInvariant == StormSpec => []StormInv
BY InitStorm, NextStorm, PTL DEF StormSpec

\* Type correctness: a row has both of its reports or none.
THEOREM StormTypes == StormSpec => []StormTypeOK
<1>1. StormInv => StormTypeOK
  BY DEF StormInv
<1>. QED  BY <1>1, StormInvariant, PTL

\* The row of a storm goes back to a superseded report only if the poll that
\* wrote it had been overtaken, for any number of polls and of reports.
THEOREM RowsGoForward == StormSpec => LatestGoesForward
<1>1. StormInv /\ [StormNext]_watcherVars =>
        [\A k \in Keys :
           latest[k] # NoReport /\ latest'[k] \in Replaces[latest[k]] =>
              \E p \in Polls : Current(p, latest'[k])
                               /\ poll[p].overtaken]_watcherVars
  <2>. SUFFICES ASSUME StormInv, StormNext, NEW k \in Keys,
                       latest[k] # NoReport,
                       latest'[k] \in Replaces[latest[k]]
                PROVE  \E p \in Polls : Current(p, latest'[k])
                                        /\ poll[p].overtaken
    OBVIOUS
  <2>1. /\ StormTypeOK /\ HeldInv /\ latest[k] \in Reports
        /\ latest[k] \in published
    BY DEF StormInv, StormTypeOK, HeldInv, Useful
  <2>2. latest'[k] # latest[k]
    BY <2>1 DEF HeldInv
  <2>3. PICK p \in Polls : RecordStorm(p)
    BY <2>2 DEF StormNext, Publish, Withdraw, TurnSeason, Fetch, UpsertFails,
                SkipReport, Choke, TimeOut, stormVars
  <2>4. PICK r \in Useful : Current(p, r) /\ Upsert(Key[r], r)
    BY <2>3 DEF RecordStorm
  <2>5. r = latest'[k]
    BY <2>1, <2>2, <2>4 DEF Upsert, StormTypeOK
  <2>6. r \in On(poll[p].todo)
    BY <2>1, <2>4, CurrentIsOn
  <2>7. CASE ~poll[p].overtaken
    BY <2>1, <2>5, <2>6, <2>7 DEF StormInv, PollInv, Unseen
  <2>. QED  BY <2>4, <2>5, <2>7
<1>. QED  BY <1>1, StormInvariant, PTL DEF StormSpec, LatestGoesForward

=============================================================================
