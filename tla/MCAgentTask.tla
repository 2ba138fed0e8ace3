---------------------------- MODULE MCAgentTask ----------------------------
(* Finite instances of AgentTask: a qualification and a scan. *)
EXTENDS AgentTask

CONSTANTS qualify, scan

MCRetries == [t \in Tasks |-> IF t = scan THEN 1 ELSE 2]

=============================================================================
