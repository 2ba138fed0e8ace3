--------------------------- MODULE MCLeadPipeline ---------------------------
(* Finite instances of LeadPipeline. *)
EXTENDS LeadPipeline

\* Two fewer than the workers declare: the auction has one more than the others.
FewRetries == [e \in Events |-> IF e = "qualified" THEN 1 ELSE 0]

=============================================================================
