----------------------------- MODULE MCReturns -----------------------------
(***************************************************************************)
(* Finite instances of Returns: every sale is to the same buyer, at 1 or   *)
(* more cents.                                                             *)
(***************************************************************************)
EXTENDS Returns, TLC

TheBuyer == [s \in Sales |-> CHOOSE b \in Buyers : TRUE]
OneCent  == [s \in Sales |-> 1]

Symmetry == Permutations(Requests) \cup Permutations(RequestIds)

=============================================================================
