--------------------------- MODULE MCBuyerRoster ---------------------------
(* Finite instances of BuyerRoster. *)
EXTENDS BuyerRoster, TLC

\* Buyers are interchangeable and so are the requests under way.
BuyersAndCalls == Permutations(Buyers) \cup Permutations(Calls)

=============================================================================
