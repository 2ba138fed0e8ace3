----------------------------- MODULE MCAuction -----------------------------
(***************************************************************************)
(* Finite instances of Auction.  Every lead may be offered to every buyer; *)
(* what differs between the instances is how many runs may overlap, on how *)
(* many leads, with how many cut-offs and operator requests.               *)
(***************************************************************************)
EXTENDS Auction, TLC

CONSTANT Refused   \* the leads of class d; the others may be auctioned

RoutingOfLeads == [l \in Leads |-> IF l \in Refused THEN "class_d" ELSE "route"]
AllMatch       == Leads \X Buyers

\* Buyers are interchangeable, and so are the leads that may be auctioned.
Symmetry == Permutations(Buyers) \cup Permutations(Leads \ Refused)

=============================================================================
