----------------------------- MODULE MCReports -----------------------------
(* A finite instance of Reports: two leads of one phone, in two markets, one *)
(* delivery key of each, one call.                                           *)
EXTENDS Reports, TLC

CONSTANTS lead1, lead2, post1, post2, phone, call

MCPhoneOf == [l \in {lead1, lead2} |-> phone]
MCCallPhone == [c \in {call} |-> phone]
MCLeadOf == [p \in {post1, post2} |-> IF p = post1 THEN lead1 ELSE lead2]
MCBid == [p \in {post1, post2} |-> IF p = post1 THEN 1 ELSE 2]
MCMarkets == {{lead1}}

\* Requests under way are interchangeable.
MCSymmetry == Permutations(Handlers)

=============================================================================
