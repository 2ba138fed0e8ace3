----------------------------- MODULE LeadGraph -----------------------------
(***************************************************************************)
(* What the pipeline promises about a lead, abstractly.  A lead walks the  *)
(* graph of stormlead_core/pipeline.py: each edge it takes leaves a state  *)
(* it has reached before, or one that somebody claimed it had reached.     *)
(* The audit timeline (lead_state_transitions) is the set of edges taken.  *)
(***************************************************************************)
CONSTANT Leads

VARIABLES timeline,   \* timeline[l]: the edges l has taken
          claimed     \* claimed[l]: the states l was said to have reached

graphVars == <<timeline, claimed>>

States == {"captured", "enriched", "qualified", "auctioned", "sold", "unsold",
           "rejected", "nurtured"}

\* _ALLOWED_TRANSITIONS
Allowed == {<<"captured", "enriched">>, <<"enriched", "qualified">>,
            <<"enriched", "rejected">>, <<"qualified", "auctioned">>,
            <<"auctioned", "sold">>, <<"auctioned", "unsold">>,
            <<"unsold", "nurtured">>, <<"rejected", "nurtured">>}

\* Rows written without a from_state, which assert_transition lets through: the
\* capture, and what the gate of the auction decides.
Entries == {"start"} \X {"captured", "qualified", "rejected"}

Edges == Allowed \cup Entries

Reached(l) == {edge[2] : edge \in timeline[l]}

Known(l) == {"start"} \cup Reached(l) \cup claimed[l]

GraphInit ==
    /\ timeline = [l \in Leads |-> {}]
    /\ claimed = [l \in Leads |-> {}]

\* A replay, or an event sent ahead of the commit it announces.
Claim(l, s) ==
    /\ claimed' = [claimed EXCEPT ![l] = @ \cup {s}]
    /\ UNCHANGED timeline

Walk(l, edge) ==
    /\ edge[1] \in Known(l)
    /\ timeline' = [timeline EXCEPT ![l] = @ \cup {edge}]
    /\ UNCHANGED claimed

GraphNext ==
    \E l \in Leads : \/ \E s \in States : Claim(l, s)
                     \/ \E edge \in Edges : Walk(l, edge)

GraphSpec == GraphInit /\ [][GraphNext]_graphVars

=============================================================================
