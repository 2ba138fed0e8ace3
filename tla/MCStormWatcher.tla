--------------------------- MODULE MCStormWatcher ---------------------------
(* A finite instance of StormWatcher: the hurricane center publishes two     *)
(* positions of one hurricane; the weather service publishes an alert, one   *)
(* of no interest and one that cannot be read.                               *)
EXTENDS StormWatcher, TLC

CONSTANTS position1, position2, alert, minor, unreadable, storm1, storm2,
          nhc, nws

MCReports == {position1, position2, alert, minor, unreadable}
MCSource == [r \in MCReports |->
               IF r \in {alert, minor, unreadable} THEN nws ELSE nhc]
MCKey == [r \in MCReports |-> IF MCSource[r] = nws THEN storm2 ELSE storm1]
MCReplaces == [r \in MCReports |->
                 IF r = position2 THEN {position1} ELSE {}]

=============================================================================
