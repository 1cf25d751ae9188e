-------------------------------- MODULE MCBPM --------------------------------
(* Instances of BPMController for TLC. *)
EXTENDS BPMController

CONSTANTS diego, errand

TwoGroups == {diego, errand}
OneGroup == {diego}
OneErrand == {errand}

\* All groups stay.
Steady == [v \in Versions |-> IG]

\* The second manifest adds the errand.
Growing == [v \in Versions |-> IF v = 1 THEN IG \ Errands ELSE IG]
==============================================================================
