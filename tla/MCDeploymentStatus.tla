------------------------- MODULE MCDeploymentStatus -------------------------
(* Instances of DeploymentStatus for TLC. *)
EXTENDS DeploymentStatus

CONSTANTS j1, q1

OneQJob == {j1}
OneQSTS == {q1}
==============================================================================
