------------------------------ MODULE MCWithOps ------------------------------
(* Instances of WithOpsController for TLC. *)
EXTENDS WithOpsController

CONSTANTS cert, pw

TwoVars == {cert, pw}
==============================================================================
