--------------------------- MODULE MCBOSHDeployment ---------------------------
(* Small instances of BOSHDeploymentController for TLC. *)
EXTENDS BOSHDeploymentController

\* No instance groups and no variables: runs about the meltdown alone.
NoGroups == [m \in Manifests |-> {}]
NoVars == [m \in Manifests |-> {}]

\* Manifest by manifest the user removes instance groups, all of them at the
\* first edit, and adds a variable.
ShrinkingGroups == [m \in Manifests |-> IF m[1] = 0 THEN IG ELSE {}]
GrowingVars == [m \in Manifests |-> IF m[1] = 0 THEN {} ELSE Var]
===============================================================================
