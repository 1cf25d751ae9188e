-------------------------------- MODULE MCPods --------------------------------
(* An instance of Pods for TLC: a workload of any kind consumes two links,
   one of which may come late, and waits for a StatefulSet. *)
EXTENDS Pods

Any == [o \in Owners |-> IF o = "db" THEN {"StatefulSet"} ELSE Kinds]
WebConsumes == [o \in Owners |-> IF o = "db" THEN {} ELSE Links]
OneChanges == [l \in Links |-> IF l = "link" THEN 3 ELSE 1]
WebWaits == [o \in Owners |-> IF o = "web" THEN {"db"} ELSE {}]
==============================================================================
