---------------------------- MODULE RolloutProofs ----------------------------
(***************************************************************************)
(* Proofs about Rollout, for any set of deployments: the types, the order  *)
(* in which serial groups come up, the order in which the processes of a   *)
(* pod stop, the instances pods render, the addresses they are told of,    *)
(* the volumes they mount and the links they get.                          *)
(*                                                                         *)
(* DocumentsProofs shows what the documents of a deployment hold.  No step *)
(* changes them; what pods do with them is shown here.                     *)
(***************************************************************************)
EXTENDS DocumentsProofs

\* A step of one pod.
StepOf(p) ==
    /\ p \in DOMAIN pods
    /\ DOMAIN pods' = DOMAIN pods
    /\ \A q \in DOMAIN pods \ {p} : pods'[q] = pods[q]

Same(p, field) == pods'[p][field] = pods[p][field]

LEMMA RunInitStep ==
    ASSUME NEW p, RunInit(p), pods[p] \in PodType(p), StepsCounted(d),
           p[1] \in Converts(d)
    PROVE  /\ StepOf(p) /\ pods'[p] \in PodType(p)
           /\ pods'[p].phase = "init" /\ pods[p].phase = "init"
           /\ pods'[p].step = pods[p].step + 1
           /\ Same(p, "stamps") /\ Same(p, "hooks") /\ Same(p, "restarted")
<1>. DEFINE init == Template(p).init
            i == pods[p].step + 1
            c == init[i].name
<1>1. /\ StepOf(p) /\ pods[p].phase = "init" /\ pods[p].step < Len(init)
      /\ pods' = [pods EXCEPT ![p].step = @ + 1,
                     ![p].instance = IF c[1] = "template-render"
                                     THEN Render(p, c[2]) ELSE @]
  BY DEF RunInit, StepOf
<1>2. Len(init) \in Nat /\ DOMAIN init = 1..Len(init)
  BY DEF StepsCounted, ObjectOf, Template, object, applied
<1>3. pods[p].step \in 0..Len(init)
  BY DEF PodType, PodOf
<1>4. i \in 0..Len(init) /\ i \in DOMAIN init
  BY <1>1, <1>2, <1>3
<1>5. init[i] \in ToSet(init)
  BY <1>4 DEF ToSet
<1>6. c[1] = "template-render" => Render(p, c[2]) \in Renderings(p)
  BY <1>5 DEF Renderings
<1>7. \E x \in {Nil} \cup Renderings(p) :
        pods'[p] = [pods[p] EXCEPT !.step = i, !.instance = x]
  <2>1. pods[p].instance \in {Nil} \cup Renderings(p)
    BY DEF PodType, PodOf
  <2>2. CASE c[1] = "template-render"
    BY <1>1, <1>6, <2>2 DEF StepOf
  <2>3. CASE c[1] # "template-render"
    BY <1>1, <2>1, <2>3 DEF StepOf
  <2>. QED  BY <2>2, <2>3
<1>8. PICK x \in {Nil} \cup Renderings(p) :
        pods'[p] = [pods[p] EXCEPT !.step = i, !.instance = x]
  BY <1>7
<1>. HIDE DEF i
<1>9. pods'[p] \in PodType(p)
  BY <1>4, <1>8 DEF PodType, PodOf
<1>10. /\ pods'[p].phase = pods[p].phase /\ pods'[p].step = i
       /\ pods'[p].stamps = pods[p].stamps /\ pods'[p].hooks = pods[p].hooks
       /\ pods'[p].restarted = pods[p].restarted
  BY <1>8 DEF PodType, PodOf
<1>. QED  BY <1>1, <1>9, <1>10 DEF i, Same

LEMMA StartStep ==
    ASSUME NEW p, StartContainers(p), pods[p] \in PodType(p)
    PROVE  /\ StepOf(p) /\ pods'[p] \in PodType(p)
           /\ pods'[p].phase = "started" /\ pods[p].phase = "init"
           /\ pods[p].step = Len(Template(p).init)
           /\ Same(p, "step")
           /\ Same(p, "stamps") /\ Same(p, "hooks") /\ Same(p, "restarted")
  BY DEF StartContainers, PodType, PodOf, Phases, StepOf, Same

LEMMA ReadyStep ==
    ASSUME NEW p, BecomeReady(p), pods[p] \in PodType(p)
    PROVE  /\ StepOf(p) /\ pods'[p] \in PodType(p)
           /\ pods'[p].phase \in {"ready", "done"} /\ pods[p].phase = "started"
           /\ Same(p, "step")
           /\ Same(p, "stamps") /\ Same(p, "hooks") /\ Same(p, "restarted")
           /\ pods'[p].phase = "ready" => served' = served \cup {p[1]}
           /\ served' \in {served, served \cup {p[1]}}
  BY DEF BecomeReady, PodType, PodOf, Phases, StepOf, Same

LEMMA DeleteStep ==
    ASSUME NEW p, Delete(p), pods[p] \in PodType(p)
    PROVE  /\ StepOf(p) /\ pods'[p] \in PodType(p)
           /\ pods'[p].phase = "terminating" /\ pods[p].phase \in {"started", "ready"}
           /\ Same(p, "step") /\ Same(p, "stamps") /\ Same(p, "restarted")
           /\ pods'[p].hooks = [k \in DOMAIN Template(p).containers |->
                                   StartHook(Template(p).containers[k])]
<1>. DEFINE hooks == [k \in DOMAIN Template(p).containers |->
                        StartHook(Template(p).containers[k])]
<1>1. hooks \in [DOMAIN Template(p).containers -> {"draining", "waiting", "stopped"}]
  BY DEF StartHook
<1>2. /\ StepOf(p) /\ pods[p].phase \in {"started", "ready"}
      /\ pods'[p] = [pods[p] EXCEPT !.phase = "terminating", !.hooks = hooks]
  BY DEF Delete, StepOf
<1>. HIDE DEF hooks
<1>3. pods'[p] \in PodType(p)
  BY <1>1, <1>2 DEF PodType, PodOf, Phases
<1>4. /\ pods'[p].phase = "terminating" /\ pods'[p].hooks = hooks
      /\ Same(p, "step") /\ Same(p, "stamps") /\ Same(p, "restarted")
  BY <1>2 DEF PodType, PodOf, Same
<1>. QED  BY <1>2, <1>3, <1>4 DEF hooks

LEMMA DrainedStep ==
    ASSUME NEW p, NEW k, Drained(p, k), pods[p] \in PodType(p),
           k \in Drainers(Template(p).containers)
    PROVE  /\ StepOf(p) /\ pods'[p] \in PodType(p)
           /\ pods'[p].phase = "terminating" /\ pods[p].phase = "terminating"
           /\ k \in DOMAIN pods[p].hooks /\ pods[p].hooks[k] = "draining"
           /\ Same(p, "step") /\ Same(p, "restarted")
           /\ pods'[p].hooks = [pods[p].hooks EXCEPT ![k] = "waiting"]
           /\ pods'[p].stamps = pods[p].stamps
                 \cup {Template(p).containers[k].preStop[1].script}
<1>. DEFINE hooks == [pods[p].hooks EXCEPT ![k] = "waiting"]
            stamps == pods[p].stamps \cup {Template(p).containers[k].preStop[1].script}
            cs == Template(p).containers
<1>1. /\ StepOf(p) /\ pods[p].phase = "terminating"
      /\ k \in DOMAIN pods[p].hooks /\ pods[p].hooks[k] = "draining"
      /\ pods'[p] = [pods[p] EXCEPT !.hooks = hooks, !.stamps = stamps]
  BY DEF Drained, StepOf, PodType, PodOf
<1>2. stamps \subseteq {cs[j].preStop[1].script : j \in Drainers(cs)}
  BY DEF PodType, PodOf
<1>3. hooks \in [DOMAIN cs -> {"draining", "waiting", "stopped"}]
  BY <1>1 DEF PodType, PodOf
<1>. HIDE DEF hooks, stamps
<1>4. pods'[p] \in PodType(p)
  BY <1>1, <1>2, <1>3 DEF PodType, PodOf
<1>5. /\ pods'[p].phase = "terminating" /\ pods'[p].hooks = hooks
      /\ pods'[p].stamps = stamps
      /\ Same(p, "step") /\ Same(p, "restarted")
  BY <1>1 DEF PodType, PodOf, Same
<1>. QED  BY <1>1, <1>4, <1>5 DEF hooks, stamps

LEMMA EndHookStep ==
    ASSUME NEW p, NEW k, EndHook(p, k), pods[p] \in PodType(p)
    PROVE  /\ StepOf(p) /\ pods'[p] \in PodType(p)
           /\ pods'[p].phase = "terminating" /\ pods[p].phase = "terminating"
           /\ k \in DOMAIN pods[p].hooks /\ pods[p].hooks[k] = "waiting"
           /\ Same(p, "step") /\ Same(p, "stamps") /\ Same(p, "restarted")
           /\ pods'[p].hooks = [pods[p].hooks EXCEPT ![k] = "stopped"]
<1>. DEFINE hooks == [pods[p].hooks EXCEPT ![k] = "stopped"]
<1>1. /\ StepOf(p) /\ pods[p].phase = "terminating"
      /\ k \in DOMAIN pods[p].hooks /\ pods[p].hooks[k] = "waiting"
      /\ pods'[p] = [pods[p] EXCEPT !.hooks = hooks]
  BY DEF EndHook, StepOf, PodType, PodOf
<1>2. hooks \in [DOMAIN Template(p).containers -> {"draining", "waiting", "stopped"}]
  BY <1>1 DEF PodType, PodOf
<1>. HIDE DEF hooks
<1>3. pods'[p] \in PodType(p)
  BY <1>1, <1>2 DEF PodType, PodOf
<1>4. /\ pods'[p].phase = "terminating" /\ pods'[p].hooks = hooks
      /\ Same(p, "step") /\ Same(p, "stamps") /\ Same(p, "restarted")
  BY <1>1 DEF PodType, PodOf, Same
<1>. QED  BY <1>1, <1>3, <1>4 DEF hooks

LEMMA RestartStep ==
    ASSUME NEW p, NEW k, RestartContainer(p, k), pods[p] \in PodType(p)
    PROVE  /\ StepOf(p) /\ pods'[p] \in PodType(p)
           /\ pods'[p].phase = "ready" /\ pods[p].phase = "ready"
           /\ pods'[p].restarted /\ Same(p, "step") /\ Same(p, "hooks")
<1>. DEFINE cs == Template(p).containers
            script == cs[k].preStop[1].script
            stamps == IF script = Nil THEN pods[p].stamps
                      ELSE pods[p].stamps \cup {script}
<1>1. /\ StepOf(p) /\ pods[p].phase = "ready"
      /\ k \in DOMAIN cs /\ cs[k].preStop # Nil
      /\ pods'[p] = [pods[p] EXCEPT !.restarted = TRUE, !.stamps = stamps]
  BY DEF RestartContainer, StepOf, IsReady, PodType, PodOf
<1>2. script # Nil => k \in Drainers(cs)
  BY <1>1 DEF Drainers
<1>3. stamps \subseteq {cs[j].preStop[1].script : j \in Drainers(cs)}
  BY <1>2 DEF PodType, PodOf
<1>. HIDE DEF stamps
<1>4. pods'[p] \in PodType(p)
  BY <1>1, <1>3 DEF PodType, PodOf
<1>5. /\ pods'[p].phase = "ready" /\ pods'[p].restarted
      /\ Same(p, "step") /\ Same(p, "hooks")
  BY <1>1 DEF PodType, PodOf, Same
<1>. QED  BY <1>1, <1>4, <1>5

LEMMA CreateStep ==
    ASSUME NEW p, CreatePod(p), StepsCounted(d), p[1] \in Converts(d)
    PROVE  /\ DOMAIN pods' = DOMAIN pods \cup {p} /\ p \notin DOMAIN pods
           /\ \A q \in DOMAIN pods : pods'[q] = pods[q]
           /\ pods'[p] = NewPod /\ NewPod \in PodType(p)
<1>1. Len(Template(p).init) \in Nat
  BY DEF StepsCounted, ObjectOf, Template, object, applied
<1>2. NewPod \in PodType(p)
  BY <1>1 DEF NewPod, PodType, PodOf, Phases
<1>. QED  BY <1>2 DEF CreatePod, Added

LEMMA GoneStep ==
    ASSUME NEW p, Terminated(p) \/ GracePeriodEnds(p)
    PROVE  /\ DOMAIN pods' = DOMAIN pods \ {p}
           /\ \A q \in DOMAIN pods' : pods'[q] = pods[q]
  BY DEF Terminated, GracePeriodEnds, Gone

-----------------------------------------------------------------------------
(* Types *)

\* What a pod is made from depends on the documents only.
LEMMA SameDocuments ==
    ASSUME d' = d
    PROVE  /\ Groups' = Groups
           /\ \A g : object(g)' = object(g) /\ PodIds(g)' = PodIds(g)
           /\ \A p : Template(p)' = Template(p) /\ PodType(p)' = PodType(p)
<1>1. \A g : object(g)' = object(g) /\ output(g)' = output(g)
  BY DEF object, applied, output
<1>2. \A g : PodIds(g)' = PodIds(g)
  BY <1>1 DEF PodIds, Zones
<1>3. \A p : Template(p)' = Template(p)
  BY <1>1 DEF Template
<1>4. \A p, i : Render(p, i)' = Render(p, i)
  BY <1>1 DEF Render
<1>5. \A p : Renderings(p)' = Renderings(p)
  BY <1>3, <1>4 DEF Renderings
<1>6. \A p : PodType(p)' = PodType(p)
  BY <1>3, <1>5 DEF PodType
<1>. QED  BY <1>1, <1>2, <1>3, <1>6 DEF Groups

\* The state of one pod fits its hooks.
HooksFit(p) ==
    IF pods[p].phase = "terminating"
    THEN DOMAIN pods[p].hooks = DOMAIN Template(p).containers
    ELSE pods[p].hooks = <<>>

HooksOf(p) ==
    \A k \in DOMAIN pods[p].hooks :
        LET c == Template(p).containers[k]
        IN /\ object(p[1]).kind = "QuarksStatefulSet"
           /\ pods[p].hooks[k] = "draining" => k \in Drainers(Template(p).containers)
           /\ pods[p].hooks[k] = "waiting" => c.preStop # Nil

PodOK(p) == pods[p] \in PodType(p) /\ HooksFit(p) /\ HooksOf(p)

Counters ==
    /\ served \subseteq converted
    /\ deletions \in 0..MaxDeletions /\ restarts \in 0..MaxRestarts

OperatorOK ==
    /\ \E c \in Deployments :
           c.manifest = d.manifest /\ c.initial = d.initial /\ c.version = d.version
    /\ published \in BOOLEAN
    /\ converted \subseteq resolved /\ resolved \subseteq Groups
    /\ ConvertedApplied

\* RolloutInv, pod by pod.
LEMMA RolloutParts ==
    RolloutInv <=> /\ OperatorOK /\ Counters
                   /\ DOMAIN pods \subseteq AllPods
                   /\ \A p \in DOMAIN pods : PodOK(p)
  BY DEF RolloutInv, TypeOK, HooksPlanned, OperatorOK, Counters, PodOK, HooksFit,
         HooksOf

LEMMA RolloutPartsNext ==
    ASSUME OperatorOK', Counters', DOMAIN pods' \subseteq AllPods',
           \A p \in DOMAIN pods' : PodOK(p)'
    PROVE  RolloutInv'
  BY DEF RolloutInv, TypeOK, HooksPlanned, OperatorOK, Counters, PodOK, HooksFit,
         HooksOf

\* The group of a pod is converted.
LEMMA PodConverted ==
    ASSUME RolloutInv, NEW p \in DOMAIN pods
    PROVE  p[1] \in converted /\ p[1] \in Converts(d)
<1>1. PICK g \in converted : p \in PodIds(g)
  BY DEF RolloutInv, TypeOK, AllPods
<1>2. p[1] = g
  <2>1. CASE object(g).kind = "QuarksStatefulSet"
    <3>1. p \in {g} \X Zones(g) \X (0..(object(g).replicas - 1))
      BY <1>1, <2>1 DEF PodIds
    <3>. QED  BY <3>1
  <2>2. CASE object(g).kind # "QuarksStatefulSet"
    BY <1>1, <2>2 DEF PodIds
  <2>. QED  BY <2>1, <2>2
<1>. QED  BY <1>1, <1>2 DEF RolloutInv, TypeOK, ConvertedApplied, Converts, Groups

\* A pod that does not change stays as it should be, whatever is converted.
LEMMA OtherPods ==
    ASSUME d' = d, NEW q \in DOMAIN pods, q \in DOMAIN pods', PodOK(q),
           pods'[q] = pods[q]
    PROVE  PodOK(q)'
<1>1. /\ Template(q)' = Template(q) /\ PodType(q)' = PodType(q)
      /\ object(q[1])' = object(q[1])
  BY SameDocuments
<1>2. HooksFit(q)' /\ HooksOf(q)'
  BY <1>1 DEF PodOK, HooksFit, HooksOf
<1>. QED  BY <1>1, <1>2 DEF PodOK

\* The pods there may be only become more.
LEMMA MorePods ==
    ASSUME d' = d, converted \subseteq converted'
    PROVE  AllPods \subseteq AllPods'
  BY SameDocuments DEF AllPods

\* A step of one pod.
LEMMA OnePod ==
    ASSUME RolloutInv, NEW p, StepOf(p), UNCHANGED progress, PodOK(p)', Counters'
    PROVE  RolloutInv'
<1>1. UNCHANGED <<d, published, resolved, converted>>
  BY DEF progress
<1>2. OperatorOK' /\ AllPods \subseteq AllPods'
  <2>1. OperatorOK
    BY RolloutParts
  <2>2. OperatorOK'
    BY <1>1, <2>1 DEF OperatorOK, ConvertedApplied, Groups
  <2>. QED  BY <1>1, <2>2, MorePods
<1>3. DOMAIN pods' \subseteq AllPods'
  BY <1>2, RolloutParts DEF StepOf
<1>4. \A q \in DOMAIN pods' : PodOK(q)'
  <2>1. ASSUME NEW q \in DOMAIN pods', q # p PROVE PodOK(q)'
    BY <1>1, <2>1, RolloutParts, OtherPods DEF StepOf
  <2>. QED  BY <2>1
<1>. QED  BY <1>2, <1>3, <1>4, RolloutPartsNext

\* Every step keeps the types and what hooks are planned.
LEMMA RolloutNext ==
    ASSUME RolloutInv, StepsCounted(d), [Next]_vars
    PROVE  RolloutInv'
<1>0. /\ OperatorOK /\ Counters /\ DOMAIN pods \subseteq AllPods
      /\ \A p \in DOMAIN pods : PodOK(p)
  BY RolloutParts
<1>1. CASE Operator
  <2>1. /\ d' = d /\ converted \subseteq converted' /\ UNCHANGED pods
        /\ UNCHANGED <<served, deletions, restarts>>
    BY <1>1 DEF Operator, Publish, RunInstanceGroup, Convert
  <2>2. OperatorOK'
    <3>1. CASE Publish
      BY <1>0, <3>1 DEF Publish, OperatorOK, ConvertedApplied, Groups
    <3>2. ASSUME NEW g \in Groups, RunInstanceGroup(g) PROVE OperatorOK'
      BY <1>0, <3>2 DEF RunInstanceGroup, OperatorOK, ConvertedApplied, Groups
    <3>3. ASSUME NEW g \in Groups, Convert(g) PROVE OperatorOK'
      BY <1>0, <3>3 DEF Convert, OperatorOK, ConvertedApplied, Groups
    <3>. QED  BY <1>1, <3>1, <3>2, <3>3 DEF Operator
  <2>3. Counters'
    BY <1>0, <2>1 DEF Counters
  <2>4. DOMAIN pods' \subseteq AllPods'
    BY <1>0, <2>1, MorePods
  <2>5. \A q \in DOMAIN pods' : PodOK(q)'
    BY <1>0, <2>1, OtherPods
  <2>. QED  BY <2>2, <2>3, <2>4, <2>5, RolloutPartsNext
<1>2. ASSUME NEW p, CreatePod(p) PROVE RolloutInv'
  <2>1. p[1] \in Converts(d) /\ p \in AllPods /\ UNCHANGED progress
    BY <1>0, <1>2 DEF CreatePod, OperatorOK, ConvertedApplied, Converts, Groups, AllPods
  <2>2. /\ DOMAIN pods' = DOMAIN pods \cup {p} /\ p \notin DOMAIN pods
        /\ \A q \in DOMAIN pods : pods'[q] = pods[q]
        /\ pods'[p] = NewPod /\ NewPod \in PodType(p)
    BY <1>2, <2>1, CreateStep
  <2>3. UNCHANGED <<d, published, resolved, converted, served, deletions, restarts>>
    BY <1>2 DEF CreatePod, progress
  <2>4. OperatorOK' /\ Counters' /\ AllPods \subseteq AllPods'
    <3>1. OperatorOK' /\ Counters'
      BY <1>0, <2>3 DEF OperatorOK, Counters, ConvertedApplied, Groups
    <3>. QED  BY <2>3, <3>1, MorePods
  <2>5. PodOK(p)'
    <3>1. NewPod.hooks = <<>> /\ NewPod.phase = "init"
      BY DEF NewPod
    <3>2. pods'[p] \in PodType(p)'
      BY <2>2, <2>3, SameDocuments
    <3>. QED  BY <2>2, <3>1, <3>2 DEF PodOK, HooksFit, HooksOf
  <2>6. \A q \in DOMAIN pods' : PodOK(q)'
    BY <1>0, <2>2, <2>3, <2>5, OtherPods
  <2>7. DOMAIN pods' \subseteq AllPods'
    BY <1>0, <2>1, <2>2, <2>4
  <2>. QED  BY <2>4, <2>6, <2>7, RolloutPartsNext
<1>3. ASSUME NEW p, RunInit(p) \/ StartContainers(p) \/ BecomeReady(p)
      PROVE  RolloutInv'
  <2>1. /\ p \in DOMAIN pods /\ UNCHANGED progress
        /\ UNCHANGED <<deletions, restarts>>
    BY <1>3 DEF RunInit, StartContainers, BecomeReady
  <2>2. PodOK(p) /\ p[1] \in converted /\ p[1] \in Converts(d)
    BY <1>0, <2>1, PodConverted
  <2>3. /\ StepOf(p) /\ pods'[p] \in PodType(p)
        /\ pods'[p].phase # "terminating" /\ pods[p].phase # "terminating"
        /\ Same(p, "hooks")
    BY <1>3, <2>2, RunInitStep, StartStep, ReadyStep DEF PodOK
  <2>4. served' \in {served, served \cup {p[1]}}
    BY <1>3 DEF RunInit, StartContainers, BecomeReady
  <2>5. Counters'
    BY <1>0, <2>1, <2>2, <2>4 DEF Counters, progress
  <2>6. PodOK(p)'
    <3>1. pods'[p].hooks = <<>>
      BY <2>2, <2>3 DEF PodOK, HooksFit, Same
    <3>2. pods'[p] \in PodType(p)'
      BY <2>1, <2>3, SameDocuments DEF progress
    <3>. QED  BY <2>3, <3>1, <3>2 DEF PodOK, HooksFit, HooksOf
  <2>. QED  BY <2>1, <2>3, <2>5, <2>6, OnePod
<1>4. ASSUME NEW p, Delete(p) PROVE RolloutInv'
  <2>. DEFINE cs == Template(p).containers
  <2>1. /\ p \in DOMAIN pods /\ UNCHANGED progress
        /\ UNCHANGED <<served, restarts>> /\ deletions < MaxDeletions
        /\ deletions' = deletions + 1
        /\ object(p[1]).kind = "QuarksStatefulSet"
    BY <1>4 DEF Delete
  <2>2. PodOK(p)
    BY <1>0, <2>1
  <2>3. /\ StepOf(p) /\ pods'[p] \in PodType(p) /\ pods'[p].phase = "terminating"
        /\ pods'[p].hooks = [k \in DOMAIN cs |-> StartHook(cs[k])]
    BY <1>4, <2>2, DeleteStep DEF PodOK
  <2>4. Counters'
    BY <1>0, <2>1, RolloutAssumption DEF Counters, progress
  <2>5. /\ PodType(p)' = PodType(p) /\ Template(p)' = Template(p)
        /\ object(p[1])' = object(p[1])
    BY <2>1, SameDocuments DEF progress
  <2>6. HooksFit(p)'
    BY <2>3, <2>5 DEF HooksFit
  <2>7. HooksOf(p)'
    BY <2>1, <2>3, <2>5 DEF HooksOf, StartHook, Drainers
  <2>. QED  BY <2>1, <2>3, <2>4, <2>5, <2>6, <2>7, OnePod DEF PodOK
<1>5. ASSUME NEW p, NEW k, Drained(p, k) \/ EndHook(p, k) PROVE RolloutInv'
  <2>. DEFINE cs == Template(p).containers
  <2>1. /\ p \in DOMAIN pods /\ UNCHANGED progress
        /\ UNCHANGED <<served, deletions, restarts>>
    BY <1>5 DEF Drained, EndHook
  <2>2. PodOK(p)
    BY <1>0, <2>1
  <2>3. k \in DOMAIN pods[p].hooks /\ (Drained(p, k) => k \in Drainers(cs))
    BY <1>5, <2>2 DEF PodOK, HooksOf, Drained, EndHook
  <2>4. /\ StepOf(p) /\ pods'[p] \in PodType(p)
        /\ pods'[p].phase = "terminating" /\ pods[p].phase = "terminating"
        /\ \E h \in {"waiting", "stopped"} :
              /\ pods'[p].hooks = [pods[p].hooks EXCEPT ![k] = h]
              /\ h = "waiting" => k \in Drainers(cs)
    BY <1>5, <2>2, <2>3, DrainedStep, EndHookStep DEF PodOK
  <2>5. Counters'
    BY <1>0, <2>1 DEF Counters, progress
  <2>6. /\ PodType(p)' = PodType(p) /\ Template(p)' = Template(p)
        /\ object(p[1])' = object(p[1])
    BY <2>1, SameDocuments DEF progress
  <2>7. HooksFit(p)'
    BY <2>2, <2>4, <2>6 DEF HooksFit, PodOK
  <2>8. HooksOf(p)'
    BY <2>2, <2>3, <2>4, <2>6 DEF HooksOf, PodOK, Drainers
  <2>. QED  BY <2>1, <2>4, <2>5, <2>6, <2>7, <2>8, OnePod DEF PodOK
<1>6. ASSUME NEW p, Terminated(p) \/ GracePeriodEnds(p) PROVE RolloutInv'
  <2>1. UNCHANGED <<d, published, resolved, converted, served, deletions, restarts>>
    BY <1>6 DEF Terminated, GracePeriodEnds, progress
  <2>2. /\ DOMAIN pods' = DOMAIN pods \ {p}
        /\ \A q \in DOMAIN pods' : pods'[q] = pods[q]
    BY <1>6, GoneStep
  <2>3. OperatorOK' /\ Counters'
    BY <1>0, <2>1 DEF OperatorOK, Counters, ConvertedApplied, Groups
  <2>4. DOMAIN pods' \subseteq AllPods'
    BY <1>0, <2>1, <2>2, MorePods
  <2>5. \A q \in DOMAIN pods' : PodOK(q)'
    BY <1>0, <2>1, <2>2, OtherPods
  <2>. QED  BY <2>3, <2>4, <2>5, RolloutPartsNext
<1>7. ASSUME NEW p, NEW k, RestartContainer(p, k) PROVE RolloutInv'
  <2>1. /\ p \in DOMAIN pods /\ UNCHANGED progress
        /\ UNCHANGED <<served, deletions>> /\ restarts < MaxRestarts
        /\ restarts' = restarts + 1
    BY <1>7 DEF RestartContainer, IsReady
  <2>2. PodOK(p)
    BY <1>0, <2>1
  <2>3. /\ StepOf(p) /\ pods'[p] \in PodType(p)
        /\ pods'[p].phase = "ready" /\ pods[p].phase = "ready"
        /\ Same(p, "hooks")
    BY <1>7, <2>2, RestartStep DEF PodOK
  <2>4. Counters'
    BY <1>0, <2>1, RolloutAssumption DEF Counters, progress
  <2>5. pods'[p].hooks = <<>>
    BY <2>2, <2>3 DEF PodOK, HooksFit, Same
  <2>6. pods'[p] \in PodType(p)'
    BY <2>1, <2>3, SameDocuments DEF progress
  <2>7. PodOK(p)'
    BY <2>3, <2>5, <2>6 DEF PodOK, HooksFit, HooksOf
  <2>. QED  BY <2>1, <2>3, <2>4, <2>7, OnePod
<1>8. CASE UNCHANGED vars
  <2>1. UNCHANGED <<d, published, resolved, converted, pods, served, deletions, restarts>>
    BY <1>8 DEF vars, progress
  <2>2. OperatorOK' /\ Counters'
    BY <1>0, <2>1 DEF OperatorOK, Counters, ConvertedApplied, Groups
  <2>3. DOMAIN pods' \subseteq AllPods' /\ \A q \in DOMAIN pods' : PodOK(q)'
    BY <1>0, <2>1, MorePods, OtherPods
  <2>. QED  BY <2>2, <2>3, RolloutPartsNext
<1>. QED
  BY <1>1, <1>2, <1>3, <1>4, <1>5, <1>6, <1>7, <1>8 DEF Next, RunPod, RunHooks

LEMMA RolloutInit == Init => RolloutInv
<1>. SUFFICES ASSUME Init PROVE RolloutInv
  OBVIOUS
<1>1. PICK c \in Deployments : d = Documents(c)
  BY DEF Init
<1>2. d.manifest = c.manifest /\ d.initial = c.initial /\ d.version = c.version
  BY <1>1 DEF Documents, WithJob, WithOutputs
<1>3. OperatorOK
  BY <1>2 DEF Init, OperatorOK, ConvertedApplied
<1>4. Counters
  BY RolloutAssumption DEF Init, Counters
<1>5. DOMAIN pods = {}
  BY DEF Init
<1>. QED  BY <1>3, <1>4, <1>5, RolloutParts

\* The documents stay what they are, and who has served has served.
LEMMA StepsGrow ==
    ASSUME [Next]_vars
    PROVE  d' = d /\ served \subseteq served'
  BY DEF Next, Operator, Publish, RunInstanceGroup, Convert, RunPod, RunHooks,
         CreatePod, RunInit, StartContainers, BecomeReady, Delete, Drained,
         EndHook, Terminated, GracePeriodEnds, RestartContainer, vars, progress

\* What the documents promise, as DocumentsProofs has shown.
LEMMA DocumentsInit ==
    Init => StepsCounted(d) /\ WaitsChained(d) /\ HooksCounted(d)
<1>. SUFFICES ASSUME Init PROVE StepsCounted(d) /\ WaitsChained(d) /\ HooksCounted(d)
  OBVIOUS
<1>1. PICK c \in Deployments : d = Documents(c)
  BY DEF Init
<1>. QED  BY <1>1, StepsOfDocuments, WaitsOfDocuments, HooksOfDocuments

\* Every reachable state of a rollout is well typed, for any deployments:
\* resources come from outputs, pods from resources, stamps from drain scripts
\* and hooks from the containers of the template (bpm_reconciler.go,
\* containers.go, init_containers.go).
THEOREM RolloutTypeCorrect == Spec => []TypeOK
<1>. DEFINE Inv == RolloutInv /\ StepsCounted(d)
<1>1. Inv /\ [Next]_vars => Inv'
  BY RolloutNext, StepsGrow
<1>2. Inv => TypeOK
  BY DEF RolloutInv
<1>3. Init => Inv
  BY RolloutInit, DocumentsInit
<1>. QED  BY <1>1, <1>2, <1>3, PTL DEF Spec

\* In any deployment, whatever mix of serial and parallel groups with and
\* without ports its manifest has, and whatever addons were placed in them,
\* the services that calculateRequiredServices (apply_update_block.go) makes
\* the groups wait for are enough: each group waits for one, and all that it
\* has to come after is behind that one.
THEOREM GroupsWaitForAllAhead == Spec => []WaitsForAllAhead
<1>1. WaitsForAllAhead /\ [Next]_vars => WaitsForAllAhead'
  BY StepsGrow DEF WaitsForAllAhead
<1>2. Init => WaitsForAllAhead
  BY DocumentsInit DEF WaitsForAllAhead
<1>. QED  BY <1>1, <1>2, PTL DEF Spec

\* In any deployment, whatever jobs with whatever BPM processes its groups
\* have, the stamps that the hooks of a pod wait for (drainStampCount in
\* containers.go) are as many as its containers' drain scripts.
THEOREM HooksCountAllDrains == Spec => []HooksCountDrains
<1>1. HooksCountDrains /\ [Next]_vars => HooksCountDrains'
  BY StepsGrow DEF HooksCountDrains
<1>2. Init => HooksCountDrains
  BY DocumentsInit DEF HooksCountDrains
<1>. QED  BY <1>1, <1>2, PTL DEF Spec

-----------------------------------------------------------------------------
(* The order of serial groups *)

\* SerialInv, for one pod.
PodWaited(p) ==
    /\ pods[p].phase # "init" => pods[p].step = Len(Template(p).init)
    /\ pods[p].phase = "ready" => p[1] \in served
    /\ \A k \in 1..pods[p].step : \A r \in Groups :
          WaitsFor(d, p[1], k, r) => Ahead(d, p[1]) \subseteq served

LEMMA SerialParts ==
    SerialInv <=> /\ RolloutInv /\ ServedInOrder
                  /\ \A p \in DOMAIN pods : PodWaited(p)
  BY DEF SerialInv, InitDone, ReadyServes, WaitedFor, PodWaited

LEMMA SerialPartsNext ==
    ASSUME RolloutInv', ServedInOrder', \A p \in DOMAIN pods' : PodWaited(p)'
    PROVE  SerialInv'
  BY DEF SerialInv, InitDone, ReadyServes, WaitedFor, PodWaited

\* A pod that makes no step of its init containers.
LEMMA WaitedKept ==
    ASSUME d' = d, served \subseteq served', NEW p, PodWaited(p),
           pods'[p].step = pods[p].step,
           pods'[p].phase # "init" => pods[p].step = Len(Template(p).init),
           pods'[p].phase = "ready" => p[1] \in served'
    PROVE  PodWaited(p)'
<1>1. Template(p)' = Template(p) /\ Groups' = Groups
  BY SameDocuments
<1>. QED  BY <1>1 DEF PodWaited

\* Past its init containers, a pod has waited for all groups ahead of it.
LEMMA AllWaitedFor ==
    ASSUME RolloutInv, StepsCounted(d), WaitsChained(d), NEW p \in DOMAIN pods,
           PodWaited(p), pods[p].phase # "init"
    PROVE  Ahead(d, p[1]) \subseteq served
<1>. SUFFICES ASSUME Ahead(d, p[1]) # {} PROVE Ahead(d, p[1]) \subseteq served
  OBVIOUS
<1>. DEFINE init == Template(p).init
<1>1. p[1] \in Converts(d)
  BY PodConverted
<1>2. init = ObjectOf(d, p[1]).template.init
  BY DEF Template, object, applied, ObjectOf
<1>3. Len(init) \in Nat /\ DOMAIN init = 1..Len(init)
  BY <1>1, <1>2 DEF StepsCounted
<1>4. PICK k \in DOMAIN init, r \in Groups : WaitsFor(d, p[1], k, r)
  BY <1>1, <1>2 DEF WaitsChained, Groups
<1>5. k \in 1..pods[p].step
  BY <1>3, <1>4 DEF PodWaited
<1>. QED  BY <1>4, <1>5 DEF PodWaited

\* When the wait container ends, a pod of the group it waits for is ready; that
\* group has served, and so have all groups ahead of it.
LEMMA WaitOver ==
    ASSUME SerialInv, NEW p \in DOMAIN pods, RunInit(p), NEW r \in Groups,
           WaitsFor(d, p[1], pods[p].step + 1, r)
    PROVE  Ahead(d, p[1]) \subseteq served
<1>. DEFINE c == Template(p).init[pods[p].step + 1].name
<1>1. c = <<"wait-for", ServiceName(r)>>
  BY DEF WaitsFor, Template, object, applied, ObjectOf
<1>2. c[1] = "wait-for" /\ c[2] = ServiceName(r)
  BY <1>1
<1>3. Resolves(ServiceName(r))
  BY <1>2 DEF RunInit
<1>4. PICK g \in converted : \E s \in applied(g).services : \E q \in DOMAIN pods :
        s.name = ServiceName(r) /\ q[1] = g /\ IsReady(q)
  BY <1>3 DEF Resolves
<1>5. g \in Converts(d)
  BY DEF SerialInv, RolloutInv, TypeOK, ConvertedApplied, Converts, Groups
<1>6. g = r
  BY <1>4, <1>5 DEF WaitsFor, applied
<1>7. r \in served
  BY <1>4, <1>6 DEF SerialInv, ReadyServes, IsReady
<1>8. Ahead(d, r) \subseteq served
  BY <1>7 DEF SerialInv, ServedInOrder
<1>. QED  BY <1>7, <1>8 DEF WaitsFor

\* A step of one pod keeps the order, if it keeps it for that pod.
LEMMA SerialPod ==
    ASSUME SerialInv, RolloutInv', d' = d, served \subseteq served', ServedInOrder',
           NEW p, PodWaited(p)', \A q \in DOMAIN pods' \ {p} :
                                     q \in DOMAIN pods /\ pods'[q] = pods[q]
    PROVE  SerialInv'
<1>1. \A q \in DOMAIN pods : PodWaited(q)
  BY SerialParts
<1>2. ASSUME NEW q \in DOMAIN pods', q # p PROVE PodWaited(q)'
  <2>1. q \in DOMAIN pods /\ pods'[q] = pods[q] /\ PodWaited(q)
    BY <1>1, <1>2
  <2>2. /\ pods[q].phase # "init" => pods[q].step = Len(Template(q).init)
        /\ pods[q].phase = "ready" => q[1] \in served'
    BY <2>1 DEF PodWaited
  <2>. QED  BY <2>1, <2>2, WaitedKept
<1>. QED  BY <1>2, SerialPartsNext

LEMMA InOrderKept ==
    ASSUME ServedInOrder, d' = d, served' = served
    PROVE  ServedInOrder'
  BY DEF ServedInOrder

\* Every step keeps the order in which groups serve.
LEMMA SerialNext ==
    ASSUME SerialInv, StepsCounted(d), WaitsChained(d), [Next]_vars
    PROVE  SerialInv'
<1>0. /\ RolloutInv /\ ServedInOrder /\ \A p \in DOMAIN pods : PodWaited(p)
      /\ \A p \in DOMAIN pods : pods[p] \in PodType(p)
  BY SerialParts DEF RolloutInv, TypeOK
<1>1. RolloutInv' /\ d' = d /\ served \subseteq served'
  BY <1>0, RolloutNext, StepsGrow
<1>2. ASSUME UNCHANGED <<pods, served>> PROVE SerialInv'
  <2>1. ServedInOrder'
    BY <1>0, <1>1, <1>2, InOrderKept
  <2>2. ASSUME NEW q \in DOMAIN pods' PROVE PodWaited(q)'
    <3>1. PodWaited(q)
      BY <1>0, <1>2, <2>2
    <3>2. /\ pods[q].phase # "init" => pods[q].step = Len(Template(q).init)
          /\ pods[q].phase = "ready" => q[1] \in served
      BY <3>1 DEF PodWaited
    <3>. QED  BY <1>1, <1>2, <3>1, <3>2, WaitedKept
  <2>. QED  BY <1>1, <2>1, <2>2, SerialPartsNext
<1>3. ASSUME NEW p, CreatePod(p) PROVE SerialInv'
  <2>1. p[1] \in Converts(d) /\ served' = served
    BY <1>0, <1>3 DEF CreatePod, RolloutInv, TypeOK, ConvertedApplied, Converts, Groups
  <2>2. /\ DOMAIN pods' = DOMAIN pods \cup {p}
        /\ \A q \in DOMAIN pods : pods'[q] = pods[q]
        /\ pods'[p] = NewPod
    BY <1>3, <2>1, CreateStep
  <2>3. NewPod.step = 0 /\ NewPod.phase = "init"
    BY DEF NewPod
  <2>4. PodWaited(p)'
    BY <2>2, <2>3 DEF PodWaited
  <2>5. ServedInOrder'
    BY <1>0, <1>1, <2>1, InOrderKept
  <2>. QED  BY <1>1, <2>2, <2>4, <2>5, SerialPod
<1>4. ASSUME NEW p, RunInit(p) PROVE SerialInv'
  <2>1. p \in DOMAIN pods /\ served' = served
    BY <1>4 DEF RunInit
  <2>2. p[1] \in Converts(d) /\ pods[p] \in PodType(p) /\ PodWaited(p)
    BY <1>0, <2>1, PodConverted
  <2>3. /\ StepOf(p) /\ pods'[p].phase = "init"
        /\ pods'[p].step = pods[p].step + 1
    BY <1>4, <2>2, RunInitStep
  <2>4. pods[p].step \in Nat
    BY <2>2 DEF PodType, PodOf
  <2>5. ASSUME NEW k \in 1..pods'[p].step, NEW r \in Groups, WaitsFor(d, p[1], k, r)
        PROVE  Ahead(d, p[1]) \subseteq served
    <3>1. k \in 1..pods[p].step \/ k = pods[p].step + 1
      BY <2>3, <2>4
    <3>2. CASE k \in 1..pods[p].step
      BY <2>2, <2>5, <3>2 DEF PodWaited
    <3>3. CASE k = pods[p].step + 1
      BY <1>4, <2>1, <2>5, <3>3, WaitOver
    <3>. QED  BY <3>1, <3>2, <3>3
  <2>6. PodWaited(p)'
    <3>1. Groups' = Groups
      BY <1>1, SameDocuments
    <3>. QED  BY <1>1, <2>1, <2>3, <2>5, <3>1 DEF PodWaited
  <2>7. ServedInOrder'
    BY <1>0, <1>1, <2>1, InOrderKept
  <2>. QED  BY <1>1, <2>3, <2>6, <2>7, SerialPod DEF StepOf
<1>5. ASSUME NEW p, StartContainers(p) PROVE SerialInv'
  <2>1. p \in DOMAIN pods /\ served' = served
    BY <1>5 DEF StartContainers
  <2>2. pods[p] \in PodType(p) /\ PodWaited(p)
    BY <1>0, <2>1
  <2>3. /\ StepOf(p) /\ pods'[p].phase = "started"
        /\ pods[p].step = Len(Template(p).init) /\ pods'[p].step = pods[p].step
    BY <1>5, <2>2, StartStep DEF Same
  <2>4. PodWaited(p)'
    BY <1>1, <2>2, <2>3, WaitedKept
  <2>5. ServedInOrder'
    BY <1>0, <1>1, <2>1, InOrderKept
  <2>. QED  BY <1>1, <2>3, <2>4, <2>5, SerialPod DEF StepOf
<1>6. ASSUME NEW p, BecomeReady(p) PROVE SerialInv'
  <2>1. p \in DOMAIN pods
    BY <1>6 DEF BecomeReady
  <2>2. pods[p] \in PodType(p) /\ PodWaited(p)
    BY <1>0, <2>1
  <2>3. /\ StepOf(p) /\ pods[p].phase = "started" /\ pods'[p].step = pods[p].step
        /\ pods'[p].phase = "ready" => served' = served \cup {p[1]}
        /\ served' \in {served, served \cup {p[1]}}
    BY <1>6, <2>2, ReadyStep DEF Same
  <2>4. pods[p].step = Len(Template(p).init)
    BY <2>2, <2>3 DEF PodWaited
  <2>5. PodWaited(p)'
    BY <1>1, <2>2, <2>3, <2>4, WaitedKept
  <2>6. Ahead(d, p[1]) \subseteq served
    BY <1>0, <2>1, <2>2, <2>3, AllWaitedFor
  <2>7. ServedInOrder'
    BY <1>0, <1>1, <2>3, <2>6 DEF ServedInOrder
  <2>. QED  BY <1>1, <2>3, <2>5, <2>7, SerialPod DEF StepOf
<1>7. ASSUME NEW p, NEW k,
             \/ Delete(p) \/ EndHook(p, k) \/ RestartContainer(p, k)
             \/ Drained(p, k) /\ k \in Drainers(Template(p).containers)
      PROVE  SerialInv'
  <2>1. p \in DOMAIN pods /\ served' = served
    BY <1>7 DEF Delete, Drained, EndHook, RestartContainer, IsReady
  <2>2. pods[p] \in PodType(p) /\ PodWaited(p)
    BY <1>0, <2>1
  <2>3. /\ StepOf(p) /\ pods'[p].step = pods[p].step /\ pods[p].phase # "init"
        /\ pods'[p].phase = "ready" => pods[p].phase = "ready"
    <3>1. CASE Delete(p)
      BY <2>2, <3>1, DeleteStep DEF Same
    <3>2. CASE EndHook(p, k)
      BY <2>2, <3>2, EndHookStep DEF Same
    <3>3. CASE RestartContainer(p, k)
      BY <2>2, <3>3, RestartStep DEF Same
    <3>4. CASE Drained(p, k) /\ k \in Drainers(Template(p).containers)
      BY <2>2, <3>4, DrainedStep DEF Same
    <3>. QED  BY <1>7, <3>1, <3>2, <3>3, <3>4
  <2>4. PodWaited(p)'
    <3>1. /\ pods[p].step = Len(Template(p).init)
          /\ pods'[p].phase = "ready" => p[1] \in served'
      BY <2>1, <2>2, <2>3 DEF PodWaited
    <3>. QED  BY <1>1, <2>2, <2>3, <3>1, WaitedKept
  <2>5. ServedInOrder'
    BY <1>0, <1>1, <2>1, InOrderKept
  <2>. QED  BY <1>1, <2>3, <2>4, <2>5, SerialPod DEF StepOf
<1>8. ASSUME NEW p, Terminated(p) \/ GracePeriodEnds(p) PROVE SerialInv'
  <2>1. served' = served
    BY <1>8 DEF Terminated, GracePeriodEnds
  <2>2. /\ DOMAIN pods' = DOMAIN pods \ {p}
        /\ \A q \in DOMAIN pods' : pods'[q] = pods[q]
    BY <1>8, GoneStep
  <2>3. ASSUME NEW q \in DOMAIN pods' PROVE PodWaited(q)'
    <3>1. PodWaited(q) /\ pods'[q] = pods[q]
      BY <1>0, <2>2, <2>3
    <3>2. /\ pods[q].phase # "init" => pods[q].step = Len(Template(q).init)
          /\ pods[q].phase = "ready" => q[1] \in served
      BY <3>1 DEF PodWaited
    <3>. QED  BY <1>1, <2>1, <3>1, <3>2, WaitedKept
  <2>4. ServedInOrder'
    BY <1>0, <1>1, <2>1, InOrderKept
  <2>. QED  BY <1>1, <2>3, <2>4, SerialPartsNext
<1>9. CASE Operator
  BY <1>2, <1>9 DEF Operator, Publish, RunInstanceGroup, Convert
<1>10. CASE UNCHANGED vars
  BY <1>2, <1>10 DEF vars
<1>11. ASSUME NEW p, NEW k, Drained(p, k) PROVE SerialInv'
  <2>1. p \in DOMAIN pods /\ PodOK(p)
    BY <1>0, <1>11, RolloutParts DEF Drained
  <2>2. k \in Drainers(Template(p).containers)
    BY <1>11, <2>1 DEF PodOK, HooksOf, Drained
  <2>. QED  BY <1>7, <1>11, <2>2
<1>. QED
  BY <1>3, <1>4, <1>5, <1>6, <1>7, <1>8, <1>9, <1>10, <1>11 DEF Next, RunPod, RunHooks

LEMMA SerialInit == Init => SerialInv
<1>. SUFFICES ASSUME Init PROVE SerialInv
  OBVIOUS
<1>1. DOMAIN pods = {} /\ served = {}
  BY DEF Init
<1>. QED  BY <1>1, RolloutInit, SerialParts DEF ServedInOrder

LEMMA SerialImplies ==
    ASSUME SerialInv, StepsCounted(d), WaitsChained(d)
    PROVE  SerialOrder
<1>. SUFFICES ASSUME NEW p \in DOMAIN pods, NEW g \in Groups,
                     pods[p].phase # "init", Index(g) < Index(p[1]),
                     Serial(Ig(g)), ServicePorts(Ig(g)) # {}
              PROVE  g \in served
  BY DEF SerialOrder
<1>1. g \in Ahead(d, p[1])
  BY DEF Ahead, Index, Ig, desired, Groups
<1>2. RolloutInv /\ PodWaited(p)
  BY SerialParts
<1>. QED  BY <1>1, <1>2, AllWaitedFor

\* A serial group comes after the serial groups with ports that stand before
\* it, in every reachable state of any deployment.  No pod waits for all of
\* them: it waits for one group, and the rest follows since that group's pods
\* have waited too, and since who has served stays so when its pods are deleted
\* (apply_update_block.go, init_containers.go, cmd/internal/wait.go).
THEOREM SerialGroupsInOrder ==
    Spec => []SerialOrder
<1>. DEFINE Inv == SerialInv /\ WaitsForAllAhead
<1>1. Inv /\ [Next]_vars => Inv'
  BY SerialNext, StepsGrow DEF WaitsForAllAhead
<1>2. Inv => SerialOrder
  BY SerialImplies DEF WaitsForAllAhead
<1>3. Init => Inv
  BY SerialInit, DocumentsInit DEF WaitsForAllAhead
<1>. QED  BY <1>1, <1>2, <1>3, PTL DEF Spec

-----------------------------------------------------------------------------
(* The order of pre-stop hooks *)

\* Stamps are counted, not named: as long as a script has left none, there are
\* fewer stamps than scripts.
LEMMA StampsMissing ==
    ASSUME NEW cs, IsFiniteSet(DOMAIN cs), NEW j \in Drainers(cs), NEW stamps,
           stamps \subseteq {cs[k].preStop[1].script : k \in Drainers(cs) \ {j}}
    PROVE  /\ Cardinality(stamps) \in Nat /\ Cardinality(Drainers(cs)) \in Nat
           /\ Cardinality(stamps) < Cardinality(Drainers(cs))
<1>. DEFINE S == Drainers(cs)
            f == [k \in S \ {j} |-> cs[k].preStop[1].script]
            T == {f[k] : k \in S \ {j}}
<1>1. S \in SUBSET DOMAIN cs
  BY DEF Drainers
<1>2. IsFiniteSet(S)
  BY <1>1, FS_Subset
<1>. HIDE DEF S
<1>3. /\ IsFiniteSet(S \ {j}) /\ Cardinality(S \ {j}) = Cardinality(S) - 1
      /\ Cardinality(S) \in Nat
  <2>1. j \in S
    BY DEF S
  <2>. QED  BY <1>2, <2>1, FS_RemoveElement, FS_CardinalityType
<1>4. f \in Surjection(S \ {j}, T)
  BY DEF Surjection
<1>5. stamps \in SUBSET T
  BY DEF S
<1>. HIDE DEF f, T
<1>6. IsFiniteSet(T) /\ Cardinality(T) <= Cardinality(S \ {j})
  BY <1>3, <1>4, FS_Surjection
<1>7. IsFiniteSet(stamps) /\ Cardinality(stamps) <= Cardinality(T)
  BY <1>5, <1>6, FS_Subset
<1>8. Cardinality(stamps) \in Nat /\ Cardinality(T) \in Nat
  BY <1>6, <1>7, FS_CardinalityType
<1>9. Cardinality(stamps) < Cardinality(S)
  BY <1>3, <1>6, <1>7, <1>8
<1>. QED  BY <1>3, <1>8, <1>9 DEF S

\* DrainInv, for one pod.
PodStamps(p) ==
    ~pods[p].restarted =>
        IF pods[p].phase = "terminating"
        THEN LET cs == Template(p).containers
             IN pods[p].stamps \subseteq
                    {cs[k].preStop[1].script :
                        k \in {j \in Drainers(cs) : pods[p].hooks[j] # "draining"}}
        ELSE pods[p].stamps = {}

PodStops(p) ==
    /\ pods[p].phase = "terminating" /\ ~pods[p].restarted
    /\ \E k \in DOMAIN pods[p].hooks : pods[p].hooks[k] = "draining"
    => \A k \in DOMAIN pods[p].hooks :
           Template(p).containers[k].name # <<"logs">> =>
               pods[p].hooks[k] # "stopped"

PodDrains(p) == PodStamps(p) /\ PodStops(p)

LEMMA DrainParts ==
    DrainInv <=> RolloutInv /\ \A p \in DOMAIN pods : PodDrains(p)
  BY DEF DrainInv, StampsLeft, DrainedBeforeStop, PodDrains, PodStamps, PodStops

LEMMA DrainPartsNext ==
    ASSUME RolloutInv', \A p \in DOMAIN pods' : PodDrains(p)'
    PROVE  DrainInv'
  BY DEF DrainInv, StampsLeft, DrainedBeforeStop, PodDrains, PodStamps, PodStops

LEMMA OtherDrains ==
    ASSUME d' = d, NEW q, PodDrains(q), pods'[q] = pods[q]
    PROVE  PodDrains(q)'
<1>1. Template(q)' = Template(q)
  BY SameDocuments
<1>2. PodStamps(q)'
  BY <1>1 DEF PodDrains, PodStamps
<1>3. PodStops(q)'
  BY <1>1 DEF PodDrains, PodStops
<1>. QED  BY <1>2, <1>3 DEF PodDrains

\* A pod that runs: no stamp without a restart.
LEMMA RunningDrains ==
    ASSUME NEW p, PodStamps(p), pods[p].phase # "terminating",
           pods'[p].phase # "terminating", Same(p, "stamps"), Same(p, "restarted")
    PROVE  PodDrains(p)'
  BY DEF PodDrains, PodStamps, PodStops, Same

\* A hook ends only when all drain scripts of the pod have.
LEMMA EndHookDrains ==
    ASSUME NEW p, NEW k, EndHook(p, k), pods[p] \in PodType(p), HooksFit(p),
           HooksOf(p), PodDrains(p), d' = d, HooksCounted(d), p[1] \in Converts(d)
    PROVE  PodDrains(p)'
<1>. DEFINE cs == Template(p).containers
<1>1. /\ pods'[p].phase = "terminating" /\ pods[p].phase = "terminating"
      /\ k \in DOMAIN pods[p].hooks /\ pods[p].hooks[k] = "waiting"
      /\ pods'[p].stamps = pods[p].stamps /\ pods'[p].restarted = pods[p].restarted
      /\ pods'[p].hooks = [pods[p].hooks EXCEPT ![k] = "stopped"]
  BY EndHookStep DEF Same
<1>2. Template(p)' = Template(p) /\ DOMAIN pods[p].hooks = DOMAIN cs
  BY <1>1, SameDocuments DEF HooksFit
<1>3. PodStamps(p)'
  <2>1. \A j \in Drainers(cs) : j \in DOMAIN pods[p].hooks
    BY <1>2 DEF Drainers
  <2>. QED  BY <1>1, <1>2, <2>1 DEF PodStamps, PodDrains
<1>4. /\ IsFiniteSet(DOMAIN cs) /\ cs[k].preStop # Nil
      /\ cs[k].preStop[1].stamps = Cardinality(Drainers(cs))
  <2>1. object(p[1]).kind = "QuarksStatefulSet" /\ cs[k].preStop # Nil
    BY <1>1 DEF HooksOf
  <2>2. ObjectOf(d, p[1]) = object(p[1])
    BY DEF ObjectOf, object, applied
  <2>. QED  BY <1>1, <1>2, <2>1, <2>2 DEF HooksCounted, Template
<1>5. Cardinality(pods[p].stamps) >= Cardinality(Drainers(cs))
  BY <1>4 DEF EndHook
<1>6. ASSUME ~pods[p].restarted, NEW j \in DOMAIN pods[p].hooks,
             pods[p].hooks[j] = "draining"
      PROVE  FALSE
  <2>1. j \in Drainers(cs)
    BY <1>6 DEF HooksOf
  <2>2. pods[p].stamps \subseteq {cs[i].preStop[1].script : i \in Drainers(cs) \ {j}}
    BY <1>1, <1>6 DEF PodDrains, PodStamps
  <2>3. /\ Cardinality(pods[p].stamps) \in Nat /\ Cardinality(Drainers(cs)) \in Nat
        /\ Cardinality(pods[p].stamps) < Cardinality(Drainers(cs))
    BY <1>4, <2>1, <2>2, StampsMissing
  <2>. QED  BY <1>5, <2>3
<1>7. PodStops(p)'
  BY <1>1, <1>6 DEF PodStops
<1>. QED  BY <1>3, <1>7 DEF PodDrains

LEMMA DrainedDrains ==
    ASSUME NEW p, NEW k, Drained(p, k), pods[p] \in PodType(p), HooksFit(p),
           HooksOf(p), PodDrains(p), d' = d
    PROVE  PodDrains(p)'
<1>. DEFINE cs == Template(p).containers
<1>1. k \in Drainers(cs)
  BY DEF Drained, HooksOf
<1>2. /\ pods'[p].phase = "terminating" /\ pods[p].phase = "terminating"
      /\ k \in DOMAIN pods[p].hooks /\ pods[p].hooks[k] = "draining"
      /\ pods'[p].hooks = [pods[p].hooks EXCEPT ![k] = "waiting"]
      /\ pods'[p].stamps = pods[p].stamps \cup {cs[k].preStop[1].script}
      /\ pods'[p].restarted = pods[p].restarted
  BY <1>1, DrainedStep DEF Same
<1>3. Template(p)' = Template(p) /\ DOMAIN pods[p].hooks = DOMAIN cs
  BY <1>2, SameDocuments DEF HooksFit
<1>4. PodStamps(p)'
  <2>1. \A j \in Drainers(cs) : j \in DOMAIN pods[p].hooks
    BY <1>3 DEF Drainers
  <2>. QED  BY <1>1, <1>2, <1>3, <2>1 DEF PodStamps, PodDrains
<1>5. PodStops(p)'
  BY <1>2, <1>3 DEF PodStops, PodDrains
<1>. QED  BY <1>4, <1>5 DEF PodDrains

LEMMA DeleteDrains ==
    ASSUME NEW p, Delete(p), pods[p] \in PodType(p), PodDrains(p), d' = d,
           HooksCounted(d), p[1] \in Converts(d)
    PROVE  PodDrains(p)'
<1>. DEFINE cs == Template(p).containers
<1>1. /\ pods'[p].phase = "terminating" /\ pods[p].phase \in {"started", "ready"}
      /\ pods'[p].stamps = pods[p].stamps /\ pods'[p].restarted = pods[p].restarted
      /\ pods'[p].hooks = [k \in DOMAIN cs |-> StartHook(cs[k])]
  BY DeleteStep DEF Same
<1>2. Template(p)' = Template(p)
  BY SameDocuments
<1>3. PodStamps(p)'
  BY <1>1 DEF PodStamps, PodDrains
<1>4. \A k \in DOMAIN cs : cs[k].preStop = Nil => cs[k].name = <<"logs">>
  <2>1. object(p[1]).kind = "QuarksStatefulSet"
    BY DEF Delete
  <2>2. ObjectOf(d, p[1]) = object(p[1])
    BY DEF ObjectOf, object, applied
  <2>. QED  BY <2>1, <2>2 DEF HooksCounted, Template
<1>5. PodStops(p)'
  BY <1>1, <1>2, <1>4 DEF PodStops, StartHook
<1>. QED  BY <1>3, <1>5 DEF PodDrains

\* Every step keeps the order in which processes stop.
LEMMA DrainNext ==
    ASSUME DrainInv, StepsCounted(d), HooksCounted(d), [Next]_vars
    PROVE  DrainInv'
<1>0. /\ RolloutInv
      /\ \A p \in DOMAIN pods : PodDrains(p) /\ PodOK(p) /\ p[1] \in Converts(d)
  BY DrainParts, RolloutParts, PodConverted
<1>1. RolloutInv' /\ d' = d
  BY <1>0, RolloutNext, StepsGrow
<1>2. ASSUME NEW p \in DOMAIN pods, StepOf(p), PodDrains(p)' PROVE DrainInv'
  BY <1>0, <1>1, <1>2, OtherDrains, DrainPartsNext DEF StepOf
<1>3. ASSUME UNCHANGED pods PROVE DrainInv'
  BY <1>0, <1>1, <1>3, OtherDrains, DrainPartsNext
<1>4. ASSUME NEW p, CreatePod(p) PROVE DrainInv'
  <2>1. p[1] \in Converts(d)
    BY <1>0, <1>4 DEF CreatePod, RolloutInv, TypeOK, ConvertedApplied, Converts, Groups
  <2>2. /\ DOMAIN pods' = DOMAIN pods \cup {p}
        /\ \A q \in DOMAIN pods : pods'[q] = pods[q]
        /\ pods'[p] = NewPod
    BY <1>4, <2>1, CreateStep
  <2>3. NewPod.phase = "init" /\ NewPod.stamps = {}
    BY DEF NewPod
  <2>4. PodDrains(p)'
    BY <2>2, <2>3 DEF PodDrains, PodStamps, PodStops
  <2>. QED  BY <1>0, <1>1, <2>2, <2>4, OtherDrains, DrainPartsNext
<1>5. ASSUME NEW p, RunInit(p) \/ StartContainers(p) \/ BecomeReady(p) PROVE DrainInv'
  <2>1. p \in DOMAIN pods
    BY <1>5 DEF RunInit, StartContainers, BecomeReady
  <2>2. /\ PodStamps(p) /\ pods[p] \in PodType(p) /\ p[1] \in Converts(d)
    BY <1>0, <2>1 DEF PodDrains, PodOK
  <2>3. /\ StepOf(p) /\ pods'[p].phase # "terminating" /\ pods[p].phase # "terminating"
        /\ Same(p, "stamps") /\ Same(p, "restarted")
    BY <1>5, <2>2, RunInitStep, StartStep, ReadyStep
  <2>. QED  BY <1>2, <2>1, <2>2, <2>3, RunningDrains
<1>6. ASSUME NEW p, Delete(p) PROVE DrainInv'
  <2>1. p \in DOMAIN pods
    BY <1>6 DEF Delete
  <2>2. StepOf(p)
    BY <1>0, <1>6, <2>1, DeleteStep DEF PodOK
  <2>. QED  BY <1>0, <1>1, <1>2, <1>6, <2>1, <2>2, DeleteDrains DEF PodOK
<1>7. ASSUME NEW p, NEW k, Drained(p, k) PROVE DrainInv'
  <2>1. p \in DOMAIN pods /\ StepOf(p)
    BY <1>7 DEF Drained, StepOf
  <2>. QED  BY <1>0, <1>1, <1>2, <1>7, <2>1, DrainedDrains DEF PodOK
<1>8. ASSUME NEW p, NEW k, EndHook(p, k) PROVE DrainInv'
  <2>1. p \in DOMAIN pods /\ StepOf(p)
    BY <1>8 DEF EndHook, StepOf
  <2>. QED  BY <1>0, <1>1, <1>2, <1>8, <2>1, EndHookDrains DEF PodOK
<1>9. ASSUME NEW p, NEW k, RestartContainer(p, k) PROVE DrainInv'
  <2>1. p \in DOMAIN pods
    BY <1>9 DEF RestartContainer, IsReady
  <2>2. StepOf(p) /\ pods'[p].restarted
    BY <1>0, <1>9, <2>1, RestartStep DEF PodOK
  <2>3. PodDrains(p)'
    BY <2>2 DEF PodDrains, PodStamps, PodStops
  <2>. QED  BY <1>2, <2>1, <2>2, <2>3
<1>10. ASSUME NEW p, Terminated(p) \/ GracePeriodEnds(p) PROVE DrainInv'
  BY <1>0, <1>1, <1>10, GoneStep, OtherDrains, DrainPartsNext
<1>11. CASE Operator
  BY <1>3, <1>11 DEF Operator, Publish, RunInstanceGroup, Convert
<1>12. CASE UNCHANGED vars
  BY <1>3, <1>12 DEF vars
<1>. QED
  BY <1>4, <1>5, <1>6, <1>7, <1>8, <1>9, <1>10, <1>11, <1>12 DEF Next, RunPod, RunHooks

LEMMA DrainInit == Init => DrainInv
<1>. SUFFICES ASSUME Init PROVE DrainInv
  OBVIOUS
<1>1. DOMAIN pods = {}
  BY DEF Init
<1>. QED  BY <1>1, RolloutInit, DrainParts

\* No process of a deleted pod stops while a drain script of the pod runs, in
\* every reachable state of any deployment.
\* A hook knows only how many stamps there are, not whose they are; that the
\* number is enough needs that stamps are left by ended scripts alone, hence
\* the exception for a restarted container (the hooks of containers.go).
THEOREM HooksDrainFirst ==
    Spec => []DrainedBeforeStop
<1>. DEFINE Inv == DrainInv /\ StepsCounted(d) /\ HooksCounted(d)
<1>1. Inv /\ [Next]_vars => Inv'
  BY DrainNext, StepsGrow
<1>2. Inv => DrainedBeforeStop
  BY DEF DrainInv
<1>3. Init => Inv
  BY DrainInit, DocumentsInit
<1>. QED  BY <1>1, <1>2, <1>3, PTL DEF Spec

-----------------------------------------------------------------------------
(* What the documents say, all along *)

LEMMA DocumentsNext ==
    ASSUME DocumentsInv, [Next]_vars
    PROVE  DocumentsInv'
<1>1. PICK c \in Deployments : d = Documents(c)
  BY DEF DocumentsInv
<1>2. d' = d /\ RolloutInv'
  BY <1>1, StepsOfDocuments, RolloutNext, StepsGrow DEF DocumentsInv
<1>3. ResolvedWritten'
  <2>1. CASE resolved' = resolved
    BY <1>2, <2>1 DEF DocumentsInv, ResolvedWritten
  <2>2. ASSUME NEW g, RunInstanceGroup(g) PROVE ResolvedWritten'
    BY <1>2, <2>2 DEF DocumentsInv, ResolvedWritten, RunInstanceGroup
  <2>3. resolved' = resolved \/ \E g : RunInstanceGroup(g)
    BY DEF Next, Operator, Publish, Convert, RunPod, RunHooks,
           CreatePod, RunInit, StartContainers, BecomeReady, Delete, Drained,
           EndHook, Terminated, GracePeriodEnds, RestartContainer, vars, progress
  <2>. QED  BY <2>1, <2>2, <2>3
<1>4. \E b \in Deployments : d' = Documents(b)
  BY <1>1, <1>2
<1>. QED  BY <1>2, <1>3, <1>4 DEF DocumentsInv

LEMMA DocumentsStart == Init => DocumentsInv
  BY RolloutInit DEF DocumentsInv, ResolvedWritten, Init

\* The group of a resolved group's output, and of a converted group's objects.
LEMMA GroupOfResolved ==
    ASSUME DocumentsInv, NEW g \in resolved
    PROVE  Completed(d) /\ \E i : ResolvedAt(d, g, i)
<1>1. PICK c \in Deployments : d = Documents(c)
  BY DEF DocumentsInv
<1>2. g \in DOMAIN d.output /\ d.output[g] # Nil
  BY DEF DocumentsInv, ResolvedWritten, RolloutInv, TypeOK, Groups
<1>3. Completed(d)
  BY <1>1, <1>2, AppliedComplete, DocumentsComplete
<1>. QED  BY <1>2, <1>3, GroupResolved

LEMMA GroupOfConverted ==
    ASSUME DocumentsInv, NEW g \in converted
    PROVE  /\ Completed(d)
           /\ \E i : /\ ConvertedAt(d, g, i) /\ i \in DOMAIN desired.groups
                     /\ desired.groups[i].name = g /\ Ig(g) = desired.groups[i]
                     /\ IsGroup(desired.groups[i])
<1>1. g \in resolved /\ g \in Converts(d)
  BY DEF DocumentsInv, RolloutInv, TypeOK, ConvertedApplied, Converts, Groups
<1>2. Completed(d)
  BY <1>1, GroupOfResolved
<1>3. PICK i : ConvertedAt(d, g, i)
  BY <1>1, <1>2, GroupConverted
<1>4. i \in DOMAIN desired.groups /\ desired.groups[i].name = g
  BY <1>3 DEF ConvertedAt, ResolvedAt, desired
<1>5. IsManifest(desired) /\ ServicesDiffer(desired)
  BY <1>2 DEF Completed, desired
<1>6. Ig(g) = desired.groups[i]
  <2>1. InstanceGroupByName(desired, desired.groups[i].name) = <<desired.groups[i]>>
    BY <1>4, <1>5, GroupFound
  <2>. QED  BY <1>4, <2>1 DEF Ig
<1>7. IsGroup(desired.groups[i])
  BY <1>4, <1>5 DEF IsManifest
<1>. QED  BY <1>2, <1>3, <1>4, <1>6, <1>7

\* The objects of a converted group, as TemplateOf has them.
LEMMA ObjectAt ==
    ASSUME NEW g, NEW i, ConvertedAt(d, g, i)
    PROVE  LET ig == desired.groups[i]
               bpm == output(g).bpm
               disks == GenerateBPMDisks(ig, bpm).disks \o ig.disks
               all == GenerateDefaultDisks(ig) \o disks
               o == object(g)
           IN /\ o.template.init = JobsToInitContainers(ig, bpm, disks, d.version)
              /\ o.template.containers = JobsToContainers(ig, bpm, disks)
              /\ o.template.volumes = Volumes(all) /\ o.template.claims = PVCs(all)
              /\ o.kind = IF IsErrand(ig) THEN "QuarksJob" ELSE "QuarksStatefulSet"
              /\ ~IsErrand(ig) => /\ o.zones = ig.azs /\ o.replicas = ig.instances
                                  /\ o.inject = ig.injectReplicas
              /\ applied(g).services = IF IsErrand(ig) THEN {} ELSE service(ig, bpm)
<1>1. /\ desired = d.desired[1] /\ output(g) = d.output[g][1]
      /\ applied(g) = d.applied[g][1] /\ object(g) = ObjectOf(d, g)
  BY DEF desired, output, applied, object, ObjectOf
<1>. DEFINE m == d.desired[1]
            ig == m.groups[i]
            bpm == d.output[g][1].bpm
            disks == GenerateBPMDisks(ig, bpm).disks \o ig.disks
            all == GenerateDefaultDisks(ig) \o disks
            o == ObjectOf(d, g)
<1>2. /\ o.template.init = JobsToInitContainers(ig, bpm, disks, d.version)
      /\ o.template.containers = JobsToContainers(ig, bpm, disks)
      /\ o.template.volumes = Volumes(all) /\ o.template.claims = PVCs(all)
      /\ o.kind = IF IsErrand(ig) THEN "QuarksJob" ELSE "QuarksStatefulSet"
      /\ ~IsErrand(ig) => /\ o.zones = ig.azs /\ o.replicas = ig.instances
                          /\ o.inject = ig.injectReplicas
      /\ d.applied[g][1].services = IF IsErrand(ig) THEN {} ELSE service(ig, bpm)
  BY TemplateOf
<1>. QED  BY <1>1, <1>2, Zenon

-----------------------------------------------------------------------------
(* The identity of instances *)

LEMMA SameInstances ==
    ASSUME NEW ig, NEW jg, ig.name = jg.name, ig.azs = jg.azs,
           ig.instances = jg.instances, NEW initialRollout
    PROVE  newJobInstances(ig, initialRollout) = newJobInstances(jg, initialRollout)
  BY DEF newJobInstances, jobInstances, jobInstancesAZ, Instance, IndexedServiceName

\* A pod that is told how many replicas there are renders the instance of its
\* zone and ordinal.
LEMMA PlaceRendered ==
    ASSUME NEW ig, Sized(ig), NEW out, out.name = ig.name, out.azs = ig.azs,
           NEW z \in (IF ig.azs = 0 THEN {0} ELSE 0..(ig.azs - 1)),
           NEW o \in 0..(ig.instances - 1), NEW initialRollout
    PROVE  \E e : /\ RenderJobTemplates(out, z + 1, o, ig.instances, initialRollout) = <<e>>
                  /\ IsInstance(ig, z, o, initialRollout, e)
<1>. DEFINE group == [name |-> out.name, azs |-> out.azs, instances |-> ig.instances]
            instances == newJobInstances(group, initialRollout)
<1>1. ig.instances \in Nat /\ ig.azs \in Nat /\ ~(ig.instances < 0)
      /\ ~(o + 1 > ig.instances)
  BY DEF Sized
<1>2. validateAZ(out.azs, z + 1)
  BY <1>1 DEF validateAZ
<1>3. (IF out.azs = 0 /\ z + 1 = 1 THEN 0 ELSE z + 1) = IF ig.azs = 0 THEN 0 ELSE z + 1
  BY <1>1
<1>4. RenderJobTemplates(out, z + 1, o, ig.instances, initialRollout)
        = jobInstance(group, instances, RenderIndex(ig, z, o))
  BY <1>1, <1>2, <1>3 DEF RenderJobTemplates, RenderIndex
<1>5. instances = newJobInstances(ig, initialRollout)
  BY SameInstances
<1>6. \A list, index : jobInstance(group, list, index) = jobInstance(ig, list, index)
  BY DEF jobInstance
<1>. HIDE DEF group, instances
<1>. QED  BY <1>4, <1>5, <1>6, InstanceFound

\* The pod of the i-th group renders the instance of its zone and ordinal.
RendersOwn(p, i) ==
    LET ig == desired.groups[i]
    IN /\ i \in DOMAIN desired.groups /\ ig.name = p[1] /\ IsGroup(ig)
       /\ p[2] \in (IF ig.azs = 0 THEN {0} ELSE 0..(ig.azs - 1))
       /\ p[3] \in 0..(ig.instances - 1)
       /\ p = <<p[1], p[2], p[3]>>
       /\ IsInstance(ig, p[2], p[3], d.version = 1, pods[p].instance[1])

LEMMA PodRenders ==
    ASSUME DocumentsInv, NEW p \in DOMAIN pods, pods[p].instance # Nil,
           object(p[1]).kind = "QuarksStatefulSet", Ig(p[1]).injectReplicas
    PROVE  \E i : RendersOwn(p, i)
<1>. DEFINE g == p[1]
<1>1. RolloutInv /\ g \in converted
  BY PodConverted DEF DocumentsInv
<1>2. Completed(d)
  BY <1>1, GroupOfConverted
<1>3. PICK i : /\ ConvertedAt(d, g, i) /\ i \in DOMAIN desired.groups
               /\ desired.groups[i].name = g /\ Ig(g) = desired.groups[i]
               /\ IsGroup(desired.groups[i])
  BY <1>1, GroupOfConverted
<1>. DEFINE ig == desired.groups[i]
            bpm == output(g).bpm
            disks == GenerateBPMDisks(ig, bpm).disks \o ig.disks
<1>4. /\ object(g).template.init = JobsToInitContainers(ig, bpm, disks, d.version)
      /\ object(g).kind = IF IsErrand(ig) THEN "QuarksJob" ELSE "QuarksStatefulSet"
      /\ ~IsErrand(ig) => /\ object(g).zones = ig.azs /\ object(g).replicas = ig.instances
                          /\ object(g).inject = ig.injectReplicas
  BY <1>3, ObjectAt
<1>5. /\ object(g).zones = ig.azs /\ object(g).replicas = ig.instances /\ object(g).inject
  BY <1>3, <1>4
<1>6. ConvertibleJobs(ig, bpm)
  BY <1>2, <1>3, ConvertedJobs DEF output, desired
<1>7. pods[p].instance \in Renderings(p)
  BY <1>1 DEF RolloutInv, TypeOK, PodType, PodOf
<1>8. PICK c \in ToSet(Template(p).init) : /\ c.name[1] = "template-render"
                                           /\ pods[p].instance = Render(p, c.name[2])
  BY <1>7 DEF Renderings
<1>9. c.name[2] = (d.version = 1)
  <2>1. c \in ToSet(JobsToInitContainers(ig, bpm, disks, d.version))
    BY <1>4, <1>8 DEF Template
  <2>. HIDE DEF ig, bpm, disks
  <2>. QED  BY <1>6, <1>8, <2>1, OneRenderer
<1>10. output(g).manifest.name = ig.name /\ output(g).manifest.azs = ig.azs
  <2>1. \E r0, r, jg : Outcome(desired, i, DOMAIN desired.links, d.initial, output(g), r0, r, jg)
    BY <1>3 DEF ConvertedAt, ResolvedAt, desired, output
  <2>2. IsManifest(desired)
    BY <1>2 DEF Completed, desired
  <2>. QED  BY <1>3, <2>1, <2>2, OutputOf
<1>11. /\ p \in {g} \X Zones(g) \X (0..(object(g).replicas - 1))
  <2>1. PICK h \in converted : p \in PodIds(h)
    BY <1>1 DEF RolloutInv, TypeOK, AllPods
  <2>2. h = g
    <3>1. CASE object(h).kind = "QuarksStatefulSet"
      <4>1. p \in {h} \X Zones(h) \X (0..(object(h).replicas - 1))
        BY <2>1, <3>1 DEF PodIds
      <4>. QED  BY <4>1
    <3>2. CASE object(h).kind # "QuarksStatefulSet"
      BY <2>1, <3>2 DEF PodIds
    <3>. QED  BY <3>1, <3>2
  <2>. QED  BY <2>1, <2>2 DEF PodIds
<1>12. /\ p[2] \in (IF ig.azs = 0 THEN {0} ELSE 0..(ig.azs - 1))
       /\ p[3] \in 0..(ig.instances - 1) /\ p = <<p[1], p[2], p[3]>>
  BY <1>5, <1>11 DEF Zones
<1>13. Sized(ig)
  BY <1>3 DEF IsGroup, Sized
<1>14. pods[p].instance = RenderJobTemplates(output(g).manifest, p[2] + 1, p[3],
                                             ig.instances, d.version = 1)
  BY <1>5, <1>8, <1>9 DEF Render
<1>. DEFINE out == output(g).manifest
<1>15. \E e : pods[p].instance = <<e>> /\ IsInstance(ig, p[2], p[3], d.version = 1, e)
  <2>. HIDE DEF ig, out
  <2>1. out.name = ig.name /\ out.azs = ig.azs
    BY <1>10 DEF out
  <2>2. pods[p].instance = RenderJobTemplates(out, p[2] + 1, p[3],
                                              ig.instances, d.version = 1)
    BY <1>14 DEF out, ig
  <2>. QED  BY <1>12, <1>13, <2>1, <2>2, PlaceRendered
<1>16. RendersOwn(p, i)
  BY <1>3, <1>12, <1>15 DEF RendersOwn
<1>. QED  BY <1>16

\* The instances of a group have names of their own.
OwnAddresses(ig) ==
    \A p \in Places(ig) :
        /\ AddressAt(ig, p) # ServiceName(ig.name)
        /\ \A q \in Places(ig) : AddressAt(ig, p) = AddressAt(ig, q) => p = q

LEMMA AddressesOwned ==
    ASSUME NEW m, ServicesDiffer(m), NEW i \in DOMAIN m.groups
    PROVE  OwnAddresses(m.groups[i])
  BY DEF ServicesDiffer, AddressesDiffer, OwnAddresses

\* The instances are at the places of the group.
LEMMA InstancePlaces ==
    ASSUME NEW ig, Sized(ig), NEW k \in 1..SizeOf(ig)
    PROVE  /\ ZoneAt(ig, k) \in NamedZones(ig) /\ OrdinalAt(ig, k) \in 0..(ig.instances - 1)
           /\ <<ZoneAt(ig, k), OrdinalAt(ig, k)>> \in Places(ig)
           /\ AddressAt(ig, <<ZoneAt(ig, k), OrdinalAt(ig, k)>>)
                  = IndexedServiceName(ig, OrdinalAt(ig, k), ZoneAt(ig, k))
<1>1. ZoneAt(ig, k) \in NamedZones(ig) /\ OrdinalAt(ig, k) \in 0..(ig.instances - 1)
  <2>1. CASE ig.azs > 0
    <3>1. ig.instances \in Nat /\ ig.azs \in Nat /\ k \in 1..(ig.instances * ig.azs)
      BY <2>1 DEF Sized, SizeOf
    <3>2. ig.instances # 0
      BY <3>1
    <3>. QED  BY <2>1, <3>1, <3>2, ZonesCounted DEF ZoneAt, OrdinalAt, NamedZones
  <2>2. CASE ~(ig.azs > 0)
    BY <2>2 DEF Sized, SizeOf, ZoneAt, OrdinalAt, NamedZones
  <2>. QED  BY <2>1, <2>2
<1>. QED  BY <1>1 DEF Places, AddressAt

\* Two places of a group are two instances, and one of them bootstraps.
LEMMA InstancesDiffer ==
    ASSUME NEW ig, Sized(ig), OwnAddresses(ig), NEW initialRollout,
           NEW y \in Nat, NEW o, NEW z \in Nat, NEW x,
           NEW e, NEW f,
           IsInstance(ig, y, o, initialRollout, e), IsInstance(ig, z, x, initialRollout, f),
           ig.azs = 0 => y = z, y # z \/ o # x
    PROVE  e.index # f.index /\ e.address # f.address /\ ~(e.bootstrap /\ f.bootstrap)
<1>. DEFINE instances == newJobInstances(ig, initialRollout)
            Zone(a) == IF ig.azs = 0 THEN -1 ELSE a
<1>1. PICK k \in 1..SizeOf(ig) : /\ e = instances[k]
                                 /\ ZoneAt(ig, k) = Zone(y) /\ OrdinalAt(ig, k) = o
  BY DEF IsInstance
<1>2. PICK l \in 1..SizeOf(ig) : /\ f = instances[l]
                                 /\ ZoneAt(ig, l) = Zone(z) /\ OrdinalAt(ig, l) = x
  BY DEF IsInstance
<1>3. k # l
  BY <1>1, <1>2
<1>4. \A j \in 1..SizeOf(ig) :
        /\ instances[j].index = j - 1
        /\ instances[j].address = IndexedServiceName(ig, OrdinalAt(ig, j), ZoneAt(ig, j))
        /\ instances[j].bootstrap = (j - 1 = BootstrapOf(ig, initialRollout))
  BY InstanceAt
<1>5. k - 1 # l - 1
  BY <1>3 DEF SizeOf
<1>6. e.address # f.address
  <2>1. /\ e.address = AddressAt(ig, <<Zone(y), o>>) /\ <<Zone(y), o>> \in Places(ig)
        /\ f.address = AddressAt(ig, <<Zone(z), x>>) /\ <<Zone(z), x>> \in Places(ig)
    BY <1>1, <1>2, <1>4, InstancePlaces
  <2>2. <<Zone(y), o>> # <<Zone(z), x>>
    BY DEF Sized
  <2>. QED  BY <2>1, <2>2 DEF OwnAddresses
<1>. HIDE DEF instances
<1>. QED  BY <1>1, <1>2, <1>4, <1>5, <1>6

\* Whatever the consumers are told of a group is computed from that group.
LEMMA ToldOf ==
    ASSUME DocumentsInv, NEW t \in Told
    PROVE  TellsOf(desired, d.initial, t[3])
<1>. DEFINE Jobs(g) == output(g).manifest.jobs
<1>1. PICK g \in resolved : \E k \in DOMAIN Jobs(g) : \E n \in DOMAIN Jobs(g)[k].links :
          t = <<g, k, Jobs(g)[k].links[n]>>
  BY DEF Told
<1>2. PICK k \in DOMAIN Jobs(g) : \E n \in DOMAIN Jobs(g)[k].links :
          t = <<g, k, Jobs(g)[k].links[n]>>
  BY <1>1
<1>3. PICK n \in DOMAIN Jobs(g)[k].links : t = <<g, k, Jobs(g)[k].links[n]>>
  BY <1>2
<1>4. Completed(d) /\ \E i : ResolvedAt(d, g, i)
  BY GroupOfResolved
<1>5. PICK i : ResolvedAt(d, g, i)
  BY <1>4
<1>6. /\ k \in DOMAIN d.output[g][1].manifest.jobs
      /\ n \in DOMAIN d.output[g][1].manifest.jobs[k].links
      /\ t[3] = d.output[g][1].manifest.jobs[k].links[n]
      /\ desired = d.desired[1]
  BY <1>3 DEF output, desired
<1>. QED  BY <1>4, <1>5, <1>6, LinksTell

\* A link to the i-th group tells of that group.
LEMMA ToldOfGroup ==
    ASSUME NEW m, IsManifest(m), ServicesDiffer(m), NEW i \in DOMAIN m.groups,
           NEW initialRollout, NEW link, TellsOf(m, initialRollout, link),
           link.group = m.groups[i].name
    PROVE  /\ link.address = ServiceName(m.groups[i].name)
           /\ link.instances = newJobInstances(m.groups[i], initialRollout)
<1>1. m.groups[i].name # ""
  BY DEF IsManifest, IsGroup
<1>2. PICK j \in DOMAIN m.groups :
          /\ link.group = m.groups[j].name /\ link.address = ServiceName(m.groups[j].name)
          /\ link.instances = newJobInstances(m.groups[j], initialRollout)
  BY <1>1 DEF TellsOf
<1>3. j = i
  BY <1>2 DEF ServicesDiffer, GroupsDiffer
<1>. QED  BY <1>2, <1>3

LEMMA IdentityImplied ==
    ASSUME DocumentsInv
    PROVE  InstanceIdentity
<1>. SUFFICES ASSUME NEW p \in DOMAIN pods, pods[p].instance # Nil, Ig(p[1]).injectReplicas,
                     object(p[1]).kind = "QuarksStatefulSet"
              PROVE  LET mine == pods[p].instance[1]
                     IN /\ \A q \in DOMAIN pods \ {p} :
                               q[1] = p[1] /\ pods[q].instance # Nil =>
                                   LET other == pods[q].instance[1]
                                   IN /\ mine.index # other.index
                                      /\ mine.address # other.address
                                      /\ ~(mine.bootstrap /\ other.bootstrap)
                        /\ d.initial = (d.version = 1) =>
                               \A t \in Told : t[3].group = p[1] =>
                                   \E k \in DOMAIN t[3].instances : t[3].instances[k] = mine
  BY DEF InstanceIdentity
<1>. DEFINE mine == pods[p].instance[1]
<1>1. PICK i : RendersOwn(p, i)
  BY PodRenders
<1>. DEFINE ig == desired.groups[i]
<1>2. /\ i \in DOMAIN desired.groups /\ ig.name = p[1] /\ IsGroup(ig)
      /\ p[2] \in (IF ig.azs = 0 THEN {0} ELSE 0..(ig.azs - 1))
      /\ p = <<p[1], p[2], p[3]>>
      /\ IsInstance(ig, p[2], p[3], d.version = 1, mine)
  BY <1>1 DEF RendersOwn
<1>3. Sized(ig)
  BY <1>2 DEF IsGroup, Sized
<1>4. IsManifest(desired) /\ ServicesDiffer(desired)
  <2>1. p[1] \in converted
    BY PodConverted DEF DocumentsInv
  <2>. QED  BY <2>1, GroupOfConverted DEF Completed, desired
<1>5. ASSUME NEW q \in DOMAIN pods \ {p}, q[1] = p[1], pods[q].instance # Nil
      PROVE  LET other == pods[q].instance[1]
             IN /\ mine.index # other.index
                /\ mine.address # other.address
                /\ ~(mine.bootstrap /\ other.bootstrap)
  <2>1. PICK j : RendersOwn(q, j)
    BY <1>5, PodRenders
  <2>2. j = i
    BY <1>2, <1>4, <1>5, <2>1 DEF RendersOwn, ServicesDiffer, GroupsDiffer
  <2>3. /\ q[2] \in (IF ig.azs = 0 THEN {0} ELSE 0..(ig.azs - 1))
        /\ q = <<q[1], q[2], q[3]>>
        /\ IsInstance(ig, q[2], q[3], d.version = 1, pods[q].instance[1])
    BY <2>1, <2>2 DEF RendersOwn
  <2>4. /\ p[2] \in Nat /\ q[2] \in Nat /\ (ig.azs = 0 => p[2] = q[2])
    BY <1>2, <1>3, <2>3 DEF Sized
  <2>5. p[2] # q[2] \/ p[3] # q[3]
    BY <1>2, <1>5, <2>3
  <2>6. OwnAddresses(ig)
    BY <1>2, <1>4, AddressesOwned
  <2>. HIDE DEF ig, mine
  <2>. QED  BY <1>2, <1>3, <2>3, <2>4, <2>5, <2>6, InstancesDiffer
<1>6. ASSUME d.initial = (d.version = 1), NEW t \in Told, t[3].group = p[1]
      PROVE  \E k \in DOMAIN t[3].instances : t[3].instances[k] = mine
  <2>1. TellsOf(desired, d.initial, t[3])
    BY <1>6, ToldOf
  <2>2. t[3].instances = newJobInstances(ig, d.version = 1)
    BY <1>2, <1>4, <1>6, <2>1, ToldOfGroup
  <2>3. DOMAIN t[3].instances = 1..SizeOf(ig)
    BY <1>3, <2>2, InstancesOf
  <2>. HIDE DEF mine, ig
  <2>. QED  BY <1>2, <2>2, <2>3 DEF IsInstance
<1>. QED  BY <1>5, <1>6

\* In every reachable state of any deployment the pods of a group render
\* different instances, at most one of them bootstraps, and consumers were told
\* of each.  Pods count zones from 1 and know their own ordinal only, the
\* manifest counts instances through all zones: both meet in names.SpecIndex,
\* which tells the instances apart as long as a zone has at most as many as it
\* counts (instance_group.go, cmd_render_job_tmpls.go, job_provider_links.go).
THEOREM InstancesIdentified == Spec => []InstanceIdentity
<1>1. Init => DocumentsInv
  BY DocumentsStart
<1>2. DocumentsInv /\ [Next]_vars => DocumentsInv'
  BY DocumentsNext
<1>3. DocumentsInv => InstanceIdentity
  BY IdentityImplied
<1>. QED  BY <1>1, <1>2, <1>3, PTL DEF Spec

-----------------------------------------------------------------------------
(* The addresses of services *)

Headless(ig, bpm) == Service(ServiceName(ig.name), Nil, Nil, IsActivePassiveModel(bpm))
OfInstance(ig, bpm, az, o) ==
    Service(IndexedServiceName(ig, o, az), <<IF az = -1 THEN 0 ELSE az>>, <<o>>,
            IsActivePassiveModel(bpm))

LEMMA ServicesOf ==
    ASSUME NEW ig, NEW bpm, ServicesPorts(bpm)
    PROVE  /\ Headless(ig, bpm) \in service(ig, bpm)
           /\ \A az \in NamedZones(ig) : \A o \in 0..(ig.instances - 1) :
                  OfInstance(ig, bpm, az, o) \in service(ig, bpm)
           /\ \A s \in service(ig, bpm) : s # Headless(ig, bpm) =>
                  \E az \in NamedZones(ig) : \E o \in 0..(ig.instances - 1) :
                      s = OfInstance(ig, bpm, az, o)
<1>. DEFINE active == IsActivePassiveModel(bpm)
            zones == NamedZones(ig)
<1>1. service(ig, bpm) = (UNION {generateServices(ig, az, active) : az \in zones})
                         \cup {Headless(ig, bpm)}
  BY DEF service, Headless
<1>2. \A az : generateServices(ig, az, active) =
                  {OfInstance(ig, bpm, az, o) : o \in 0..(ig.instances - 1)}
  BY DEF generateServices, OfInstance
<1>. HIDE DEF active, zones
<1>3. \A s : s \in service(ig, bpm) <=>
          \/ s = Headless(ig, bpm)
          \/ \E az \in zones : s \in generateServices(ig, az, active)
  BY <1>1
<1>. QED  BY <1>2, <1>3 DEF zones

\* The names of the services of a group.
NamesOf(ig, bpm) == {s.name : s \in service(ig, bpm)}

LEMMA ServicesNamed ==
    ASSUME NEW ig, NEW bpm, ServicesPorts(bpm)
    PROVE  /\ ServiceName(ig.name) \in NamesOf(ig, bpm)
           /\ \A az \in NamedZones(ig) : \A o \in 0..(ig.instances - 1) :
                  IndexedServiceName(ig, o, az) \in NamesOf(ig, bpm)
<1>1. Headless(ig, bpm).name = ServiceName(ig.name)
      /\ \A az, o : OfInstance(ig, bpm, az, o).name = IndexedServiceName(ig, o, az)
  BY DEF Service, Headless, OfInstance
<1>. QED  BY <1>1, ServicesOf DEF NamesOf

\* The service has the name of the instance of the zone and ordinal.
NamedFor(ig, z, o, s) ==
    /\ ig.azs \in Nat /\ z \in (IF ig.azs = 0 THEN {0} ELSE 0..(ig.azs - 1))
    /\ o \in 0..(ig.instances - 1)
    /\ s.name = IndexedServiceName(ig, o, IF ig.azs = 0 THEN -1 ELSE z)

\* The service of an instance selects the pod of its zone and ordinal.
LEMMA ServiceSelects ==
    ASSUME NEW ig, OwnAddresses(ig), NEW bpm, ServicesPorts(bpm), NEW s \in service(ig, bpm),
           NEW z, NEW o, NamedFor(ig, z, o, s)
    PROVE  s.az = <<z>> /\ s.ordinal = <<o>>
<1>. DEFINE y == IF ig.azs = 0 THEN -1 ELSE z
<1>1. y \in NamedZones(ig) /\ y \in Int /\ z = IF y = -1 THEN 0 ELSE y
  BY DEF NamedFor, NamedZones
<1>2. <<y, o>> \in Places(ig) /\ AddressAt(ig, <<y, o>>) = s.name
  BY <1>1 DEF NamedFor, Places, AddressAt
<1>3. s # Headless(ig, bpm)
  <2>1. Headless(ig, bpm).name = ServiceName(ig.name)
    BY DEF Headless, Service
  <2>. QED  BY <1>2, <2>1 DEF OwnAddresses
<1>4. PICK az \in NamedZones(ig) :
          \E n \in 0..(ig.instances - 1) : s = OfInstance(ig, bpm, az, n)
  BY <1>3, ServicesOf
<1>5. PICK x \in 0..(ig.instances - 1) : s = OfInstance(ig, bpm, az, x)
  BY <1>4
<1>6. /\ s.name = IndexedServiceName(ig, x, az) /\ s.ordinal = <<x>>
      /\ s.az = <<IF az = -1 THEN 0 ELSE az>>
  BY <1>5 DEF Service, OfInstance
<1>7. <<az, x>> \in Places(ig) /\ AddressAt(ig, <<az, x>>) = s.name
  BY <1>6 DEF Places, AddressAt
<1>8. <<y, o>> = <<az, x>>
  BY <1>2, <1>7 DEF OwnAddresses
<1>9. y = az /\ o = x
  BY <1>8
<1>. QED  BY <1>1, <1>6, <1>9

\* A group with ports has services, as long as its jobs have different names.
LEMMA PortsKept ==
    ASSUME DocumentsInv, NEW g \in converted, NEW i, ConvertedAt(d, g, i),
           ServicePorts(desired.groups[i]) # {}, JobsDiffer(desired.groups[i])
    PROVE  ServicesPorts(output(g).bpm) /\ desired.groups[i].instances # 0
<1>. DEFINE ig == desired.groups[i]
<1>1. Completed(d)
  BY GroupOfConverted
<1>2. /\ i \in DOMAIN desired.groups /\ ig.name = g /\ IsManifest(desired)
      /\ ServicesDiffer(desired)
  BY <1>1 DEF ConvertedAt, ResolvedAt, Completed, desired
<1>3. PICK r0, r, jg :
          Outcome(desired, i, DOMAIN desired.links, d.initial, output(g), r0, r, jg)
  BY DEF ConvertedAt, ResolvedAt, desired, output
<1>4. ig.instances # 0
  <2>1. g \in d.qJob[1].containers
    BY DEF DocumentsInv, ResolvedWritten, RolloutInv, TypeOK
  <2>2. d.qJob # Nil /\ d.qJob = InstanceGroupManifestJob(desired)
    <3>1. PICK c \in Deployments : d = Documents(c)
      BY DEF DocumentsInv
    <3>2. g \in DOMAIN d.output /\ d.output[g] # Nil
      BY DEF DocumentsInv, ResolvedWritten, RolloutInv, TypeOK, Groups
    <3>. QED  BY <1>1, <3>1, <3>2, AppliedComplete DEF Completed, desired
  <2>3. d.qJob[1].containers = {desired.groups[j].name : j \in Running(desired)}
    BY <2>2 DEF InstanceGroupManifestJob
  <2>4. PICK j \in Running(desired) : desired.groups[j].name = g
    BY <2>1, <2>3
  <2>5. j = i
    BY <1>2, <2>4 DEF ServicesDiffer, GroupsDiffer, Running
  <2>. QED  BY <2>4, <2>5 DEF Running
<1>5. PICK k \in DOMAIN ig.jobs : ig.jobs[k].ports
  BY DEF ServicePorts
<1>. DEFINE name == ig.jobs[k].name
<1>6. /\ DOMAIN output(g).bpm = {ig.jobs[j].name : j \in DOMAIN ig.jobs}
      /\ \A n \in DOMAIN output(g).bpm :
             ig.instances # 0 =>
                 \E l \in DOMAIN ig.jobs :
                     ig.jobs[l].name = n /\ output(g).bpm[n].ports = ig.jobs[l].ports
  BY <1>2, <1>3, OutputOf
<1>7. name \in DOMAIN output(g).bpm
  BY <1>5, <1>6
<1>8. PICK l \in DOMAIN ig.jobs :
          ig.jobs[l].name = name /\ output(g).bpm[name].ports = ig.jobs[l].ports
  BY <1>4, <1>6, <1>7
<1>9. l = k
  BY <1>5, <1>8 DEF JobsDiffer
<1>10. output(g).bpm[name].ports
  BY <1>5, <1>8, <1>9
<1>. QED  BY <1>4, <1>7, <1>10 DEF ServicesPorts

\* The name of a service of the group.
Addresses(ig, name) ==
    \/ name = ServiceName(ig.name)
    \/ \E az \in NamedZones(ig) : \E o \in 0..(ig.instances - 1) :
           name = IndexedServiceName(ig, o, az)

LEMMA RewrittenTo ==
    ASSUME NEW ig, NEW target, NEW domain, NEW r \in gatherAllRewrites(ig, target, domain)
    PROVE  Addresses(ig, r.to)
<1>1. CASE target.query # "_"
  <2>1. r = [from |-> <<domain>>, to |-> ServiceName(ig.name)]
    BY <1>1 DEF gatherAllRewrites
  <2>2. r.to = ServiceName(ig.name)
    BY <2>1
  <2>. QED  BY <2>2 DEF Addresses
<1>2. CASE target.query = "_"
  <2>1. PICK az \in NamedZones(ig) : r \in gatherRewritesForInstances(ig, domain, az)
    BY <1>2 DEF gatherAllRewrites
  <2>2. PICK o \in 0..(ig.instances - 1) :
            r = [from |-> <<domain, ig.name, az, o>>, to |-> IndexedServiceName(ig, o, az)]
    BY <2>1 DEF gatherRewritesForInstances
  <2>. QED  BY <2>2 DEF Addresses
<1>. QED  BY <1>1, <1>2

\* A record for an alias of the group leads to one of its services.
LEMMA RewritesServed ==
    ASSUME NEW m, IsManifest(m), ServicesDiffer(m), NEW i \in DOMAIN m.groups,
           NEW alias, alias.target.group = m.groups[i].name, NEW r \in Rewrites(m, alias)
    PROVE  Addresses(m.groups[i], r.to)
<1>1. InstanceGroupByName(m, alias.target.group) = <<m.groups[i]>>
  BY GroupFound
<1>2. <<m.groups[i]>> # Nil /\ <<m.groups[i]>>[1] = m.groups[i]
  BY DEF Nil
<1>3. r \in gatherAllRewrites(m.groups[i], alias.target, alias.domain)
  BY <1>1, <1>2 DEF Rewrites
<1>. QED  BY <1>3, RewrittenTo

LEMMA InstanceAddresses ==
    ASSUME NEW ig, Sized(ig), NEW initialRollout, NEW instances,
           instances = newJobInstances(ig, initialRollout), NEW k \in DOMAIN instances
    PROVE  Addresses(ig, instances[k].address)
<1>1. k \in 1..SizeOf(ig)
  BY InstancesOf
<1>2. instances[k].address = IndexedServiceName(ig, OrdinalAt(ig, k), ZoneAt(ig, k))
  BY <1>1, InstanceAt
<1>3. ZoneAt(ig, k) \in NamedZones(ig) /\ OrdinalAt(ig, k) \in 0..(ig.instances - 1)
  BY <1>1, InstancePlaces
<1>. QED  BY <1>2, <1>3 DEF Addresses

\* What is published of a group, and what its services are.
LEMMA AddressesImplied ==
    ASSUME DocumentsInv
    PROVE  PublishedAddressesServed
<1>. SUFFICES ASSUME NEW g \in converted, object(g).kind = "QuarksStatefulSet",
                     ServicePorts(Ig(g)) # {}, JobsDiffer(Ig(g))
              PROVE  LET services == applied(g).services
                         serviceNames == {s.name : s \in services}
                         aliases == {a \in Aliases(desired) : a.target.group = g}
                     IN /\ \A t \in Told : t[3].group = g =>
                               /\ t[3].address \in serviceNames
                               /\ \A k \in DOMAIN t[3].instances :
                                      t[3].instances[k].address \in serviceNames
                        /\ \A a \in aliases : \A r \in Rewrites(desired, a) :
                               r.to \in serviceNames
                        /\ ServiceName(g) \in serviceNames
                        /\ \A p \in DOMAIN pods : \A s \in services :
                               p[1] = g /\ pods[p].instance # Nil /\ Ig(g).injectReplicas
                                 /\ s.name = pods[p].instance[1].address
                               => s.az = <<p[2]>> /\ s.ordinal = <<p[3]>>
  BY DEF PublishedAddressesServed
<1>1. PICK i : /\ ConvertedAt(d, g, i) /\ i \in DOMAIN desired.groups
               /\ desired.groups[i].name = g /\ Ig(g) = desired.groups[i]
               /\ IsGroup(desired.groups[i])
  BY GroupOfConverted
<1>. DEFINE ig == desired.groups[i]
            bpm == output(g).bpm
            serviceNames == {s.name : s \in applied(g).services}
<1>2. IsManifest(desired) /\ ServicesDiffer(desired)
  BY GroupOfConverted DEF Completed, desired
<1>3. ServicesPorts(bpm)
  BY <1>1, PortsKept
<1>4. applied(g).services = service(ig, bpm)
  <2>1. /\ object(g).kind = IF IsErrand(ig) THEN "QuarksJob" ELSE "QuarksStatefulSet"
        /\ applied(g).services = IF IsErrand(ig) THEN {} ELSE service(ig, bpm)
    BY <1>1, ObjectAt
  <2>. QED  BY <2>1
<1>5. \A name : Addresses(ig, name) => name \in serviceNames
  <2>1. serviceNames = NamesOf(ig, bpm)
    BY <1>4 DEF NamesOf
  <2>. HIDE DEF ig, bpm, serviceNames
  <2>. QED  BY <1>3, <2>1, ServicesNamed DEF Addresses
<1>6. Sized(ig)
  BY <1>1 DEF IsGroup, Sized
<1>7. ASSUME NEW t \in Told, t[3].group = g
      PROVE  /\ t[3].address \in serviceNames
             /\ \A k \in DOMAIN t[3].instances : t[3].instances[k].address \in serviceNames
  <2>1. TellsOf(desired, d.initial, t[3])
    BY <1>7, ToldOf
  <2>2. /\ t[3].address = ServiceName(ig.name)
        /\ t[3].instances = newJobInstances(ig, d.initial)
    BY <1>1, <1>2, <1>7, <2>1, ToldOfGroup
  <2>3. Addresses(ig, t[3].address)
    BY <2>2 DEF Addresses
  <2>4. \A k \in DOMAIN t[3].instances : Addresses(ig, t[3].instances[k].address)
    <3>. HIDE DEF ig
    <3>. QED  BY <1>6, <2>2, InstanceAddresses
  <2>. QED  BY <1>5, <2>3, <2>4
<1>8. ASSUME NEW a \in Aliases(desired), a.target.group = g, NEW r \in Rewrites(desired, a)
      PROVE  r.to \in serviceNames
  BY <1>1, <1>2, <1>5, <1>8, RewritesServed
<1>9. ServiceName(g) \in serviceNames
  BY <1>1, <1>5 DEF Addresses
<1>10. ASSUME NEW p \in DOMAIN pods, NEW s \in applied(g).services, p[1] = g,
              pods[p].instance # Nil, Ig(g).injectReplicas,
              s.name = pods[p].instance[1].address
       PROVE  s.az = <<p[2]>> /\ s.ordinal = <<p[3]>>
  <2>. DEFINE mine == pods[p].instance[1]
  <2>1. PICK j : RendersOwn(p, j)
    BY <1>10, PodRenders
  <2>2. j = i
    BY <1>1, <1>2, <1>10, <2>1 DEF RendersOwn, ServicesDiffer, GroupsDiffer
  <2>3. /\ p[2] \in (IF ig.azs = 0 THEN {0} ELSE 0..(ig.azs - 1))
        /\ p[3] \in 0..(ig.instances - 1)
        /\ IsInstance(ig, p[2], p[3], d.version = 1, mine)
    BY <2>1, <2>2 DEF RendersOwn
  <2>11. OwnAddresses(ig)
    BY <1>1, <1>2, AddressesOwned
  <2>. HIDE DEF ig, mine
  <2>4. PICK k \in 1..SizeOf(ig) :
            /\ mine = newJobInstances(ig, d.version = 1)[k]
            /\ ZoneAt(ig, k) = (IF ig.azs = 0 THEN -1 ELSE p[2]) /\ OrdinalAt(ig, k) = p[3]
    BY <2>3 DEF IsInstance
  <2>5. mine.address = IndexedServiceName(ig, p[3], IF ig.azs = 0 THEN -1 ELSE p[2])
    BY <1>6, <2>4, InstanceAt
  <2>6. s.name = mine.address /\ ig.azs \in Nat /\ s \in service(ig, bpm)
    BY <1>4, <1>6, <1>10 DEF mine, Sized, ig
  <2>. DEFINE z == p[2]
              o == p[3]
  <2>7. z \in (IF ig.azs = 0 THEN {0} ELSE 0..(ig.azs - 1)) /\ o \in 0..(ig.instances - 1)
    BY <2>3
  <2>8. s.name = IndexedServiceName(ig, o, IF ig.azs = 0 THEN -1 ELSE z)
    BY <2>5, <2>6
  <2>9. NamedFor(ig, z, o, s)
    BY <2>6, <2>7, <2>8 DEF NamedFor
  <2>. HIDE DEF bpm, z, o
  <2>10. s.az = <<z>> /\ s.ordinal = <<o>>
    BY <1>3, <2>6, <2>9, <2>11, ServiceSelects
  <2>. QED  BY <2>10 DEF z, o
<1>. HIDE DEF ig, bpm
<1>. QED  BY <1>7, <1>8, <1>9, <1>10

\* In every reachable state of any deployment the addresses that links, DNS
\* aliases and wait containers name for a group are names of its services, and
\* the service of an instance selects the pod that renders it: the three
\* places that build such a name, from a zone and a number counted in different
\* ways, agree (resources.go, instance_group.go, boshdns/corefile.go).
THEOREM AddressesServed == Spec => []PublishedAddressesServed
<1>1. Init => DocumentsInv
  BY DocumentsStart
<1>2. DocumentsInv /\ [Next]_vars => DocumentsInv'
  BY DocumentsNext
<1>3. DocumentsInv => PublishedAddressesServed
  BY AddressesImplied
<1>. QED  BY <1>1, <1>2, <1>3, PTL DEF Spec

-----------------------------------------------------------------------------
(* The volumes of pods *)

LEMMA MountsImplied ==
    ASSUME DocumentsInv
    PROVE  MountsHaveVolumes
<1>. SUFFICES ASSUME NEW g \in converted, DisksComplete(Ig(g)),
                     NEW c \in ToSet(object(g).template.init)
                               \cup ToSet(object(g).template.containers),
                     NEW mount \in c.mounts
              PROVE  mount.volume \in DeclaredVolumes(object(g).template)
                                      \cup Undeclared(Ig(g), output(g).bpm)
  BY DEF MountsHaveVolumes, MountedVolumes
<1>1. PICK i : /\ ConvertedAt(d, g, i) /\ i \in DOMAIN desired.groups
               /\ desired.groups[i].name = g /\ Ig(g) = desired.groups[i]
               /\ IsGroup(desired.groups[i])
  BY GroupOfConverted
<1>. DEFINE ig == desired.groups[i]
            bpm == output(g).bpm
            disks == GenerateBPMDisks(ig, bpm).disks \o ig.disks
            t == object(g).template
            volumes == PodVolumes(ig, bpm, disks)
<1>2. /\ t.init = JobsToInitContainers(ig, bpm, disks, d.version)
      /\ t.containers = JobsToContainers(ig, bpm, disks)
      /\ DeclaredVolumes(t) \cup Undeclared(ig, bpm) = volumes /\ ig = Ig(g)
  BY <1>1, ObjectAt DEF PodVolumes, DeclaredVolumes
<1>4. ConvertibleJobs(ig, bpm)
  <2>1. Completed(d)
    BY GroupOfConverted
  <2>2. ConvertibleJobs(d.desired[1].groups[i], d.output[g][1].bpm)
    BY <1>1, <2>1, ConvertedJobs
  <2>. QED  BY <2>2 DEF desired, output
<1>5. IsGroup(ig) /\ DisksComplete(ig)
  BY <1>1
<1>6. GroupFits(ig, disks, volumes)
  <2>1. disks = GenerateBPMDisks(ig, bpm).disks \o ig.disks
    OBVIOUS
  <2>. HIDE DEF disks, ig, bpm
  <2>. QED  BY <1>4, <1>5, <2>1, AllDisksFit DEF GroupFits
<1>. HIDE DEF ig, bpm, disks, volumes
<1>7. ContainersFit(t.init, volumes) /\ ContainersFit(t.containers, volumes)
  BY <1>2, <1>4, <1>6, InitContainersFit, ContainersOfGroupFit
<1>8. VolumesOf(c.mounts) \subseteq volumes
  BY <1>7 DEF ContainersFit
<1>. QED  BY <1>2, <1>8 DEF VolumesOf, bpm

\* In every reachable state of any deployment each mount of a container,
\* whichever of the default, BPM and agent disks it comes from, is of a volume
\* or a claim of the pod's template, so that Kubernetes does not refuse the
\* pod; the exceptions are the additional volumes below the store
\* directory of a group without a persistent disk and those whose path only
\* contains, and does not start with, a known directory (volume_factory.go:209,
\* :227, container_factory.go).
THEOREM MountsServed == Spec => []MountsHaveVolumes
<1>1. Init => DocumentsInv
  BY DocumentsStart
<1>2. DocumentsInv /\ [Next]_vars => DocumentsInv'
  BY DocumentsNext
<1>3. DocumentsInv => MountsHaveVolumes
  BY MountsImplied
<1>. QED  BY <1>1, <1>2, <1>3, PTL DEF Spec

-----------------------------------------------------------------------------
(* The providers of links *)

LEMMA LinksImplied ==
    ASSUME DocumentsInv
    PROVE  LinksResolveToProvider
<1>. SUFFICES ASSUME NEW g \in resolved, NEW k \in DOMAIN Ig(g).jobs,
                     NEW n \in DOMAIN SpecOf(Ig(g).jobs[k]).consumes,
                     Kept(Ig(g).jobs[k], n), SpecOf(Ig(g).jobs[k]).consumes[n].name # "nil"
              PROVE  Provided(desired, SpecOf(Ig(g).jobs[k]).consumes[n].type,
                              SpecOf(Ig(g).jobs[k]).consumes[n].name,
                              output(g).manifest.jobs[k].links[NameOf(Ig(g).jobs[k], n)])
  BY DEF LinksResolveToProvider
<1>1. Completed(d) /\ \E i : ResolvedAt(d, g, i)
  BY GroupOfResolved
<1>2. PICK i : ResolvedAt(d, g, i)
  BY <1>1
<1>3. /\ i \in DOMAIN desired.groups /\ desired.groups[i].name = g
      /\ IsManifest(desired) /\ ServicesDiffer(desired)
  BY <1>1, <1>2 DEF ResolvedAt, Completed, desired
<1>4. Ig(g) = d.desired[1].groups[i]
  <2>1. InstanceGroupByName(desired, desired.groups[i].name) = <<desired.groups[i]>>
    BY <1>3, GroupFound
  <2>2. Ig(g) = desired.groups[i]
    BY <1>3, <2>1 DEF Ig
  <2>. QED  BY <2>2 DEF desired
<1>5. Consumes(d.desired[1], i, k, n)
  BY <1>4 DEF Consumes
<1>. DEFINE job == d.desired[1].groups[i].jobs[k]
            c == SpecOf(job).consumes[n]
<1>6. Provided(d.desired[1], c.type, c.name,
               d.output[g][1].manifest.jobs[k].links[NameOf(job, n)])
  BY <1>1, <1>2, <1>5, LinksProvidedTo
<1>7. job = Ig(g).jobs[k] /\ desired = d.desired[1] /\ output(g) = d.output[g][1]
  BY <1>4 DEF desired, output
<1>. HIDE DEF job
<1>. QED  BY <1>6, <1>7

\* In every reachable state of any deployment each link of a resolved group is
\* that of a native provider or of the first job of the manifest that publishes
\* its type and name, explicit properties before defaults, and only addons
\* publish it again: whatever the number and the order of groups, jobs and
\* provided links, no provider replaces another (job_provider_links.go,
\* resolver.go).
THEOREM LinksOfProviders == Spec => []LinksResolveToProvider
<1>1. Init => DocumentsInv
  BY DocumentsStart
<1>2. DocumentsInv /\ [Next]_vars => DocumentsInv'
  BY DocumentsNext
<1>3. DocumentsInv => LinksResolveToProvider
  BY LinksImplied
<1>. QED  BY <1>1, <1>2, <1>3, PTL DEF Spec

==============================================================================
