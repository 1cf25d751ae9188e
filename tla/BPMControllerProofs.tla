-------------------------- MODULE BPMControllerProofs --------------------------
(***************************************************************************)
(* Proofs about BPMController, for any groups, manifests and number of     *)
(* workers.                                                                *)
(***************************************************************************)
EXTENDS BPMController, FiniteSetTheorems, TLAPS

Worker == [pc : Steps, build : Build]

\* A build never lacks what its step relies on (the last part of TypeOK about
\* workers).
Prepared(w) ==
    /\ w.pc \in {"dns", "apply"} => w.build.bpm # 0 /\ w.build.manifest # 0
    /\ w.pc \in {"errand", "services", "qsts"} => w.build \in Complete

------------------------------------------------------------------------------
(* Types *)

\* The version of a key is a version, its group a group.
LEMMA KeyParts ==
    ASSUME NEW k \in Keys
    PROVE  Group(k) \in IG /\ Version(k) \in Versions
BY DEF Keys, Group, Version

\* No object, an idle worker and complete builds are well typed.
LEMMA InitialTypes ==
    /\ Nothing \in Build /\ Idle \in Worker /\ Prepared(Idle)
    /\ Complete \subseteq Build
    /\ Idle.pc = "idle"
<1>1. MaxVersion \in Nat
  BY BPMAssumption
<1>2. Nothing \in Build
  BY <1>1 DEF Nothing, Build
<1>3. Complete \subseteq Build
  BY <1>1 DEF Complete, Build, Versions
<1> QED
  BY <1>2, <1>3 DEF Idle, Worker, Steps, Prepared

\* The part of TypeOK about workers.
WorkersOK ==
    /\ worker \in [Keys -> Worker]
    /\ \A k \in Keys : Prepared(worker[k])

\* The rest of it.
RestOK ==
    /\ planned \in Versions /\ desired \in Versions
    /\ dns \in BOOLEAN
    /\ igResolved \in [IG -> 0 .. MaxVersion]
    /\ bpm \in [Keys -> {"none", "new", "annotated"}]
    /\ queue \subseteq Keys /\ delayed \subseteq Keys
    /\ qJobs \in [IG -> Build]
    /\ services \in [IG -> Build]
    /\ qsts \in [IG -> Build]
    /\ faults \in 0 .. MaxFaults
    /\ rolled \subseteq Keys

\* The two parts together are TypeOK.
LEMMA TypeParts == TypeOK <=> WorkersOK /\ RestOK
BY DEF TypeOK, WorkersOK, RestOK, Worker, Prepared

\* A step that gives one worker a prepared record keeps the workers.
LEMMA OneWorker ==
    ASSUME WorkersOK, NEW k \in Keys, NEW w \in Worker, Prepared(w),
           worker' = [worker EXCEPT ![k] = w]
    PROVE  WorkersOK'
<1>1. worker' \in [Keys -> Worker]
  BY DEF WorkersOK
<1>2. ASSUME NEW j \in Keys
      PROVE  Prepared(worker'[j])
  BY DEF WorkersOK
<1> QED
  BY <1>1, <1>2 DEF WorkersOK

\* Moving on to a step that relies on no more than the present one.
LEMMA GotoWorker ==
    ASSUME WorkersOK, NEW k \in Keys, NEW step \in Steps, Goto(k, step),
           Prepared([pc |-> step, build |-> worker[k].build])
    PROVE  WorkersOK'
<1> DEFINE w == [pc |-> step, build |-> worker[k].build]
<1>1. worker[k] \in Worker
  BY DEF WorkersOK
<1>2. w \in Worker
  BY <1>1 DEF Worker
<1>3. worker' = [worker EXCEPT ![k] = w]
  BY DEF Goto, WorkersOK
<1> QED
  BY <1>2, <1>3, OneWorker

\* A worker that finishes becomes idle.
LEMMA FinishWorker ==
    ASSUME WorkersOK, NEW k \in Keys, Finish(k)
    PROVE  WorkersOK'
BY OneWorker, InitialTypes DEF Finish

\* A fault keeps the budget of faults.
LEMMA FaultBudget ==
    ASSUME faults \in 0 .. MaxFaults, NEW kind, Fault(kind)
    PROVE  faults' \in 0 .. MaxFaults
BY BPMAssumption DEF Fault

\* A step of a reconcile keeps the types.
LEMMA ReconcileType ==
    ASSUME TypeOK, NEW k \in Keys, Reconcile(k)
    PROVE  TypeOK'
<1>0. WorkersOK /\ RestOK /\ worker[k] \in Worker /\ Prepared(worker[k])
  BY TypeParts DEF WorkersOK
<1>k. Group(k) \in IG /\ Version(k) \in Versions
  BY KeyParts
<1>n. MaxVersion \in Nat
  BY BPMAssumption
<1>1. CASE ReadDesiredManifest(k)
  <2> DEFINE w == [pc |-> "dns", build |-> [bpm |-> Version(k),
                                            manifest |-> desired, ig |-> 0]]
  <2>1. w \in Worker /\ Prepared(w)
    BY <1>0, <1>k, <1>n DEF Worker, Steps, Prepared, Build, RestOK, Versions
  <2>2. worker' = [worker EXCEPT ![k] = w]
    BY <1>1 DEF ReadDesiredManifest
  <2>3. WorkersOK'
    BY <1>0, <2>1, <2>2, OneWorker
  <2>4. RestOK'
    BY <1>0, <1>1 DEF ReadDesiredManifest, RestOK, inputs, outputs
  <2> QED
    BY <2>3, <2>4, TypeParts DEF TypeOK, WorkersOK, RestOK, Worker, Prepared
<1>2. CASE GetDNSService(k)
  <2>3. WorkersOK'
    <3>1. CASE Goto(k, "apply")
      <4>1. Prepared([pc |-> "apply", build |-> worker[k].build])
        BY <1>0, <1>2 DEF Prepared, GetDNSService
      <4> QED
        BY <1>0, <3>1, <4>1, GotoWorker DEF Steps
    <3>2. CASE Retry(k)
      BY <1>0, <3>2, FinishWorker DEF Retry
    <3> QED
      BY <1>2, <3>1, <3>2 DEF GetDNSService
  <2>4. RestOK'
    BY <1>0, <1>2 DEF GetDNSService, Retry, RestOK, inputs, outputs
  <2> QED
    BY <2>3, <2>4, TypeParts DEF TypeOK, WorkersOK, RestOK, Worker, Prepared
<1>3. CASE ApplyBPMResources(k)
  <2> DEFINE step == IF Group(k) \in Errands THEN "errand" ELSE "services"
             b == [bpm |-> worker[k].build.bpm,
                   manifest |-> worker[k].build.manifest,
                   ig |-> igResolved[Group(k)]]
             w == [pc |-> step, build |-> b]
  <2>1. \/ igResolved[Group(k)] # 0 /\ worker' = [worker EXCEPT ![k] = w]
        \/ Retry(k)
    BY <1>0, <1>3 DEF ApplyBPMResources, WorkersOK
  <2>2. ASSUME igResolved[Group(k)] # 0
        PROVE  w \in Worker /\ Prepared(w)
    <3>1. worker[k].build \in Build
      BY <1>0 DEF Worker
    <3>2. worker[k].build.bpm # 0 /\ worker[k].build.manifest # 0
      BY <1>0, <1>3 DEF Prepared, ApplyBPMResources
    <3>3. igResolved[Group(k)] \in 0 .. MaxVersion
      BY <1>0, <1>k DEF RestOK
    <3>4. b \in Complete
      BY <1>n, <2>2, <3>1, <3>2, <3>3 DEF Build, Complete, Versions
    <3>5. step \in {"errand", "services"}
      OBVIOUS
    <3> HIDE DEF b, step
    <3> QED
      BY <3>4, <3>5, InitialTypes DEF Worker, Steps, Prepared
  <2>3. Retry(k) => WorkersOK'
    BY <1>0, FinishWorker DEF Retry
  <2>4. RestOK'
    BY <1>0, <1>3 DEF ApplyBPMResources, Retry, RestOK, inputs, outputs
  <2> HIDE DEF w
  <2>5. WorkersOK'
    BY <1>0, <2>1, <2>2, <2>3, OneWorker
  <2> QED
    BY <2>4, <2>5, TypeParts DEF TypeOK, WorkersOK, RestOK, Worker, Prepared
<1>4. CASE DeployErrand(k) \/ DeployServices(k) \/ DeployQuarksStatefulSet(k)
  <2>1. worker[k].build \in Complete /\ worker[k].build \in Build
    BY <1>0, <1>4, InitialTypes
       DEF Prepared, DeployErrand, DeployServices, DeployQuarksStatefulSet
  <2>2. /\ Prepared([pc |-> "annotate", build |-> worker[k].build])
        /\ Prepared([pc |-> "qsts", build |-> worker[k].build])
    BY <2>1 DEF Prepared
  <2>3. Goto(k, "annotate") \/ Goto(k, "qsts")
    BY <1>4 DEF DeployErrand, DeployServices, DeployQuarksStatefulSet
  <2>4. WorkersOK'
    BY <1>0, <2>2, <2>3, GotoWorker DEF Steps
  <2>5. RestOK'
    BY <1>0, <1>4, <1>k, <2>1
       DEF DeployErrand, DeployServices, DeployQuarksStatefulSet, RestOK,
           inputs, outputs
  <2> QED
    BY <2>4, <2>5, TypeParts DEF TypeOK, WorkersOK, RestOK, Worker, Prepared
<1>5. CASE SetLastReconcile(k)
  <2>1. WorkersOK'
    BY <1>0, <1>5, FinishWorker DEF SetLastReconcile
  <2>2. RestOK'
    BY <1>0, <1>5 DEF SetLastReconcile, RestOK, inputs, outputs
  <2> QED
    BY <2>1, <2>2, TypeParts DEF TypeOK, WorkersOK, RestOK, Worker, Prepared
<1> QED
  BY <1>1, <1>2, <1>3, <1>4, <1>5 DEF Reconcile

\* Every step keeps the types.
LEMMA NextType ==
    ASSUME TypeOK, [Next]_vars
    PROVE  TypeOK'
<1>0. WorkersOK /\ RestOK
  BY TypeParts
<1>1. SUFFICES (WorkersOK' /\ RestOK') \/ TypeOK'
  BY DEF TypeOK, WorkersOK, RestOK, Worker, Prepared
<1>2. ASSUME NEW k \in Keys, Reconcile(k)
      PROVE  TypeOK'
  BY <1>2, ReconcileType
<1>3. ASSUME NEW k \in Keys, Get(k)
      PROVE  WorkersOK' /\ RestOK'
  <2>1. WorkersOK'
    <3>1. Goto(k, "manifest") \/ Finish(k)
      BY <1>3 DEF Get, Retry
    <3>2. Prepared([pc |-> "manifest", build |-> worker[k].build])
      BY DEF Prepared
    <3> QED
      BY <1>0, <3>1, <3>2, FinishWorker, GotoWorker DEF Steps
  <2>2. RestOK'
    BY <1>0, <1>3 DEF Get, Retry, RestOK, inputs, outputs
  <2> QED
    BY <2>1, <2>2
<1>4. ASSUME NEW k \in Keys, Due(k)
      PROVE  WorkersOK' /\ RestOK'
  BY <1>0, <1>4 DEF Due, WorkersOK, RestOK, inputs, outputs
<1>5. ASSUME NEW k \in Keys, SetLastReconcileFails(k) \/ CallFails(k)
      PROVE  WorkersOK' /\ RestOK'
  <2>1. Finish(k) /\ \E kind \in FaultKinds : Fault(kind)
    BY <1>5 DEF SetLastReconcileFails, CallFails, Retry, Fault
  <2>2. faults' \in 0 .. MaxFaults
    BY <1>0, <2>1, FaultBudget DEF RestOK
  <2>3. RestOK'
    BY <1>0, <1>5, <2>2
       DEF SetLastReconcileFails, CallFails, Retry, RestOK, inputs, outputs
  <2> QED
    BY <1>0, <2>1, <2>3, FinishWorker
<1>6. ASSUME NEW g \in IG, NEW v \in Versions, WriteIGResolved(g, v)
      PROVE  WorkersOK' /\ RestOK'
  <2>1. v \in 0 .. MaxVersion
    BY BPMAssumption DEF Versions
  <2>2. igResolved' \in [IG -> 0 .. MaxVersion]
    BY <1>0, <1>6, <2>1 DEF WriteIGResolved, RestOK
  <2> QED
    BY <1>0, <1>6, <2>2 DEF WriteIGResolved, WorkersOK, RestOK, outputs
<1>7. ASSUME NEW g \in IG, NEW v \in Versions, WriteBPM(g, v)
      PROVE  WorkersOK' /\ RestOK'
  <2>1. <<g, v>> \in Keys
    BY DEF Keys
  <2> QED
    BY <1>0, <1>7, <2>1 DEF WriteBPM, WorkersOK, RestOK, inputs, outputs
<1>8. CASE BDPLDeploys
  <2>1. planned' \in Versions
    BY <1>0, <1>8, BPMAssumption DEF BDPLDeploys, RestOK, Versions
  <2>2. qsts' \in [IG -> Build] /\ services' \in [IG -> Build]
    BY <1>0, <1>8, InitialTypes DEF BDPLDeploys, RestOK
  <2> QED
    BY <1>0, <1>8, <2>1, <2>2 DEF BDPLDeploys, WorkersOK, RestOK
<1>9. CASE PublishDesiredManifest
  <2>1. desired' \in Versions
    BY <1>0, <1>9, BPMAssumption DEF PublishDesiredManifest, RestOK, Versions
  <2> QED
    BY <1>0, <1>9, <2>1
       DEF PublishDesiredManifest, WorkersOK, RestOK, outputs
<1>10. CASE ApplyDNS
  BY <1>0, <1>10 DEF ApplyDNS, WorkersOK, RestOK, outputs
<1>11. CASE Crash
  <2>1. WorkersOK'
    BY <1>11, InitialTypes DEF Crash, WorkersOK
  <2>2. faults' \in 0 .. MaxFaults
    BY <1>0, <1>11, FaultBudget DEF Crash, RestOK
  <2> QED
    BY <1>0, <1>11, <2>1, <2>2 DEF Crash, RestOK, inputs, outputs
<1>12. CASE UNCHANGED vars
  BY <1>0, <1>12 DEF vars, inputs, outputs, WorkersOK, RestOK
<1> QED
  BY <1>2, <1>3, <1>4, <1>5, <1>6, <1>7, <1>8, <1>9, <1>10, <1>11, <1>12
     DEF Next

\* The initial states are well typed.
LEMMA InitType ==
    ASSUME Init
    PROVE  TypeOK
<1>1. WorkersOK
  BY InitialTypes DEF Init, WorkersOK
<1>2. 1 \in Versions /\ 0 \in 0 .. MaxVersion /\ MaxFaults \in 0 .. MaxFaults
  BY BPMAssumption DEF Versions
<1>3. /\ qJobs \in [IG -> Build] /\ services \in [IG -> Build]
      /\ qsts \in [IG -> Build]
  BY InitialTypes DEF Init
<1>4. RestOK
  BY <1>2, <1>3 DEF Init, RestOK
<1> QED
  BY <1>1, <1>4, TypeParts

\* Every reachable state of the BPM reconciler is well typed: nothing is
\* deployed that lacks a BPM secret, a desired manifest or an ig-resolved
\* secret (bpm_reconciler.go Reconcile, applyBPMResources).
THEOREM BPMTypeCorrect == Spec => []TypeOK
<1>1. Init => TypeOK
  BY InitType
<1>2. TypeOK /\ [Next]_vars => TypeOK'
  BY NextType
<1> QED
  BY <1>1, <1>2, PTL DEF Spec

------------------------------------------------------------------------------
(* No BPM secret is forgotten *)

\* Every step keeps the two other parts of BPMInv.
LEMMA StepKeepsInv ==
    ASSUME TypeOK, RolledBeforeStamp, NoForgottenBPM, [Next]_vars
    PROVE  RolledBeforeStamp' /\ NoForgottenBPM'
<1> USE DEF RolledBeforeStamp, NoForgottenBPM, Busy
<1>0. /\ worker \in [Keys -> Worker]
      /\ bpm \in [Keys -> {"none", "new", "annotated"}]
      /\ Idle.pc = "idle"
  BY InitialTypes DEF TypeOK, Worker
<1>1. ASSUME NEW k \in Keys, Reconcile(k)
      PROVE  RolledBeforeStamp' /\ NoForgottenBPM'
  <2>0. \A j \in Keys \ {k} : worker'[j] = worker[j]
    BY <1>0, <1>1
       DEF Reconcile, ReadDesiredManifest, GetDNSService, ApplyBPMResources,
           DeployErrand, DeployServices, DeployQuarksStatefulSet,
           SetLastReconcile, Goto, Retry, Finish
  <2>1. CASE ReadDesiredManifest(k)
    <3>1. worker'[k].pc = "dns"
      BY <1>0, <2>1 DEF ReadDesiredManifest
    <3> QED
      BY <2>0, <2>1, <3>1 DEF ReadDesiredManifest
  <2>2. CASE GetDNSService(k)
    <3>1. \/ worker'[k].pc = "apply"
          \/ worker'[k].pc = "idle" /\ k \in delayed'
      BY <1>0, <2>2 DEF GetDNSService, Goto, Retry, Finish, Worker
    <3>2. delayed \subseteq delayed' /\ UNCHANGED <<bpm, queue, rolled>>
      BY <2>2 DEF GetDNSService, Retry
    <3> QED
      BY <2>0, <3>1, <3>2
  <2>3. CASE ApplyBPMResources(k)
    <3>1. \/ worker'[k].pc \in {"errand", "services"}
          \/ worker'[k].pc = "idle" /\ k \in delayed'
      BY <1>0, <2>3 DEF ApplyBPMResources, Retry, Finish
    <3>2. delayed \subseteq delayed' /\ UNCHANGED <<bpm, queue, rolled>>
      BY <2>3 DEF ApplyBPMResources, Retry
    <3> QED
      BY <2>0, <3>1, <3>2
  <2>4. CASE DeployErrand(k) \/ DeployQuarksStatefulSet(k)
    BY <2>0, <2>4 DEF DeployErrand, DeployQuarksStatefulSet
  <2>5. CASE DeployServices(k)
    <3>1. worker'[k].pc = "qsts"
      BY <1>0, <2>5 DEF DeployServices, Goto, Worker
    <3> QED
      BY <2>0, <2>5, <3>1 DEF DeployServices
  <2>6. CASE SetLastReconcile(k)
    <3>1. k \in rolled /\ rolled' = rolled
      BY <2>6 DEF SetLastReconcile
    <3>2. \A j \in Keys \ {k} : bpm'[j] = bpm[j]
      BY <1>0, <2>6 DEF SetLastReconcile
    <3> QED
      BY <2>0, <2>6, <3>1, <3>2 DEF SetLastReconcile
  <2> QED
    BY <1>1, <2>1, <2>2, <2>3, <2>4, <2>5, <2>6 DEF Reconcile
<1>2. ASSUME NEW k \in Keys, Get(k)
      PROVE  RolledBeforeStamp' /\ NoForgottenBPM'
  <2>1. \A j \in Keys \ {k} : worker'[j] = worker[j]
    BY <1>0, <1>2 DEF Get, Goto, Retry, Finish
  <2>2. \/ worker'[k].pc = "manifest"
        \/ worker'[k].pc = "idle" /\ k \in delayed'
    BY <1>0, <1>2 DEF Get, Goto, Retry, Finish, Worker
  <2>3. /\ delayed \subseteq delayed' /\ queue' = queue \ {k}
        /\ UNCHANGED <<bpm, rolled>>
    BY <1>2 DEF Get, Retry
  <2> QED
    BY <2>1, <2>2, <2>3
<1>3. ASSUME NEW k \in Keys, Due(k)
      PROVE  RolledBeforeStamp' /\ NoForgottenBPM'
  BY <1>3 DEF Due
<1>4. ASSUME NEW k \in Keys, SetLastReconcileFails(k) \/ CallFails(k)
      PROVE  RolledBeforeStamp' /\ NoForgottenBPM'
  <2>1. /\ \A j \in Keys \ {k} : worker'[j] = worker[j]
        /\ worker'[k].pc = "idle"
    BY <1>0, <1>4 DEF SetLastReconcileFails, CallFails, Retry, Finish
  <2>2. k \in delayed' \/ k \in rolled
    BY <1>4 DEF SetLastReconcileFails, CallFails, Retry
  <2>3. delayed \subseteq delayed' /\ UNCHANGED <<bpm, queue, rolled>>
    BY <1>4 DEF SetLastReconcileFails, CallFails, Retry
  <2> QED
    BY <2>1, <2>2, <2>3
<1>5. ASSUME NEW g \in IG, NEW v \in Versions, WriteIGResolved(g, v)
      PROVE  RolledBeforeStamp' /\ NoForgottenBPM'
  BY <1>5 DEF WriteIGResolved
<1>6. ASSUME NEW g \in IG, NEW v \in Versions, WriteBPM(g, v)
      PROVE  RolledBeforeStamp' /\ NoForgottenBPM'
  <2>1. /\ bpm'[<<g, v>>] = "new"
        /\ \A j \in Keys \ {<<g, v>>} : bpm'[j] = bpm[j]
    BY <1>0, <1>6 DEF WriteBPM, Keys
  <2> QED
    BY <1>6, <2>1 DEF WriteBPM
<1>7. CASE BDPLDeploys \/ PublishDesiredManifest \/ ApplyDNS
  BY <1>7 DEF BDPLDeploys, PublishDesiredManifest, ApplyDNS
<1>8. CASE Crash
  <2>1. \A j \in Keys : worker'[j].pc = "idle"
    BY <1>0, <1>8 DEF Crash
  <2>2. \A j \in Keys : bpm[j] = "none" \/ j \in rolled \/ j \in delayed'
    BY <1>0, <1>8 DEF Crash
  <2> QED
    BY <1>8, <2>1, <2>2 DEF Crash
<1>9. CASE UNCHANGED vars
  BY <1>9 DEF vars
<1> QED
  BY <1>1, <1>2, <1>3, <1>4, <1>5, <1>6, <1>7, <1>8, <1>9 DEF Next

\* No BPM secret is lost before it is rolled out, whatever fails and however
\* often the operator restarts, for any number of groups, versions and workers
\* (bpm_controller.go CreateFunc, bpm_reconciler.go Reconcile).
THEOREM BPMRemembered == Spec => []NoForgottenBPM
<1>1. Init => BPMInv
  <2>1. Init => TypeOK
    BY InitType
  <2> QED
    BY <2>1, InitialTypes
       DEF Init, BPMInv, RolledBeforeStamp, NoForgottenBPM
<1>2. BPMInv /\ [Next]_vars => BPMInv'
  BY NextType, StepKeepsInv DEF BPMInv
<1>3. BPMInv => NoForgottenBPM
  BY DEF BPMInv
<1> QED
  BY <1>1, <1>2, <1>3, PTL DEF Spec

------------------------------------------------------------------------------
(* One worker never goes back to older inputs *)

\* Every version that is compared is a number.
LEMMA VersionNumbers ==
    ASSUME TypeOK
    PROVE  /\ desired \in Nat
           /\ \A g \in IG : /\ igResolved[g] \in Nat
                            /\ qsts[g].manifest \in Nat /\ qsts[g].ig \in Nat
           /\ \A k \in Keys : /\ worker[k].build.manifest \in Nat
                              /\ worker[k].build.ig \in Nat
<1>1. MaxVersion \in Nat
  BY BPMAssumption
<1>2. \A b \in Build : b.manifest \in Nat /\ b.ig \in Nat
  BY <1>1 DEF Build
<1>3. desired \in Nat
  BY <1>1 DEF TypeOK, Versions
<1>4. \A g \in IG : igResolved[g] \in Nat /\ qsts[g] \in Build
  BY <1>1 DEF TypeOK
<1>5. \A k \in Keys : worker[k].build \in Build
  BY DEF TypeOK
<1> QED
  BY <1>2, <1>3, <1>4, <1>5

\* There are finitely many keys, so a single worker starts only when no
\* reconcile runs.
LEMMA StartsAlone ==
    ASSUME MaxWorkers = 1, NEW k \in Keys, Get(k)
    PROVE  Busy = {}
<1>1. IsFiniteSet(Versions)
  BY BPMAssumption, FS_Interval DEF Versions
<1>2. IsFiniteSet(Keys)
  BY <1>1, BPMAssumption, FS_Product DEF Keys
<1>3. IsFiniteSet(Busy)
  BY <1>2, FS_Subset DEF Busy
<1>4. Cardinality(Busy) \in Nat /\ Cardinality(Busy) < 1
  BY <1>3, FS_CardinalityType DEF Get
<1>5. Cardinality(Busy) = 0
  BY <1>4
<1> QED
  BY <1>3, <1>5, FS_EmptySet

\* A step that does not replace a QuarksStatefulSet keeps what a worker holds
\* between what is deployed and what exists: versions only grow.
LEMMA StillBetween ==
    ASSUME TypeOK, TypeOK', NEW k \in Keys, HeldBetween(k),
           worker'[k] = worker[k], desired <= desired',
           igResolved[Group(k)] <= igResolved'[Group(k)],
           \/ qsts'[Group(k)] = qsts[Group(k)]
           \/ qsts'[Group(k)] = Nothing
    PROVE  HeldBetween(k)'
<1> DEFINE g == Group(k)
<1>1. g \in IG
  BY KeyParts
<1>2. /\ desired \in Nat /\ igResolved[g] \in Nat
      /\ qsts[g].manifest \in Nat /\ qsts[g].ig \in Nat
      /\ worker[k].build.manifest \in Nat /\ worker[k].build.ig \in Nat
  BY <1>1, VersionNumbers
<1>3. desired' \in Nat /\ igResolved'[g] \in Nat
  <2>1. MaxVersion \in Nat
    BY BPMAssumption
  <2>2. desired' \in Nat
    BY <2>1 DEF TypeOK, Versions
  <2>3. igResolved'[g] \in 0 .. MaxVersion
    BY <1>1 DEF TypeOK
  <2> QED
    BY <2>1, <2>2, <2>3
<1>4. Nothing.manifest = 0 /\ Nothing.ig = 0
  BY DEF Nothing
<1>5. /\ qsts'[g].manifest <= qsts[g].manifest
      /\ qsts'[g].ig <= qsts[g].ig
      /\ qsts'[g].manifest \in Nat /\ qsts'[g].ig \in Nat
  BY <1>2, <1>4
<1> QED
  BY <1>2, <1>3, <1>5 DEF HeldBetween

\* No step goes back to an older desired manifest or ig-resolved secret.
LEMMA InputSteps ==
    ASSUME TypeOK, [Next]_vars
    PROVE  /\ desired <= desired'
           /\ \A g \in IG : igResolved[g] <= igResolved'[g]
<1>1. /\ desired \in Nat
      /\ \A g \in IG : igResolved[g] \in Nat
  BY VersionNumbers
<1>2. CASE UNCHANGED <<desired, igResolved>>
  BY <1>1, <1>2
<1>3. CASE PublishDesiredManifest
  BY <1>1, <1>3 DEF PublishDesiredManifest
<1>4. ASSUME NEW g \in IG, NEW v \in Versions, WriteIGResolved(g, v)
      PROVE  /\ desired <= desired'
             /\ \A h \in IG : igResolved[h] <= igResolved'[h]
  <2>1. v \in Nat /\ igResolved[g] < v /\ desired' = desired
    BY <1>4, BPMAssumption DEF WriteIGResolved, Versions
  <2>2. \A h \in IG : igResolved'[h] = IF h = g THEN v ELSE igResolved[h]
    BY <1>4 DEF WriteIGResolved, TypeOK
  <2> QED
    BY <1>1, <2>1, <2>2
<1> QED
  BY <1>2, <1>3, <1>4
     DEF Next, Get, Reconcile, ReadDesiredManifest, GetDNSService,
         ApplyBPMResources, DeployErrand, DeployServices,
         DeployQuarksStatefulSet, SetLastReconcile, Due, SetLastReconcileFails,
         CallFails, WriteBPM, BDPLDeploys, ApplyDNS, Crash, inputs, vars

\* With one worker there is never more than one reconcile.
LEMMA OneReconcileNext ==
    ASSUME MaxWorkers = 1, TypeOK, OneReconcile, [Next]_vars
    PROVE  OneReconcile'
<1>0. worker \in [Keys -> Worker] /\ Idle.pc = "idle"
  BY InitialTypes DEF TypeOK, Worker
<1>1. CASE UNCHANGED worker
  BY <1>1 DEF OneReconcile, Busy
<1>2. ASSUME NEW k \in Keys, Get(k) PROVE OneReconcile'
  <2>1. Busy = {}
    BY <1>2, StartsAlone
  <2>2. \A j \in Keys \ {k} : worker'[j] = worker[j]
    BY <1>0, <1>2 DEF Get, Goto, Retry, Finish
  <2> QED
    BY <2>1, <2>2 DEF OneReconcile, Busy
<1>3. ASSUME NEW k \in Keys,
             Reconcile(k) \/ SetLastReconcileFails(k) \/ CallFails(k)
      PROVE  OneReconcile'
  <2>1. \A j \in Keys \ {k} : worker'[j] = worker[j]
    BY <1>0, <1>3
       DEF Reconcile, ReadDesiredManifest, GetDNSService, ApplyBPMResources,
           DeployErrand, DeployServices, DeployQuarksStatefulSet,
           SetLastReconcile, SetLastReconcileFails, CallFails, Goto, Retry, Finish
  <2>2. worker[k].pc # "idle"
    BY <1>3
       DEF Reconcile, ReadDesiredManifest, GetDNSService, ApplyBPMResources,
           DeployErrand, DeployServices, DeployQuarksStatefulSet,
           SetLastReconcile, SetLastReconcileFails, CallFails
  <2> QED
    BY <2>1, <2>2 DEF OneReconcile, Busy
<1>4. CASE Crash
  BY <1>0, <1>4 DEF Crash, OneReconcile, Busy
<1> QED
  BY <1>1, <1>2, <1>3, <1>4
     DEF Next, Due, WriteIGResolved, WriteBPM, BDPLDeploys,
         PublishDesiredManifest, ApplyDNS, vars

\* A QuarksStatefulSet that is replaced gets newer inputs, or the same ones.
LEMMA Replaces ==
    ASSUME InputInv, NEW k \in Keys, DeployQuarksStatefulSet(k), NEW g \in IG
    PROVE  /\ qsts'[g].manifest >= qsts[g].manifest /\ qsts'[g].ig >= qsts[g].ig
           /\ qsts'[g].manifest <= desired /\ qsts'[g].ig <= igResolved[g]
<1>1. /\ desired \in Nat /\ igResolved[g] \in Nat
      /\ qsts[g].manifest \in Nat /\ qsts[g].ig \in Nat
      /\ worker[k].build.manifest \in Nat /\ worker[k].build.ig \in Nat
  BY VersionNumbers DEF InputInv
<1>2. HeldBetween(k) /\ DeployedExists /\ worker[k].pc = "qsts"
  BY DEF InputInv, DeployQuarksStatefulSet
<1>3. qsts'[g] = IF g = Group(k) THEN worker[k].build ELSE qsts[g]
  BY KeyParts DEF DeployQuarksStatefulSet, InputInv, TypeOK
<1>4. CASE g = Group(k)
  BY <1>1, <1>2, <1>3, <1>4 DEF HeldBetween
<1>5. CASE g # Group(k)
  BY <1>1, <1>2, <1>3, <1>5 DEF DeployedExists
<1> QED
  BY <1>4, <1>5

\* The other steps leave a QuarksStatefulSet alone, or delete it.
LEMMA LeavesOrDeletes ==
    ASSUME TypeOK, [Next]_vars, ~ \E k \in Keys : DeployQuarksStatefulSet(k),
           NEW g \in IG
    PROVE  qsts'[g] = qsts[g] \/ qsts'[g] = Nothing
BY DEF Next, Get, Reconcile, ReadDesiredManifest, GetDNSService,
       ApplyBPMResources, DeployErrand, DeployServices, SetLastReconcile, Due,
       SetLastReconcileFails, CallFails, WriteIGResolved, WriteBPM, BDPLDeploys,
       PublishDesiredManifest, ApplyDNS, Crash, outputs, vars

\* What is deployed exists, after every step.
LEMMA DeployedNext ==
    ASSUME InputInv, [Next]_vars
    PROVE  DeployedExists'
<1>1. SUFFICES ASSUME NEW g \in IG
               PROVE  qsts'[g].manifest <= desired' /\ qsts'[g].ig <= igResolved'[g]
  BY DEF DeployedExists
<1>2. /\ desired \in Nat /\ igResolved[g] \in Nat
      /\ qsts[g].manifest \in Nat /\ qsts[g].ig \in Nat
  BY VersionNumbers DEF InputInv
<1>3. desired <= desired' /\ igResolved[g] <= igResolved'[g]
  BY InputSteps DEF InputInv
<1>4. TypeOK' /\ MaxVersion \in Nat
  BY NextType, BPMAssumption DEF InputInv
<1>5. desired' \in Nat /\ igResolved'[g] \in Nat /\ qsts'[g] \in Build
  <2>1. desired' \in Versions /\ igResolved'[g] \in 0 .. MaxVersion
        /\ qsts'[g] \in Build
    BY <1>4 DEF TypeOK
  <2> QED
    BY <1>4, <2>1 DEF Versions
<1>6. qsts'[g].manifest \in Nat /\ qsts'[g].ig \in Nat
  BY <1>4, <1>5 DEF Build
<1>7. qsts'[g].manifest <= desired /\ qsts'[g].ig <= igResolved[g]
  <2>1. CASE \E k \in Keys : DeployQuarksStatefulSet(k)
    BY <2>1, Replaces
  <2>2. CASE qsts'[g] = qsts[g]
    BY <2>2 DEF InputInv, DeployedExists
  <2>3. CASE qsts'[g] = Nothing
    <3>1. qsts'[g].manifest = 0 /\ qsts'[g].ig = 0
      BY <2>3 DEF Nothing
    <3> QED
      BY <1>2, <3>1
  <2> QED
    BY <2>1, <2>2, <2>3, LeavesOrDeletes DEF InputInv
<1> QED
  BY <1>2, <1>3, <1>5, <1>6, <1>7

\* What a worker holds stays between what is deployed and what exists.
LEMMA BetweenNext ==
    ASSUME InputInv, [Next]_vars, NEW k \in Keys
    PROVE  HeldBetween(k)'
<1> DEFINE g == Group(k)
           b == worker[k].build
<1>0. /\ TypeOK /\ TypeOK' /\ g \in IG /\ HeldBetween(k) /\ DeployedExists
      /\ worker \in [Keys -> Worker] /\ Idle.pc = "idle"
  BY NextType, KeyParts, InitialTypes DEF InputInv, TypeOK, Worker
<1>1. /\ desired \in Nat /\ igResolved[g] \in Nat
      /\ qsts[g].manifest \in Nat /\ qsts[g].ig \in Nat
      /\ b.manifest \in Nat /\ b.ig \in Nat
  BY <1>0, VersionNumbers
<1>2. ASSUME worker'[k].pc \in {"idle", "manifest", "annotate"}
      PROVE  HeldBetween(k)'
  BY <1>2 DEF HeldBetween
<1>3. CASE worker'[k] = worker[k] /\ ~ \E j \in Keys : DeployQuarksStatefulSet(j)
  BY <1>0, <1>3, InputSteps, LeavesOrDeletes, StillBetween
<1>4. ASSUME NEW j \in Keys, DeployQuarksStatefulSet(j)
      PROVE  HeldBetween(k)'
  <2>1. CASE j = k
    <3>1. worker'[k].pc = "annotate"
      BY <1>0, <1>4, <2>1 DEF DeployQuarksStatefulSet, Goto
    <3> QED
      BY <1>2, <3>1
  <2>2. CASE j # k
    <3>1. worker[k].pc = "idle"
      BY <1>4, <2>2 DEF InputInv, OneReconcile, Busy, DeployQuarksStatefulSet
    <3>2. worker'[k] = worker[k]
      BY <1>0, <1>4, <2>2 DEF DeployQuarksStatefulSet, Goto
    <3> QED
      BY <1>2, <3>1, <3>2
  <2> QED
    BY <2>1, <2>2
<1>5. CASE ReadDesiredManifest(k)
  <2>1. /\ worker'[k].pc = "dns" /\ worker'[k].build.manifest = desired
        /\ UNCHANGED <<desired, qsts>>
    BY <1>0, <1>5 DEF ReadDesiredManifest, inputs, outputs
  <2>2. qsts[g].manifest <= desired
    BY <1>0 DEF DeployedExists
  <2> QED
    BY <1>1, <2>1, <2>2 DEF HeldBetween
<1>6. CASE GetDNSService(k)
  <2>1. \/ worker'[k].pc = "idle"
        \/ worker'[k].pc = "apply" /\ worker'[k].build = b
    BY <1>0, <1>6 DEF GetDNSService, Goto, Retry, Finish
  <2>2. worker[k].pc = "dns" /\ UNCHANGED <<desired, qsts>>
    BY <1>6 DEF GetDNSService, inputs, outputs
  <2> QED
    BY <1>0, <1>2, <2>1, <2>2 DEF HeldBetween
<1>7. CASE ApplyBPMResources(k)
  <2>1. \/ worker'[k].pc = "idle"
        \/ /\ worker'[k].pc \in {"errand", "services"}
           /\ worker'[k].build.manifest = b.manifest
           /\ worker'[k].build.ig = igResolved[g]
    BY <1>0, <1>7 DEF ApplyBPMResources, Retry, Finish
  <2>2. worker[k].pc = "apply" /\ UNCHANGED <<desired, igResolved, qsts>>
    BY <1>7 DEF ApplyBPMResources, inputs, outputs
  <2>3. qsts[g].ig <= igResolved[g]
    BY <1>0 DEF DeployedExists
  <2> QED
    BY <1>0, <1>1, <1>2, <2>1, <2>2, <2>3 DEF HeldBetween
<1>8. CASE DeployServices(k)
  <2>1. worker'[k].pc = "qsts" /\ worker'[k].build = b
    BY <1>0, <1>8 DEF DeployServices, Goto
  <2>2. worker[k].pc = "services" /\ UNCHANGED <<desired, igResolved, qsts>>
    BY <1>8 DEF DeployServices, inputs
  <2> QED
    BY <1>0, <2>1, <2>2 DEF HeldBetween
<1>9. CASE Get(k) \/ DeployErrand(k) \/ SetLastReconcile(k)
           \/ SetLastReconcileFails(k) \/ CallFails(k) \/ Crash
  <2>1. worker'[k].pc \in {"idle", "manifest", "annotate"}
    BY <1>0, <1>9 DEF Get, DeployErrand, SetLastReconcile,
       SetLastReconcileFails, CallFails, Crash, Goto, Retry, Finish
  <2> QED
    BY <1>2, <2>1
<1>10. \/ worker'[k] = worker[k] \/ Reconcile(k) \/ Get(k)
       \/ SetLastReconcileFails(k) \/ CallFails(k) \/ Crash
  <2>1. ASSUME NEW j \in Keys \ {k},
               Reconcile(j) \/ Get(j) \/ SetLastReconcileFails(j) \/ CallFails(j)
        PROVE  worker'[k] = worker[k]
    BY <1>0, <2>1
       DEF Reconcile, ReadDesiredManifest, GetDNSService, ApplyBPMResources,
           DeployErrand, DeployServices, DeployQuarksStatefulSet, Get,
           SetLastReconcile, SetLastReconcileFails, CallFails, Goto, Retry, Finish
  <2> QED
    BY <2>1
       DEF Next, Due, WriteIGResolved, WriteBPM, BDPLDeploys,
           PublishDesiredManifest, ApplyDNS, vars
<1> QED
  BY <1>3, <1>4, <1>5, <1>6, <1>7, <1>8, <1>9, <1>10 DEF Reconcile

LEMMA InputInit ==
    ASSUME Init
    PROVE  InputInv
<1>1. TypeOK
  BY InitType
<1>2. Idle.pc = "idle" /\ Nothing.manifest = 0 /\ Nothing.ig = 0
  BY DEF Idle, Nothing
<1>3. OneReconcile /\ \A k \in Keys : HeldBetween(k)
  BY <1>2 DEF Init, OneReconcile, Busy, HeldBetween
<1>4. DeployedExists
  BY <1>2 DEF Init, DeployedExists
<1> QED
  BY <1>1, <1>3, <1>4 DEF InputInv

\* With one worker, the default (root.go), no reconcile replaces a
\* QuarksStatefulSet by one of an older desired manifest or ig-resolved secret,
\* whatever fails, is retried or restarts (bpm_reconciler.go).
THEOREM OneWorkerMovesForward ==
    ASSUME MaxWorkers = 1
    PROVE  Spec => InputsNeverGoBack
<1>1. Init => InputInv
  BY InputInit
<1>2. InputInv /\ [Next]_vars => InputInv'
  BY NextType, OneReconcileNext, DeployedNext, BetweenNext DEF InputInv
<1>3. InputInv /\ [Next]_vars =>
        [\A g \in IG : qsts'[g] # Nothing =>
            /\ qsts'[g].manifest >= qsts[g].manifest
            /\ qsts'[g].ig >= qsts[g].ig]_vars
  <2> SUFFICES ASSUME InputInv, [Next]_vars, NEW g \in IG, qsts'[g] # Nothing
               PROVE  /\ qsts'[g].manifest >= qsts[g].manifest
                      /\ qsts'[g].ig >= qsts[g].ig
    OBVIOUS
  <2>1. CASE \E k \in Keys : DeployQuarksStatefulSet(k)
    BY <2>1, Replaces
  <2>2. CASE qsts'[g] = qsts[g]
    <3>1. qsts[g].manifest \in Nat /\ qsts[g].ig \in Nat
      BY VersionNumbers DEF InputInv
    <3> QED
      BY <2>2, <3>1
  <2> QED
    BY <2>1, <2>2, LeavesOrDeletes DEF InputInv
<1> QED
  BY <1>1, <1>2, <1>3, PTL DEF Spec, InputsNeverGoBack
==============================================================================
