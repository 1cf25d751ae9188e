---------------------------- MODULE DebounceProofs ----------------------------
(***************************************************************************)
(* Proofs about the order in which the BOSHDeployment reconciler writes    *)
(* what the next stages read, about its cleanup, and that it implements    *)
(* the abstract debouncer, for every set of instance groups, every window  *)
(* and every bound.                                                        *)
(***************************************************************************)
EXTENDS BOSHDeploymentControllerProofs

------------------------------------------------------------------------------
(* How a step moves the inputs and the reconcile *)

\* A deploy has begun and not ended.
Running == {"resolve"} \cup Deploying

\* The deploy goes on with what it has read, or there is none.
Continues ==
    \/ pc' \notin Running
    \/ pc = "resolve" /\ pc' = "resolve" /\ own'.spec = own.spec
    \/ pc \in Deploying /\ pc' \in Deploying /\ manifest' = manifest

\* The steps in which a deploy reads or writes an input of later stages, or
\* what it wrote is collected.
DeploySteps ==
    \/ EndMeltdown \/ ResolveManifest \/ CreateQuarksJob
    \/ CreateManifestWithOps \/ GarbageCollect

\* Every other step leaves the written manifests alone and a running deploy
\* to what it has read.
LEMMA StepKinds ==
    ASSUME TypeOK, [Next]_vars, ~DeploySteps
    PROVE  UNCHANGED <<qJob, withOps>> /\ Continues
<1> USE DEF Continues, Running, Deploying
<1>a. CopiesOK /\ own \in BDPL /\ pc \in Steps
  BY DEF TypeOK, CopiesOK
<1>1. CASE Get
  BY <1>1 DEF Get, Goto, objects
<1>2. CASE StartMeltdown
  BY <1>2 DEF StartMeltdown, Goto, objects
<1>3. CASE RequeueAfterWindow
  BY <1>3 DEF RequeueAfterWindow, Done, objects
<1>5. CASE StatusUpdateRefused
  BY <1>5 DEF StatusUpdateRefused, RetryFrom, Done, objects
<1>7. CASE ListQuarksStatefulSets
  BY <1>7 DEF ListQuarksStatefulSets, ListExcept, Goto, objects
<1>8. ASSUME NEW g \in IG, DeleteQuarksStatefulSet(g)
      PROVE  UNCHANGED <<qJob, withOps>> /\ Continues
  BY <1>8 DEF DeleteQuarksStatefulSet, Goto
<1>9. CASE ListServices
  BY <1>9 DEF ListServices, Goto, objects
<1>10. ASSUME NEW s \in Services, DeleteService(s)
       PROVE  UNCHANGED <<qJob, withOps>> /\ Continues
  BY <1>10 DEF DeleteService
<1>11. CASE NextGroup
  BY <1>11 DEF NextGroup, Goto, objects, locals
<1>12. CASE CleanupNotFound \/ CleanupDone
  BY <1>12 DEF CleanupNotFound, CleanupDone, LeaveCleanup, Goto, objects
<1>14. ASSUME NEW v \in Var, CreateQuarksSecret(v)
       PROVE  UNCHANGED <<qJob, withOps>> /\ Continues
  BY <1>14 DEF CreateQuarksSecret
<1>20. CASE Tick
  BY <1>a, <1>20, TickFields DEF Tick, objects, Steps, Calls
<1>21. CASE StatusReplyLost
  BY <1>21 DEF StatusReplyLost, RetryFrom, Done, objects
<1>22. CASE CallFails
  BY <1>22 DEF CallFails, RetryFrom, Done, objects
<1>23. CASE ChangeSpec
  BY <1>a, <1>23, CopyFields
     DEF ChangeSpec, OutdateCopies, objects, Steps, Calls
<1>26. CASE StatusUpdate
  BY <1>a, <1>26, CopyFields DEF StatusUpdate, objects, Steps, Calls
<1>28. ASSUME NEW g \in IG, RolloutGroup(g)
       PROVE  UNCHANGED <<qJob, withOps>> /\ Continues
  BY <1>a, <1>28 DEF RolloutGroup, locals, Steps, Calls
<1>29. ASSUME NEW g \in IG, UserDeletesQuarksStatefulSet(g)
       PROVE  UNCHANGED <<qJob, withOps>> /\ Continues
  BY <1>a, <1>29 DEF UserDeletesQuarksStatefulSet, locals, Steps, Calls
<1>30. CASE UserDeletesBDPL
  BY <1>a, <1>30, CopyFields
     DEF UserDeletesBDPL, OutdateCopies, objects, Steps, Calls
<1>32. CASE Crash
  BY <1>32 DEF Crash, Done, objects
<1>q. CASE UNCHANGED <<pc, locals, objects>>
  BY <1>a, <1>q DEF locals, objects, Steps, Calls
<1> QED
  BY <1>1, <1>2, <1>3, <1>5, <1>7, <1>8, <1>9, <1>10, <1>11, <1>12, <1>14,
     <1>20, <1>21, <1>22, <1>23, <1>26, <1>28, <1>29, <1>30, <1>32, <1>q
     DEF Next, Reconcile, Environment, vars, history, lists,
         WatchQuarksStatefulSet, WatchService, DeploySteps, TimerExpires,
         WatchBDPL, FollowBDPL, WatchRefs, ChangeRefs, StatusGet, StatusSkip

\* Versions of the spec and of the referenced objects only grow, in the server
\* as in the cache, and a deleted BOSHDeployment does not come back.
LEMMA InputsGrow ==
    ASSUME ChangeInv, [Next]_vars
    PROVE  /\ bdpl.spec <= bdpl'.spec
           /\ refsCache <= refsCache'
           /\ bdpl'.present => bdpl.present
<1>a. /\ MeltdownInv /\ CopiesOK /\ bdpl \in BDPL /\ own \in BDPL
      /\ bdpl.spec \in Nat /\ refs \in Nat /\ refsCache \in Nat
      /\ refsCache <= refs
  BY CopyRanges, BoundsAssumption
     DEF ChangeInv, MeltdownInv, TypeOK, CopiesOK, CachesBehind
<1>b. Opened \in BDPL /\ Closed \in BDPL
  BY <1>a, OwnWrites
<1> DEFINE Grows == /\ bdpl.spec <= bdpl'.spec
                    /\ refsCache <= refsCache'
                    /\ bdpl'.present => bdpl.present
<1>2. CASE StartMeltdown
  BY <1>2, <1>a, <1>b, OwnWriteFields DEF StartMeltdown
<1>4. CASE EndMeltdown
  BY <1>4, <1>a, <1>b, OwnWriteFields DEF EndMeltdown
<1>19. CASE WatchRefs
  BY <1>19, <1>a DEF WatchRefs
<1>20. CASE Tick
  BY <1>20, <1>a, TickFields DEF Tick
<1>21. CASE StatusReplyLost
  BY <1>21, <1>a, <1>b, OwnWriteFields DEF StatusReplyLost
<1>23. CASE ChangeSpec
  BY <1>23, <1>a, ChangeSpecFields DEF ChangeSpec
<1>26. CASE StatusUpdate
  BY <1>26, <1>a, StatusUpdateFields DEF StatusUpdate
<1>30. CASE UserDeletesBDPL
  <2>1. bdpl' = [bdpl EXCEPT !.present = FALSE] /\ refsCache' = refsCache
    BY <1>30 DEF UserDeletesBDPL
  <2> QED
    BY <1>a, <2>1 DEF BDPL
<1>32. CASE Crash
  BY <1>32, <1>a DEF Crash
<1>q. CASE UNCHANGED <<bdpl, refsCache>>
  BY <1>q, <1>a
<1> QED
  BY <1>2, <1>4, <1>19, <1>20, <1>21, <1>23, <1>26, <1>30, <1>32, <1>q
     DEF Next, Reconcile, Environment, vars, locals, objects, history, lists,
         WatchQuarksStatefulSet, WatchService, LeaveCleanup, Get,
         RequeueAfterWindow, StatusUpdateRefused, ResolveManifest,
         ListQuarksStatefulSets, ListExcept, DeleteQuarksStatefulSet,
         ListServices, DeleteService, NextGroup, CleanupNotFound, CleanupDone,
         CreateQuarksSecret, CreateQuarksJob, CreateManifestWithOps,
         TimerExpires, WatchBDPL, FollowBDPL, CallFails, ChangeRefs,
         StatusGet, StatusSkip, RolloutGroup, UserDeletesQuarksStatefulSet,
         GarbageCollect

------------------------------------------------------------------------------
(* The order of a deploy *)

\* A reconcile opens a meltdown on the strength of a copy without a stamp.
LEMMA OpensUnstampedNext ==
    ASSUME TypeOK, OpensUnstamped, [Next]_vars
    PROVE  OpensUnstamped'
<1>a. CopiesOK /\ own \in BDPL /\ own.lastReconcile \in Int
  BY CopyRanges DEF TypeOK, CopiesOK
<1>1. CASE Get
  BY <1>1 DEF Get, Goto, OpensUnstamped
<1>20. CASE Tick
  <2>1. own'.lastReconcile = Countdown(own.lastReconcile) /\ pc' = pc
    BY <1>20, <1>a, CopyFields DEF Tick
  <2> QED
    BY <2>1 DEF OpensUnstamped, Countdown, NoTime
<1>21. CASE StatusReplyLost
  BY <1>21 DEF StatusReplyLost, RetryFrom, Done, OpensUnstamped
<1>22. CASE CallFails
  BY <1>22 DEF CallFails, RetryFrom, Done, OpensUnstamped
<1>23. CASE ChangeSpec \/ UserDeletesBDPL
  BY <1>23, <1>a, CopyFields
     DEF ChangeSpec, UserDeletesBDPL, OutdateCopies, OpensUnstamped
<1>26. CASE StatusUpdate
  BY <1>26, <1>a, CopyFields DEF StatusUpdate, OpensUnstamped
<1>p. CASE pc' # "open"
  BY <1>p DEF OpensUnstamped
<1>q. CASE UNCHANGED <<pc, own>>
  BY <1>q DEF OpensUnstamped
<1> QED
  BY <1>1, <1>20, <1>21, <1>22, <1>23, <1>26, <1>p, <1>q
     DEF Next, Reconcile, Environment, vars, locals, history, lists,
         WatchQuarksStatefulSet, WatchService, Goto, Done, RetryFrom,
         LeaveCleanup, StartMeltdown, RequeueAfterWindow, EndMeltdown,
         StatusUpdateRefused, ResolveManifest, ListQuarksStatefulSets,
         ListExcept, DeleteQuarksStatefulSet, ListServices, DeleteService,
         NextGroup, CleanupNotFound, CleanupDone, CreateQuarksSecret,
         CreateQuarksJob, CreateManifestWithOps, TimerExpires, WatchBDPL,
         FollowBDPL, WatchRefs, ChangeRefs, StatusGet, StatusSkip,
         RolloutGroup, UserDeletesQuarksStatefulSet, GarbageCollect, Crash

\* The types behind the comparisons of manifests.
LEMMA ManifestTypes ==
    ASSUME TypeOK
    PROVE  /\ bdpl.spec \in Nat /\ own.spec \in Nat /\ refsCache \in Nat
           /\ \A m \in Manifests : m[1] \in Nat /\ m[2] \in Nat /\ m # NoManifest
           /\ \A written \in {qJob, withOps} :
                  written # NoManifest => written \in Manifests
           /\ pc \in Deploying => manifest \in Manifests
  BY CopyRanges, BoundsAssumption
     DEF TypeOK, CopiesOK, ObjectsOK, Manifests, NoManifest

\* A deploy is never overtaken by an older one.
LEMMA ForwardNext ==
    ASSUME OrderInv, [Next]_vars
    PROVE  DeploysMoveForward'
<1>a. ChangeInv /\ MeltdownInv /\ TypeOK /\ CopiesOK /\ DeploysMoveForward
  BY DEF OrderInv, ChangeInv, MeltdownInv, TypeOK
<1>b. TypeOK' /\ CopiesOK'
  BY <1>a, TypeNext DEF TypeOK
<1>c. /\ bdpl.spec <= bdpl'.spec /\ refsCache <= refsCache'
  BY <1>a, InputsGrow
<1>t. /\ bdpl.spec \in Nat /\ own.spec \in Nat /\ refsCache \in Nat
      /\ bdpl'.spec \in Nat /\ own'.spec \in Nat /\ refsCache' \in Nat
      /\ \A m \in Manifests : m[1] \in Nat /\ m[2] \in Nat /\ m # NoManifest
  BY <1>a, <1>b, ManifestTypes, CopyRanges, BoundsAssumption
     DEF TypeOK, CopiesOK
<1>u. /\ qJob # NoManifest => qJob \in Manifests
      /\ withOps # NoManifest => withOps \in Manifests
      /\ pc \in Deploying => manifest \in Manifests
  BY <1>a, ManifestTypes
<1>1. CASE EndMeltdown
  <2>1. own = bdpl /\ pc' = "resolve" /\ UNCHANGED <<qJob, withOps, refsCache>>
    BY <1>1, <1>a DEF EndMeltdown, Goto, WriteOwnStatus, Accepts, MeltdownInv,
                      FreshCopies, objects
  <2>2. own'.spec = bdpl.spec /\ bdpl'.spec = bdpl.spec
    BY <1>1, <1>a, OwnWriteFields, OwnWrites DEF EndMeltdown, CopiesOK
  <2> QED
    BY <2>1, <2>2, <1>a, <1>t, <1>u DEF DeploysMoveForward, Deploying, AtMost
<1>2. CASE ResolveManifest
  <2>1. /\ manifest' = <<own.spec, refsCache>> /\ pc = "resolve" /\ pc' = "list"
        /\ UNCHANGED <<bdpl, refsCache, qJob, withOps>>
    BY <1>2 DEF ResolveManifest, Goto, objects
  <2> QED
    BY <2>1, <1>a, <1>t, <1>u DEF DeploysMoveForward, Deploying, AtMost
<1>3. CASE CreateQuarksJob
  <2>1. /\ qJob' = manifest /\ pc = "secrets" /\ pc' = "withops"
        /\ UNCHANGED <<bdpl, refsCache, manifest, withOps>>
    BY <1>3 DEF CreateQuarksJob, Goto, objects, locals
  <2> QED
    BY <2>1, <1>a, <1>t, <1>u DEF DeploysMoveForward, Deploying, AtMost
<1>4. CASE CreateManifestWithOps
  <2>1. /\ withOps' = manifest /\ pc = "withops" /\ pc' = "idle"
        /\ UNCHANGED <<bdpl, refsCache, qJob>>
    BY <1>4 DEF CreateManifestWithOps, Done
  <2> QED
    BY <2>1, <1>a, <1>t, <1>u DEF DeploysMoveForward, Deploying, AtMost
<1>5. CASE GarbageCollect
  <2>1. /\ qJob' = NoManifest /\ withOps' = NoManifest
        /\ UNCHANGED <<bdpl, refsCache, pc, own, manifest>>
    BY <1>5 DEF GarbageCollect, locals
  <2> QED
    BY <2>1, <1>a DEF DeploysMoveForward
<1>6. CASE ~DeploySteps
  <2>1. UNCHANGED <<qJob, withOps>> /\ Continues
    BY <1>6, <1>a, StepKinds
  <2> QED
    BY <2>1, <1>a, <1>c, <1>t, <1>u
       DEF Continues, Running, DeploysMoveForward, Deploying, AtMost
<1> QED
  BY <1>1, <1>2, <1>3, <1>4, <1>5, <1>6 DEF DeploySteps

\* The QuarksSecrets of a manifest come before its QuarksJob, and that comes
\* before its with-ops secret.
LEMMA WrittenNext ==
    ASSUME OrderInv, [Next]_vars
    PROVE  WrittenInOrder' /\ WithOpsComesLast'
<1>a. ChangeInv /\ TypeOK /\ WrittenInOrder /\ WithOpsComesLast
  BY DEF OrderInv, ChangeInv, MeltdownInv
<1>b. bdpl'.present => bdpl.present
  BY <1>a, InputsGrow
<1>d. DeploysMoveForward
  BY DEF OrderInv
<1>t. \A m \in Manifests : m[1] \in Nat /\ m[2] \in Nat /\ m # NoManifest
  BY <1>a, ManifestTypes
<1>u. /\ qJob # NoManifest => qJob \in Manifests
      /\ withOps # NoManifest => withOps \in Manifests
      /\ pc \in Deploying => manifest \in Manifests
  BY <1>a, ManifestTypes
<1>1. CASE EndMeltdown \/ ResolveManifest
  <2>1. /\ pc' \in {"resolve", "list"}
        /\ UNCHANGED <<quarksSecrets, qJob, withOps>>
    BY <1>1 DEF EndMeltdown, ResolveManifest, Goto, objects
  <2> QED
    BY <2>1, <1>a, <1>b DEF WrittenInOrder, WithOpsComesLast
<1>3. CASE CreateQuarksJob
  <2>1. /\ pc = "secrets" /\ pc' = "withops" /\ unset = {} /\ qJob' = manifest
        /\ UNCHANGED <<bdpl, manifest, quarksSecrets, withOps>>
    BY <1>3 DEF CreateQuarksJob, Goto, locals
  <2>2. manifest \in Manifests /\ (withOps # NoManifest => AtMost(withOps, manifest))
    BY <2>1, <1>u, <1>d DEF DeploysMoveForward, Deploying
  <2> QED
    BY <2>1, <2>2, <1>a, <1>t DEF WrittenInOrder, WithOpsComesLast, AtMost
<1>4. CASE CreateManifestWithOps
  <2>1. /\ pc = "withops" /\ pc' = "idle" /\ withOps' = manifest
        /\ UNCHANGED <<bdpl, quarksSecrets, qJob>>
    BY <1>4 DEF CreateManifestWithOps, Done
  <2>2. manifest \in Manifests
    BY <2>1, <1>u DEF Deploying
  <2> QED
    BY <2>1, <2>2, <1>a, <1>t DEF WrittenInOrder, WithOpsComesLast
<1>5. CASE GarbageCollect
  BY <1>5 DEF GarbageCollect, WrittenInOrder, WithOpsComesLast
<1>6. CASE CleanupNotFound \/ CleanupDone
  <2>1. /\ pc' = "secrets" /\ unset' = Vars[manifest]
        /\ UNCHANGED <<bdpl, manifest, quarksSecrets, qJob, withOps>>
    BY <1>6 DEF CleanupNotFound, CleanupDone, LeaveCleanup, Goto, objects
  <2> QED
    BY <2>1, <1>a DEF WrittenInOrder, WithOpsComesLast
<1>7. ASSUME NEW v \in Var, CreateQuarksSecret(v)
      PROVE  WrittenInOrder' /\ WithOpsComesLast'
  <2>1. /\ pc = "secrets" /\ pc' = pc
        /\ quarksSecrets' = quarksSecrets \cup {v} /\ unset' = unset \ {v}
        /\ UNCHANGED <<bdpl, manifest, qJob, withOps>>
    BY <1>7 DEF CreateQuarksSecret
  <2> QED
    BY <2>1, <1>a DEF WrittenInOrder, WithOpsComesLast
<1>8. CASE /\ UNCHANGED <<quarksSecrets, qJob, withOps>>
           /\ pc' \notin {"secrets", "withops"}
  BY <1>8, <1>a, <1>b DEF WrittenInOrder, WithOpsComesLast
<1>9. CASE UNCHANGED <<quarksSecrets, qJob, withOps, pc, manifest, unset>>
  BY <1>9, <1>a, <1>b DEF WrittenInOrder, WithOpsComesLast
<1> QED
  BY <1>1, <1>3, <1>4, <1>5, <1>6, <1>7, <1>8, <1>9
     DEF Next, Reconcile, Environment, vars, locals, objects, history, lists,
         WatchQuarksStatefulSet, WatchService, Goto, Done, RetryFrom, Get,
         StartMeltdown, RequeueAfterWindow, StatusUpdateRefused,
         ListQuarksStatefulSets, ListExcept, DeleteQuarksStatefulSet,
         ListServices, DeleteService, NextGroup, TimerExpires, WatchBDPL,
         FollowBDPL, WatchRefs, Tick, StatusReplyLost, CallFails, ChangeSpec,
         ChangeRefs, StatusGet, StatusUpdate, StatusSkip, RolloutGroup,
         UserDeletesQuarksStatefulSet, UserDeletesBDPL, Crash

\* A reconciler that has not started yet has written nothing.
LEMMA OrderInit == Init => OrderInv
<1> SUFFICES ASSUME Init PROVE OrderInv
  OBVIOUS
<1>1. OpensUnstamped /\ DeploysMoveForward /\ WrittenInOrder /\ WithOpsComesLast
  BY DEF Init, OpensUnstamped, DeploysMoveForward, WrittenInOrder,
         WithOpsComesLast, Deploying
<1> QED
  BY <1>1, ChangeInit DEF OrderInv

\* Every step keeps the order of a deploy.
LEMMA OrderNext == OrderInv /\ [Next]_vars => OrderInv'
  BY ChangeNext, OpensUnstampedNext, ForwardNext, WrittenNext
     DEF OrderInv, ChangeInv, MeltdownInv

\* The order of a deploy is an invariant.
THEOREM OrderInvariant == Spec => []OrderInv
  BY OrderInit, OrderNext, PTL DEF Spec

\* When the with-ops secret shows up, its QuarksSecrets and a QuarksJob built
\* from inputs at least as new exist, whatever failed, was retried or restarted.
THEOREM OrderOfADeploy == Spec => []WithOpsComesLast
<1>1. OrderInv => WithOpsComesLast
  BY DEF OrderInv
<1> QED
  BY <1>1, OrderInvariant, PTL

------------------------------------------------------------------------------
(* The cleanup *)

\* Every step keeps what the cleanup knows.
LEMMA CleanupNext == CleanupInv /\ [Next]_vars => CleanupInv'
<1> SUFFICES ASSUME CleanupInv, [Next]_vars PROVE CleanupInv'
  OBVIOUS
<1>a. TypeOK /\ TypeOK'
  BY TypeNext DEF CleanupInv
<1> DEFINE Known == Groups[manifest] \cup redeployed \cup spared
<1> DEFINE Kept == /\ PastCleanup => qsts \subseteq Known
                   /\ InCleanup => qsts \subseteq Known \cup doomed
<1>c. Kept
  BY DEF CleanupInv, OrphanQuarksStatefulSetsDeleted
<1> SUFFICES Kept'
  BY <1>a DEF CleanupInv, OrphanQuarksStatefulSetsDeleted
<1> USE DEF InCleanup, PastCleanup
<1>1. CASE ListQuarksStatefulSets
  BY <1>1 DEF ListQuarksStatefulSets, ListExcept, Goto, objects
<1>2. ASSUME NEW g \in IG, DeleteQuarksStatefulSet(g) PROVE Kept'
  BY <1>2, <1>c DEF DeleteQuarksStatefulSet, Goto, history
<1>3. CASE ListServices
  BY <1>3, <1>c DEF ListServices, Goto, objects, history
<1>4. ASSUME NEW s \in Services, DeleteService(s) PROVE Kept'
  BY <1>4, <1>c DEF DeleteService, history
<1>5. CASE NextGroup
  BY <1>5, <1>c DEF NextGroup, Goto, objects, locals, history
<1>6. CASE CleanupNotFound
  BY <1>6, <1>c DEF CleanupNotFound, LeaveCleanup, Goto, objects
<1>7. CASE CleanupDone
  BY <1>7, <1>c DEF CleanupDone, LeaveCleanup, Goto, objects, history
<1>8. ASSUME NEW v \in Var, CreateQuarksSecret(v) PROVE Kept'
  BY <1>8, <1>c DEF CreateQuarksSecret, history
<1>9. CASE CreateQuarksJob
  BY <1>9, <1>c DEF CreateQuarksJob, Goto, locals, history
<1>10. ASSUME NEW g \in IG, RolloutGroup(g) PROVE Kept'
  BY <1>10, <1>c DEF RolloutGroup, locals
<1>11. ASSUME NEW g \in IG, UserDeletesQuarksStatefulSet(g) PROVE Kept'
  BY <1>11, <1>c DEF UserDeletesQuarksStatefulSet, locals, history
<1>12. CASE GarbageCollect
  BY <1>12 DEF GarbageCollect
<1>13. CASE pc' \notin {"cleanup", "services", "deleteServices", "secrets", "withops"}
  BY <1>13
<1>14. CASE UNCHANGED <<pc, manifest, doomed, qsts, redeployed, spared>>
  BY <1>14, <1>c
<1> QED
  BY <1>1, <1>2, <1>3, <1>4, <1>5, <1>6, <1>7, <1>8, <1>9, <1>10, <1>11,
     <1>12, <1>13, <1>14
     DEF Next, Reconcile, Environment, vars, locals, objects, history, lists,
         WatchQuarksStatefulSet, WatchService, Goto, Done, RetryFrom, Get,
         StartMeltdown, RequeueAfterWindow, EndMeltdown, StatusUpdateRefused,
         ResolveManifest, CreateManifestWithOps, TimerExpires, WatchBDPL,
         FollowBDPL, WatchRefs, Tick, StatusReplyLost, CallFails, ChangeSpec,
         ChangeRefs, StatusGet, StatusUpdate, StatusSkip, UserDeletesBDPL,
         Crash

\* The cleanup leaves no QuarksStatefulSet that the manifest does not name,
\* unless its list did not show it, a listed object was gone before its turn
\* came, or it was rolled out again meanwhile, whoever else deletes what.
THEOREM OrphansDeleted == Spec => []OrphanQuarksStatefulSetsDeleted
<1>1. Init => CleanupInv
  BY TypeInit
     DEF Init, CleanupInv, OrphanQuarksStatefulSetsDeleted, InCleanup,
         PastCleanup
<1>2. CleanupInv => OrphanQuarksStatefulSetsDeleted
  BY DEF CleanupInv
<1> QED
  BY <1>1, <1>2, CleanupNext, PTL DEF Spec

------------------------------------------------------------------------------
(* The refinement *)

\* What a deployment that was just created looks like to the debouncer.
LEMMA DebounceInit == Init => Debouncer!Init
<1> SUFFICES ASSUME Init PROVE Debouncer!Init
  OBVIOUS
<1>1. bdpl.present = TRUE /\ bdpl.spec = 0 /\ bdpl.lastReconcile = NoTime
  BY DEF Init, NoCopy
<1> QED
  BY <1>1 DEF Init, Debouncer!Init, Inputs, Deploying, NoTime, NoManifest,
              Debouncer!NoStamp, Debouncer!Nothing

\* A write of the reconciler that reaches the server opens the window of a
\* deployment without a stamp, or takes off a stamp that is over.
LEMMA OwnWriteSteps ==
    ASSUME OrderInv
    PROVE  /\ pc = "open" /\ WriteOwnStatus(Opened) =>
                /\ bdpl.lastReconcile = NoTime /\ bdpl'.lastReconcile = Window
                /\ bdpl'.spec = bdpl.spec /\ bdpl'.present = bdpl.present
           /\ pc = "close" /\ WriteOwnStatus(Closed) =>
                /\ bdpl.lastReconcile = 0 /\ bdpl'.lastReconcile = NoTime
                /\ bdpl'.spec = bdpl.spec /\ bdpl'.present = bdpl.present
<1>a. /\ CopiesOK /\ own \in BDPL /\ FreshCopies /\ ClosesExpired
      /\ OpensUnstamped
  BY DEF OrderInv, ChangeInv, MeltdownInv, TypeOK, CopiesOK
<1>b. /\ Opened \in BDPL /\ Opened.lastReconcile = Window
      /\ Closed \in BDPL /\ Closed.lastReconcile = NoTime
  BY <1>a, OwnWrites
<1>1. ASSUME pc = "open", WriteOwnStatus(Opened)
      PROVE  /\ bdpl.lastReconcile = NoTime /\ bdpl'.lastReconcile = Window
             /\ bdpl'.spec = bdpl.spec /\ bdpl'.present = bdpl.present
  <2>1. own = bdpl
    BY <1>1, <1>a DEF WriteOwnStatus, Accepts, FreshCopies
  <2> QED
    BY <2>1, <1>1, <1>a, <1>b, OwnWriteFields DEF OpensUnstamped
<1>2. ASSUME pc = "close", WriteOwnStatus(Closed)
      PROVE  /\ bdpl.lastReconcile = 0 /\ bdpl'.lastReconcile = NoTime
             /\ bdpl'.spec = bdpl.spec /\ bdpl'.present = bdpl.present
  <2>1. own = bdpl
    BY <1>2, <1>a DEF WriteOwnStatus, Accepts, FreshCopies
  <2> QED
    BY <2>1, <1>2, <1>a, <1>b, OwnWriteFields DEF ClosesExpired
<1> QED
  BY <1>1, <1>2

\* Every step of the reconciler is one of the debouncer, or none.
LEMMA DebounceNext ==
    OrderInv /\ [Next]_vars => [Debouncer!Next]_(Debouncer!vars)
<1> SUFFICES ASSUME OrderInv, [Next]_vars
             PROVE  Debouncer!Next \/ UNCHANGED Debouncer!vars
  OBVIOUS
<1>a. ChangeInv /\ MeltdownInv /\ TypeOK /\ CopiesOK /\ bdpl \in BDPL
  BY DEF OrderInv, ChangeInv, MeltdownInv, TypeOK, CopiesOK
<1> USE DEF Running, Deploying
<1>1. CASE StartMeltdown
  <2>1. /\ bdpl.lastReconcile = NoTime /\ bdpl'.lastReconcile = Window
        /\ bdpl'.spec = bdpl.spec /\ bdpl'.present = bdpl.present
        /\ pc = "open" /\ pc' = "requeue"
        /\ UNCHANGED <<refs, sinceDeploy, withOps>>
    BY <1>1, OwnWriteSteps DEF StartMeltdown, Goto, objects
  <2> QED
    BY <2>1 DEF Debouncer!Next, Debouncer!Open, Debouncer!NoStamp, Inputs,
                NoTime
<1>2. CASE EndMeltdown
  <2>1. /\ bdpl.lastReconcile = 0 /\ bdpl'.lastReconcile = NoTime
        /\ bdpl'.spec = bdpl.spec /\ bdpl'.present = bdpl.present
        /\ pc = "close" /\ pc' = "resolve" /\ sinceDeploy' = 0
        /\ UNCHANGED <<refs, withOps>>
    BY <1>2, OwnWriteSteps DEF EndMeltdown, Goto, objects
  <2> QED
    BY <2>1 DEF Debouncer!Next, Debouncer!Begin, Debouncer!NoStamp, Inputs,
                NoTime
<1>3. CASE StatusReplyLost
  <2>1. /\ pc' = "idle" /\ UNCHANGED <<refs, sinceDeploy, withOps>>
    BY <1>3 DEF StatusReplyLost, RetryFrom, Done, objects
  <2>2. CASE pc = "open" /\ WriteOwnStatus(Opened)
    BY <2>1, <2>2, OwnWriteSteps
       DEF Debouncer!Next, Debouncer!Open, Debouncer!NoStamp, Inputs, NoTime
  <2>3. CASE pc = "close" /\ WriteOwnStatus(Closed)
    BY <2>1, <2>3, OwnWriteSteps
       DEF Debouncer!Next, Debouncer!BeginLost, Debouncer!NoStamp, Inputs,
           NoTime
  <2> QED
    BY <1>3, <2>2, <2>3 DEF StatusReplyLost
<1>4. CASE CreateManifestWithOps
  <2>1. /\ pc = "withops" /\ pc' = "idle" /\ withOps' = manifest
        /\ UNCHANGED <<bdpl, refs, sinceDeploy>>
    BY <1>4 DEF CreateManifestWithOps, Done
  <2>2. /\ manifest \in Manifests
        /\ AtMost(manifest, <<bdpl.spec, refsCache>>)
        /\ withOps # NoManifest => AtMost(withOps, manifest)
    BY <2>1, <1>a, ManifestTypes DEF OrderInv, DeploysMoveForward
  <2>3. refs \in Nat /\ refsCache \in Nat /\ refsCache <= refs /\ bdpl.spec \in Nat
    BY <1>a, CopyRanges, BoundsAssumption DEF ChangeInv, CachesBehind, TypeOK
  <2>4. manifest \in (0 .. bdpl.spec) \X (0 .. refs)
    BY <2>2, <2>3, BoundsAssumption DEF Manifests, AtMost
  <2>5. withOps # <<>> => AtMost(withOps, manifest)
    BY <2>2 DEF NoManifest
  <2> QED
    BY <2>1, <2>4, <2>5
       DEF Debouncer!Next, Debouncer!Publish, Debouncer!Nothing,
           Debouncer!AtMost, AtMost, Inputs
<1>5. CASE Tick
  <2>1. /\ bdpl'.lastReconcile = Countdown(bdpl.lastReconcile)
        /\ bdpl'.spec = bdpl.spec /\ bdpl'.present = bdpl.present
        /\ sinceDeploy' = IF sinceDeploy < Window THEN sinceDeploy + 1
                          ELSE sinceDeploy
        /\ UNCHANGED <<refs, pc, withOps>>
    BY <1>5, <1>a, TickFields DEF Tick, objects
  <2> QED
    BY <2>1 DEF Debouncer!Next, Debouncer!Tick, Countdown, Inputs
<1>6. CASE ChangeSpec
  <2>1. /\ bdpl'.spec = bdpl.spec + 1 /\ bdpl'.present = bdpl.present
        /\ bdpl'.lastReconcile = bdpl.lastReconcile
        /\ UNCHANGED <<refs, sinceDeploy, pc, withOps>>
    BY <1>6, <1>a, ChangeSpecFields DEF ChangeSpec, objects
  <2> QED
    BY <2>1 DEF Debouncer!Next, Debouncer!Change, Inputs
<1>7. CASE ChangeRefs
  <2>1. refs' = refs + 1 /\ UNCHANGED <<bdpl, sinceDeploy, pc, withOps>>
    BY <1>7 DEF ChangeRefs, objects
  <2> QED
    BY <2>1 DEF Debouncer!Next, Debouncer!Change, Inputs
<1>8. CASE UserDeletesBDPL
  <2>1. /\ bdpl.present /\ ~bdpl'.present /\ bdpl'.spec = bdpl.spec
        /\ bdpl'.lastReconcile = bdpl.lastReconcile
        /\ UNCHANGED <<refs, sinceDeploy, pc, withOps>>
    BY <1>8, <1>a DEF UserDeletesBDPL, objects, BDPL
  <2>2. bdpl' \in BDPL
    BY <1>a, CopiesTypeNext DEF CopiesOK
  <2>3. bdpl'.present = FALSE
    BY <2>1, <2>2 DEF BDPL
  <2> QED
    BY <2>1, <2>3 DEF Debouncer!Next, Debouncer!Remove, Inputs
<1>9. CASE GarbageCollect
  <2>1. /\ ~bdpl.present /\ withOps' = NoManifest
        /\ UNCHANGED <<bdpl, refs, sinceDeploy, pc>>
    BY <1>9 DEF GarbageCollect
  <2> QED
    BY <2>1 DEF Debouncer!Next, Debouncer!Collect, Debouncer!Nothing, Inputs,
                NoManifest
<1>10. CASE CallFails \/ Crash
  <2>1. pc' = "idle" /\ UNCHANGED <<bdpl, refs, sinceDeploy, withOps>>
    BY <1>10 DEF CallFails, Crash, RetryFrom, Done, objects
  <2>2. CASE pc \in Running
    BY <2>1, <2>2 DEF Debouncer!Next, Debouncer!Fail, Inputs
  <2>3. CASE pc \notin Running
    BY <2>1, <2>3 DEF Debouncer!vars, Inputs
  <2> QED
    BY <2>2, <2>3
<1>11. CASE StatusUpdate
  <2>1. /\ bdpl'.lastReconcile = bdpl.lastReconcile
        /\ bdpl'.spec = bdpl.spec /\ bdpl'.present = bdpl.present
        /\ UNCHANGED <<refs, sinceDeploy, pc, withOps>>
    BY <1>11, <1>a, StatusUpdateFields DEF StatusUpdate, objects
  <2> QED
    BY <2>1 DEF Debouncer!vars, Inputs
<1>12. CASE /\ UNCHANGED <<bdpl, refs, sinceDeploy, withOps>>
            /\ pc \in Running <=> pc' \in Running
  BY <1>12 DEF Debouncer!vars, Inputs
<1> QED
  BY <1>1, <1>2, <1>3, <1>4, <1>5, <1>6, <1>7, <1>8, <1>9, <1>10, <1>11, <1>12
     DEF Next, Reconcile, Environment, vars, locals, objects, history, lists,
         WatchQuarksStatefulSet, WatchService, Goto, Done, RetryFrom,
         LeaveCleanup, Get, RequeueAfterWindow, StatusUpdateRefused,
         ResolveManifest, ListQuarksStatefulSets, ListExcept,
         DeleteQuarksStatefulSet, ListServices, DeleteService, NextGroup,
         CleanupNotFound, CleanupDone, CreateQuarksSecret, CreateQuarksJob,
         TimerExpires, WatchBDPL, FollowBDPL, WatchRefs, StatusGet,
         StatusSkip, RolloutGroup, UserDeletesQuarksStatefulSet

\* The reconciler, with its queue, caches, refused writes, lost replies and
\* restarts, implements the debouncer.
THEOREM DebounceRefined == Spec => ImplementsDebounce
  BY DebounceInit, DebounceNext, OrderInvariant, PTL
     DEF Spec, ImplementsDebounce, Debouncer!Spec
==============================================================================
