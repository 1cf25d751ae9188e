-------------------- MODULE BOSHDeploymentControllerProofs --------------------
(***************************************************************************)
(* Proofs about the BOSHDeployment reconciler, for every set of instance   *)
(* groups, every window and every bound.                                   *)
(***************************************************************************)
EXTENDS BOSHDeploymentController, TLAPS

------------------------------------------------------------------------------
(* Lemmas about copies of the BOSHDeployment and about the queue *)

\* No bound of the model matters to the queue but the longest delay.
LEMMA QueueTypes ==
    ASSUME NEW entry \in QueueType(Window)
    PROVE  /\ Add(entry) \in QueueType(Window)
           /\ Take(entry) \in QueueType(Window)
           /\ Expire(entry) \in QueueType(Window)
           /\ Elapse(entry) \in QueueType(Window)
           /\ \A delay \in 0 .. Window :
                  AddAfter(entry, delay) \in QueueType(Window)
<1> USE WindowAssumption DEF QueueType, NotWaiting
<1>1. Add(entry) \in QueueType(Window) /\ Take(entry) \in QueueType(Window)
  BY DEF Add, Take
<1>2. Expire(entry) \in QueueType(Window)
  BY DEF Expire
<1>3. Elapse(entry) \in QueueType(Window)
  BY DEF Elapse, Countdown
<1>4. ASSUME NEW delay \in 0 .. Window
      PROVE  AddAfter(entry, delay) \in QueueType(Window)
  BY DEF AddAfter
<1> QED
  BY <1>1, <1>2, <1>3, <1>4

\* A countdown stays where it was, or one below.
LEMMA CountdownType ==
    ASSUME NEW n \in -1 .. Window
    PROVE  Countdown(n) \in -1 .. Window
  BY WindowAssumption DEF Countdown

\* A copy stays a copy when it is outdated, when time passes and when its
\* status is written.
LEMMA CopyTypes ==
    ASSUME NEW copy \in BDPL
    PROVE  /\ Stale(copy) \in BDPL
           /\ Older(copy) \in BDPL
           /\ \A b \in BOOLEAN : [copy EXCEPT !.present = b] \in BDPL
           /\ [copy EXCEPT !.state = BDPLStateObserved] \in BDPL
           /\ [copy EXCEPT !.lastReconcile = Window] \in BDPL
           /\ [copy EXCEPT !.lastReconcile = NoTime,
                           !.state = BDPLStateCreating] \in BDPL
<1>1. Stale(copy) \in BDPL
  BY DEF Stale, BDPL
<1>a. copy.lastReconcile \in -1 .. Window
  BY WindowAssumption DEF BDPL, NoTime
<1>2. Countdown(copy.lastReconcile) \in NoTime .. Window
  BY <1>a, CountdownType DEF NoTime
<1>3. Older(copy) \in BDPL
  BY <1>2 DEF Older, BDPL
<1>4. \A b \in BOOLEAN : [copy EXCEPT !.present = b] \in BDPL
  BY DEF BDPL
<1>5. BDPLStateObserved \in States /\ BDPLStateCreating \in States
  BY DEF States
<1>6. [copy EXCEPT !.state = BDPLStateObserved] \in BDPL
  BY <1>5 DEF BDPL
<1>7. Window \in NoTime .. Window /\ NoTime \in NoTime .. Window
  BY WindowAssumption DEF NoTime
<1>8. [copy EXCEPT !.lastReconcile = Window] \in BDPL
  BY <1>7 DEF BDPL
<1>9. [copy EXCEPT !.lastReconcile = NoTime, !.state = BDPLStateCreating]
          \in BDPL
  BY <1>5, <1>7 DEF BDPL
<1> QED
  BY <1>1, <1>3, <1>4, <1>6, <1>8, <1>9
\* The queue of an operator that just started.
LEMMA EmptyQueueType ==
    \A b \in BOOLEAN : [EmptyQueue EXCEPT !.dirty = b] \in QueueType(Window)
<1>1. NotWaiting \in NotWaiting .. Window
  BY WindowAssumption DEF NotWaiting
<1> QED
  BY <1>1 DEF QueueType, EmptyQueue

\* The delays the reconciler asks for.
LEMMA Delays == Window \in 0 .. Window /\ \A d \in 0 .. Backoff : d \in 0 .. Window
  BY WindowAssumption, BoundsAssumption

\* A status write turns the object of the server into another one.
LEMMA WrittenTypes ==
    ASSUME bdpl \in BDPL, NEW copy \in BDPL
    PROVE  WithStatus(copy) \in BDPL
  BY DEF BDPL, WithStatus

\* The reset copy of an idle reconciler is well typed.
LEMMA NoCopyType == NoCopy \in BDPL
  BY BoundsAssumption, WindowAssumption DEF NoCopy, BDPL, NoTime, States

------------------------------------------------------------------------------
(* Type correctness *)

\* The initial state is well typed.
LEMMA TypeInit == Init => TypeOK
<1> SUFFICES ASSUME Init PROVE TypeOK
  OBVIOUS
<1>1. CopiesOK
  BY NoCopyType, CopyTypes DEF Init, CopiesOK, StatusIdle, BDPL
<1>2. queue \in QueueType(Window)
  BY EmptyQueueType DEF Init, Add
<1>3. ObjectsOK
  BY DEF Init, ObjectsOK
<1>4. swallowed \in BOOLEAN
  BY DEF Init
<1> QED
  BY <1>1, <1>2, <1>3, <1>4, BoundsAssumption, WindowAssumption
     DEF Init, TypeOK, Steps, Calls, Deploying

\* Every action turns copies into copies.
LEMMA CopiesTypeNext ==
    CopiesOK /\ [Next]_vars => CopiesOK'
<1> SUFFICES ASSUME CopiesOK, [Next]_vars PROVE CopiesOK'
  OBVIOUS
<1>1. CASE Get
  BY <1>1
     DEF Get, Goto, CopiesOK, locals
<1>2. CASE StartMeltdown
  BY <1>2, CopyTypes, WrittenTypes
     DEF StartMeltdown, Goto, WriteOwnStatus, Opened, CopiesOK, locals
<1>3. CASE RequeueAfterWindow
  BY <1>3, NoCopyType
     DEF RequeueAfterWindow, Done, ForgetLocals, CopiesOK, locals
<1>4. CASE EndMeltdown
  BY <1>4, CopyTypes, WrittenTypes
     DEF EndMeltdown, Goto, WriteOwnStatus, Closed, CopiesOK, locals
<1>5. CASE StatusUpdateRefused
  BY <1>5, NoCopyType
     DEF StatusUpdateRefused, RetryFrom, Done, ForgetLocals, CopiesOK, locals
<1>16. CASE CreateManifestWithOps
  BY <1>16, NoCopyType
     DEF CreateManifestWithOps, Done, ForgetLocals, CopiesOK, locals
<1>18. CASE WatchBDPL
  BY <1>18
     DEF WatchBDPL, FollowBDPL, CopiesOK, locals
<1>20. CASE Tick
  BY <1>20, CopyTypes
     DEF Tick, CopiesOK, locals
<1>21. CASE StatusReplyLost
  BY <1>21, CopyTypes, WrittenTypes, NoCopyType
     DEF StatusReplyLost, Fault, RetryFrom, Done, ForgetLocals,
         WriteOwnStatus, Opened, Closed, CopiesOK, locals
<1>22. CASE CallFails
  BY <1>22, NoCopyType
     DEF CallFails, Fault, RetryFrom, Done, ForgetLocals, CopiesOK, locals
<1>23. CASE ChangeSpec
  <2>1. bdpl.spec + 1 \in 0 .. MaxSpec
    BY <1>23, BoundsAssumption DEF ChangeSpec, CopiesOK, BDPL
  <2>2. bdpl' \in BDPL
    BY <1>23, <2>1 DEF ChangeSpec, CopiesOK, BDPL
  <2> QED
    BY <1>23, <2>2, CopyTypes DEF ChangeSpec, OutdateCopies, CopiesOK
<1>25. CASE StatusGet
  BY <1>25
     DEF StatusGet, CopiesOK, locals
<1>26. CASE StatusUpdate
  BY <1>26, CopyTypes, WrittenTypes, NoCopyType
     DEF StatusUpdate, StatusIdle, CopiesOK, locals
<1>27. CASE StatusSkip
  BY <1>27, NoCopyType
     DEF StatusSkip, StatusIdle, CopiesOK, locals
<1>30. CASE UserDeletesBDPL
  BY <1>30, CopyTypes
     DEF UserDeletesBDPL, Fault, OutdateCopies, CopiesOK, locals
<1>32. CASE Crash
  BY <1>32, NoCopyType
     DEF Crash, Fault, Done, ForgetLocals, StatusIdle, CopiesOK, locals
<1>q. CASE UNCHANGED <<bdpl, cache, own, status>>
  BY <1>q DEF CopiesOK
<1> QED
  BY <1>1, <1>2, <1>3, <1>4, <1>5, <1>16, <1>18, <1>20, <1>21, <1>22, <1>23,
     <1>25, <1>26, <1>27, <1>30, <1>32, <1>q
     DEF Next, Reconcile, Environment, vars, locals, objects, history, lists,
         WatchQuarksStatefulSet, WatchService, LeaveCleanup, ResolveManifest,
         ListQuarksStatefulSets, ListExcept, DeleteQuarksStatefulSet,
         ListServices, DeleteService, NextGroup, CleanupNotFound, CleanupDone,
         CreateQuarksSecret, CreateQuarksJob, TimerExpires, WatchRefs,
         ChangeRefs, RolloutGroup, UserDeletesQuarksStatefulSet,
         GarbageCollect

\* Every action keeps the objects of the cluster well typed.
LEMMA ObjectsTypeNext ==
    TypeOK /\ [Next]_vars => ObjectsOK'
<1> SUFFICES ASSUME TypeOK, [Next]_vars PROVE ObjectsOK'
  OBVIOUS
<1>7. CASE ListQuarksStatefulSets
  BY <1>7
     DEF ListQuarksStatefulSets, ListExcept, objects, history, lists,
         ObjectsOK, TypeOK
<1>8. ASSUME NEW g \in IG, DeleteQuarksStatefulSet(g) PROVE ObjectsOK'
  BY <1>8
     DEF DeleteQuarksStatefulSet, objects, history, lists, ObjectsOK, TypeOK
<1>10. ASSUME NEW s \in Services, DeleteService(s) PROVE ObjectsOK'
  BY <1>10
     DEF DeleteService, objects, history, lists, ObjectsOK, TypeOK
<1>14. ASSUME NEW v \in Var, CreateQuarksSecret(v) PROVE ObjectsOK'
  BY <1>14
     DEF CreateQuarksSecret, objects, history, lists, ObjectsOK, TypeOK
<1>15. CASE CreateQuarksJob
  BY <1>15
     DEF CreateQuarksJob, objects, history, lists, ObjectsOK, TypeOK
<1>16. CASE CreateManifestWithOps
  BY <1>16
     DEF CreateManifestWithOps, objects, history, lists, ObjectsOK, TypeOK
<1>28. ASSUME NEW g \in IG, RolloutGroup(g) PROVE ObjectsOK'
  BY <1>28
     DEF RolloutGroup, objects, history, lists, ObjectsOK, Services, TypeOK
<1>29. ASSUME NEW g \in IG, UserDeletesQuarksStatefulSet(g) PROVE ObjectsOK'
  BY <1>29
     DEF UserDeletesQuarksStatefulSet, objects, history, lists, ObjectsOK,
         TypeOK
<1>31. CASE GarbageCollect
  BY <1>31
     DEF GarbageCollect, objects, history, lists, ObjectsOK, TypeOK
<1>12. CASE CleanupNotFound
  BY <1>12
     DEF CleanupNotFound, objects, history, lists, ObjectsOK, TypeOK
<1>32. CASE Crash
  BY <1>32
     DEF Crash, objects, history, lists, ObjectsOK, TypeOK
<1>34. ASSUME NEW g \in IG, WatchQuarksStatefulSet(g) PROVE ObjectsOK'
  BY <1>34
     DEF WatchQuarksStatefulSet, Follow, objects, history, lists, ObjectsOK,
         TypeOK
<1>35. ASSUME NEW s \in Services, WatchService(s) PROVE ObjectsOK'
  BY <1>35
     DEF WatchService, Follow, objects, history, lists, ObjectsOK, TypeOK
<1>q. CASE UNCHANGED <<qsts, services, quarksSecrets, qJob, withOps, redeployed, spared,
                     qstsCache, servicesCache>>
  BY <1>q DEF TypeOK, ObjectsOK
<1> QED
  BY <1>7, <1>8, <1>10, <1>14, <1>15, <1>16, <1>28, <1>29, <1>31, <1>12, <1>32,
     <1>34, <1>35, <1>q
     DEF Next, Reconcile, Environment, vars, locals, objects, history, lists,
         LeaveCleanup, Get, StartMeltdown, RequeueAfterWindow, EndMeltdown,
         StatusUpdateRefused, ResolveManifest, ListServices, NextGroup,
         CleanupDone, TimerExpires, WatchBDPL, FollowBDPL, WatchRefs, Tick,
         StatusReplyLost, CallFails, ChangeSpec, ChangeRefs, StatusGet,
         StatusUpdate, StatusSkip, UserDeletesBDPL

\* Every action keeps the variables in their types.
LEMMA TypeNext ==
    TypeOK /\ [Next]_vars => TypeOK'
<1> SUFFICES ASSUME TypeOK, [Next]_vars PROVE TypeOK'
  OBVIOUS
<1>1. CASE Get
  BY <1>1, CopiesTypeNext, ObjectsTypeNext, QueueTypes
     DEF Get, Goto, TypeOK, Steps, Calls, Deploying, locals, history
<1>2. CASE StartMeltdown
  BY <1>2, CopiesTypeNext, ObjectsTypeNext
     DEF StartMeltdown, Goto, TypeOK, Steps, Calls, Deploying, locals, history
<1>3. CASE RequeueAfterWindow
  BY <1>3, CopiesTypeNext, ObjectsTypeNext, QueueTypes, Delays
     DEF RequeueAfterWindow, Done, ForgetLocals, TypeOK, Steps, Calls,
         Deploying, locals, history
<1>4. CASE EndMeltdown
  BY <1>4, CopiesTypeNext, ObjectsTypeNext, WindowAssumption
     DEF EndMeltdown, Goto, TypeOK, Steps, Calls, Deploying, locals, history
<1>5. CASE StatusUpdateRefused
  BY <1>5, CopiesTypeNext, ObjectsTypeNext, QueueTypes, Delays
     DEF StatusUpdateRefused, RetryFrom, Done, ForgetLocals, TypeOK, Steps,
         Calls, Deploying, locals, history
<1>6. CASE ResolveManifest
  BY <1>6, CopiesTypeNext, ObjectsTypeNext, BoundsAssumption
     DEF ResolveManifest, Goto, TypeOK, Steps, Calls, Deploying, locals,
         history, CopiesOK, BDPL, Manifests
<1>7. CASE ListQuarksStatefulSets
  BY <1>7, CopiesTypeNext, ObjectsTypeNext
     DEF ListQuarksStatefulSets, ListExcept, Goto, ObjectsOK, TypeOK, Steps,
         Calls, Deploying, locals, history
<1>8. ASSUME NEW g \in IG, DeleteQuarksStatefulSet(g) PROVE TypeOK'
  BY <1>8, CopiesTypeNext, ObjectsTypeNext
     DEF DeleteQuarksStatefulSet, Goto, TypeOK, Steps, Calls, Deploying,
         locals, history, Services
<1>9. CASE ListServices
  BY <1>9, CopiesTypeNext, ObjectsTypeNext
     DEF ListServices, Goto, TypeOK, Steps, Calls, Deploying, locals, history
<1>10. ASSUME NEW s \in Services, DeleteService(s) PROVE TypeOK'
  BY <1>10, CopiesTypeNext, ObjectsTypeNext
     DEF DeleteService, TypeOK, Steps, Calls, Deploying, locals, history
<1>11. CASE NextGroup
  BY <1>11, CopiesTypeNext, ObjectsTypeNext
     DEF NextGroup, Goto, TypeOK, Steps, Calls, Deploying, locals, history
<1>12. CASE CleanupNotFound
  BY <1>12, CopiesTypeNext, ObjectsTypeNext, ManifestAssumption
     DEF CleanupNotFound, LeaveCleanup, Goto, TypeOK, Steps, Calls, Deploying,
         locals, history
<1>13. CASE CleanupDone
  BY <1>13, CopiesTypeNext, ObjectsTypeNext, ManifestAssumption
     DEF CleanupDone, LeaveCleanup, Goto, TypeOK, Steps, Calls, Deploying,
         locals, history
<1>14. ASSUME NEW v \in Var, CreateQuarksSecret(v) PROVE TypeOK'
  BY <1>14, CopiesTypeNext, ObjectsTypeNext
     DEF CreateQuarksSecret, TypeOK, Steps, Calls, Deploying, locals, history
<1>15. CASE CreateQuarksJob
  BY <1>15, CopiesTypeNext, ObjectsTypeNext
     DEF CreateQuarksJob, Goto, TypeOK, Steps, Calls, Deploying, locals,
         history
<1>16. CASE CreateManifestWithOps
  BY <1>16, CopiesTypeNext, ObjectsTypeNext
     DEF CreateManifestWithOps, Done, ForgetLocals, TypeOK, Steps, Calls,
         Deploying, locals, history
<1>17. CASE TimerExpires
  BY <1>17, CopiesTypeNext, ObjectsTypeNext, QueueTypes
     DEF TimerExpires, TypeOK, Steps, Calls, Deploying, locals, history
<1>18. CASE WatchBDPL
  BY <1>18, CopiesTypeNext, ObjectsTypeNext, QueueTypes
     DEF WatchBDPL, FollowBDPL, TypeOK, Steps, Calls, Deploying, locals,
         history
<1>19. CASE WatchRefs
  BY <1>19, CopiesTypeNext, ObjectsTypeNext, QueueTypes
     DEF WatchRefs, TypeOK, Steps, Calls, Deploying, locals, history
<1>20. CASE Tick
  BY <1>20, CopiesTypeNext, ObjectsTypeNext, QueueTypes, WindowAssumption
     DEF Tick, TypeOK, Steps, Calls, Deploying, locals, history
<1>21. CASE StatusReplyLost
  BY <1>21, CopiesTypeNext, ObjectsTypeNext, QueueTypes, Delays,
      BoundsAssumption
     DEF StatusReplyLost, Fault, RetryFrom, Done, ForgetLocals, TypeOK, Steps,
         Calls, Deploying, locals, history
<1>22. CASE CallFails
  <2>1. queue' \in QueueType(Window)
    BY <1>22, QueueTypes, Delays DEF CallFails, RetryFrom, TypeOK
  <2>2. faults' \in 0 .. MaxFaults
    BY <1>22, BoundsAssumption DEF CallFails, Fault, TypeOK
  <2> QED
    BY <1>22, <2>1, <2>2, CopiesTypeNext, ObjectsTypeNext
       DEF CallFails, RetryFrom, Done, ForgetLocals, TypeOK, Steps, Calls,
           Deploying, history
<1>23. CASE ChangeSpec
  BY <1>23, CopiesTypeNext, ObjectsTypeNext
     DEF ChangeSpec, TypeOK, Steps, Calls, Deploying, locals, history
<1>24. CASE ChangeRefs
  BY <1>24, CopiesTypeNext, ObjectsTypeNext, BoundsAssumption
     DEF ChangeRefs, TypeOK, Steps, Calls, Deploying, locals, history
<1>25. CASE StatusGet
  BY <1>25, CopiesTypeNext, ObjectsTypeNext
     DEF StatusGet, TypeOK, Steps, Calls, Deploying, locals, history
<1>26. CASE StatusUpdate
  BY <1>26, CopiesTypeNext, ObjectsTypeNext, BoundsAssumption
     DEF StatusUpdate, TypeOK, Steps, Calls, Deploying, locals, history
<1>27. CASE StatusSkip
  BY <1>27, CopiesTypeNext, ObjectsTypeNext
     DEF StatusSkip, TypeOK, Steps, Calls, Deploying, locals, history
<1>28. ASSUME NEW g \in IG, RolloutGroup(g) PROVE TypeOK'
  BY <1>28, CopiesTypeNext, ObjectsTypeNext
     DEF RolloutGroup, TypeOK, Steps, Calls, Deploying, locals, history
<1>29. ASSUME NEW g \in IG, UserDeletesQuarksStatefulSet(g) PROVE TypeOK'
  BY <1>29, CopiesTypeNext, ObjectsTypeNext, BoundsAssumption
     DEF UserDeletesQuarksStatefulSet, Fault, TypeOK, Steps, Calls, Deploying,
         locals, history
<1>30. CASE UserDeletesBDPL
  BY <1>30, CopiesTypeNext, ObjectsTypeNext, BoundsAssumption
     DEF UserDeletesBDPL, Fault, TypeOK, Steps, Calls, Deploying, locals,
         history
<1>31. CASE GarbageCollect
  BY <1>31, CopiesTypeNext, ObjectsTypeNext
     DEF GarbageCollect, TypeOK, Steps, Calls, Deploying, locals, history
<1>32. CASE Crash
  <2>1. queue' \in QueueType(Window)
    BY <1>32, EmptyQueueType DEF Crash, TypeOK, CopiesOK, BDPL
  <2>2. swallowed' \in BOOLEAN
    BY <1>32 DEF Crash
  <2> QED
    BY <1>32, <2>1, <2>2, CopiesTypeNext, ObjectsTypeNext, BoundsAssumption
       DEF Crash, Fault, Done, ForgetLocals, TypeOK, Steps, Calls, Deploying,
           locals
<1>34. ASSUME NEW g \in IG, WatchQuarksStatefulSet(g) PROVE TypeOK'
  BY <1>34, CopiesTypeNext, ObjectsTypeNext
     DEF WatchQuarksStatefulSet, TypeOK, locals, history
<1>35. ASSUME NEW s \in Services, WatchService(s) PROVE TypeOK'
  BY <1>35, CopiesTypeNext, ObjectsTypeNext
     DEF WatchService, TypeOK, locals, history
<1>33. CASE UNCHANGED vars
  BY <1>33 DEF vars, locals, objects, history, lists, TypeOK, CopiesOK,
               ObjectsOK
<1> QED
  BY <1>1, <1>2, <1>3, <1>4, <1>5, <1>6, <1>7, <1>8, <1>9, <1>10, <1>11,
     <1>12, <1>13, <1>14, <1>15, <1>16, <1>17, <1>18, <1>19, <1>20, <1>21, <1>22,
     <1>23, <1>24, <1>25, <1>26, <1>27, <1>28, <1>29, <1>30, <1>31, <1>32, <1>33,
     <1>34, <1>35
     DEF Next, Reconcile, Environment

\* The variables of the reconciler keep their types.
THEOREM TypeCorrect == Spec => []TypeOK
  BY TypeInit, TypeNext, PTL DEF Spec

------------------------------------------------------------------------------
(* The meltdown *)

\* What the operators on copies leave alone.
LEMMA CopyFields ==
    ASSUME NEW copy \in BDPL
    PROVE  /\ Stale(copy).fresh = FALSE
           /\ Stale(copy).spec = copy.spec
           /\ Stale(copy).present = copy.present
           /\ Stale(copy).lastReconcile = copy.lastReconcile
           /\ Older(copy).fresh = copy.fresh
           /\ Older(copy).spec = copy.spec
           /\ Older(copy).present = copy.present
           /\ Older(copy).lastReconcile = Countdown(copy.lastReconcile)
  BY DEF BDPL, Stale, Older

\* What a status write changes.
LEMMA WrittenFields ==
    ASSUME bdpl \in BDPL, NEW copy \in BDPL
    PROVE  /\ WithStatus(copy).fresh = bdpl.fresh
           /\ WithStatus(copy).spec = bdpl.spec
           /\ WithStatus(copy).present = bdpl.present
           /\ WithStatus(copy).lastReconcile = copy.lastReconcile
  BY DEF BDPL, WithStatus

\* The copies the reconciler writes.
LEMMA OwnWrites ==
    ASSUME own \in BDPL
    PROVE  /\ Opened \in BDPL /\ Opened.lastReconcile = Window
           /\ Closed \in BDPL /\ Closed.lastReconcile = NoTime
<1>1. Opened \in BDPL /\ Closed \in BDPL
  BY CopyTypes DEF Opened, Closed
<1>2. Opened.lastReconcile = Window /\ Closed.lastReconcile = NoTime
  BY DEF Opened, Closed, BDPL
<1> QED
  BY <1>1, <1>2

\* The reset copy is never accepted by the server and has no stamp.
LEMMA NoCopyFields == NoCopy.fresh = FALSE /\ NoCopy.lastReconcile = NoTime
  BY DEF NoCopy

\* No action makes an outdated copy acceptable, and every write of the object
\* outdates all copies but the writer's.
LEMMA FreshCopiesNext ==
    CopiesOK /\ FreshCopies /\ [Next]_vars => FreshCopies'
<1> SUFFICES ASSUME CopiesOK /\ FreshCopies, [Next]_vars PROVE FreshCopies'
  OBVIOUS
<1>1. CASE Get
  BY <1>1
     DEF Get, CopiesOK, FreshCopies, locals
<1>2. CASE StartMeltdown
  BY <1>2, CopyFields, WrittenFields, CopyTypes
     DEF StartMeltdown, WriteOwnStatus, Accepts, CopiesOK, FreshCopies,
         locals, Opened
<1>3. CASE RequeueAfterWindow
  BY <1>3, NoCopyFields
     DEF RequeueAfterWindow, Done, ForgetLocals, CopiesOK, FreshCopies, locals
<1>4. CASE EndMeltdown
  BY <1>4, CopyFields, WrittenFields, CopyTypes
     DEF EndMeltdown, WriteOwnStatus, Accepts, CopiesOK, FreshCopies, locals,
         Closed
<1>5. CASE StatusUpdateRefused
  BY <1>5, NoCopyFields
     DEF StatusUpdateRefused, Accepts, RetryFrom, Done, ForgetLocals,
         CopiesOK, FreshCopies, locals
<1>16. CASE CreateManifestWithOps
  BY <1>16, NoCopyFields
     DEF CreateManifestWithOps, Done, ForgetLocals, CopiesOK, FreshCopies,
         locals
<1>18. CASE WatchBDPL
  BY <1>18
     DEF WatchBDPL, FollowBDPL, CopiesOK, FreshCopies, locals
<1>20. CASE Tick
  BY <1>20, CopyFields
     DEF Tick, CopiesOK, FreshCopies, locals
<1>21. CASE StatusReplyLost
  <2>1. own' = NoCopy
    BY <1>21 DEF StatusReplyLost, RetryFrom, Done, ForgetLocals
  <2>2. bdpl'.fresh = bdpl.fresh
    BY <1>21, WrittenFields, OwnWrites
       DEF StatusReplyLost, WriteOwnStatus, CopiesOK
  <2>3. cache' = Stale(cache) /\ status' = [status EXCEPT !.copy = Stale(@)]
    BY <1>21 DEF StatusReplyLost, WriteOwnStatus
  <2> QED
    BY <2>1, <2>2, <2>3, CopyFields, NoCopyFields DEF CopiesOK, FreshCopies
<1>22. CASE CallFails
  BY <1>22, NoCopyFields
     DEF CallFails, RetryFrom, Done, ForgetLocals, CopiesOK, FreshCopies,
         locals
<1>23. CASE ChangeSpec
  BY <1>23, CopyFields
     DEF ChangeSpec, OutdateCopies, CopiesOK, FreshCopies, locals, BDPL
<1>25. CASE StatusGet
  BY <1>25
     DEF StatusGet, CopiesOK, FreshCopies, locals
<1>26. CASE StatusUpdate
  BY <1>26, CopyFields, WrittenFields, CopyTypes, NoCopyFields
     DEF StatusUpdate, Accepts, StatusIdle, CopiesOK, FreshCopies, locals
<1>27. CASE StatusSkip
  BY <1>27, NoCopyFields
     DEF StatusSkip, StatusIdle, CopiesOK, FreshCopies, locals
<1>30. CASE UserDeletesBDPL
  BY <1>30, CopyFields
     DEF UserDeletesBDPL, OutdateCopies, CopiesOK, FreshCopies, locals, BDPL
<1>32. CASE Crash
  BY <1>32, NoCopyFields
     DEF Crash, Done, ForgetLocals, StatusIdle, CopiesOK, FreshCopies, locals
<1>q. CASE UNCHANGED <<bdpl, cache, own, status>>
  BY <1>q DEF FreshCopies
<1> QED
  BY <1>1, <1>2, <1>3, <1>4, <1>5, <1>16, <1>18, <1>20, <1>21, <1>22, <1>23,
     <1>25, <1>26, <1>27, <1>30, <1>32, <1>q
     DEF Next, Reconcile, Environment, vars, locals, objects, history, lists,
         WatchQuarksStatefulSet, WatchService, LeaveCleanup, ResolveManifest,
         ListQuarksStatefulSets, ListExcept, DeleteQuarksStatefulSet,
         ListServices, DeleteService, NextGroup, CleanupNotFound, CleanupDone,
         CreateQuarksSecret, CreateQuarksJob, TimerExpires, WatchRefs,
         ChangeRefs, RolloutGroup, UserDeletesQuarksStatefulSet,
         GarbageCollect

\* A status write the server accepts leaves the stamp as it is.
LEMMA StatusUpdateKeepsStamp ==
    MeltdownInv /\ StatusUpdate => bdpl'.lastReconcile = bdpl.lastReconcile
<1> SUFFICES ASSUME MeltdownInv, StatusUpdate
             PROVE  bdpl'.lastReconcile = bdpl.lastReconcile
  OBVIOUS
<1> DEFINE written == [status.copy EXCEPT !.state = BDPLStateObserved]
<1>1. bdpl \in BDPL /\ status.copy \in BDPL
  BY DEF MeltdownInv, TypeOK, CopiesOK
<1>2. written \in BDPL /\ written.lastReconcile = status.copy.lastReconcile
  BY <1>1, CopyTypes DEF BDPL
<1>3. bdpl' = WithStatus(written) /\ status.copy = bdpl
  BY DEF StatusUpdate, Accepts, MeltdownInv, FreshCopies
<1> QED
  BY <1>1, <1>2, <1>3, WrittenFields

\* A stamp is set after the deploy before it, and cleared only when it is over.
LEMMA StampNext ==
    MeltdownInv /\ [Next]_vars => StampAfterDeploy' /\ ClosesExpired'
<1> SUFFICES ASSUME MeltdownInv, [Next]_vars PROVE StampAfterDeploy' /\ ClosesExpired'
  OBVIOUS
<1>1. CASE Get
  BY <1>1, WindowAssumption
     DEF Get, InMeltdown, Goto, MeltdownInv, TypeOK, CopiesOK, FreshCopies,
         StampAfterDeploy, ClosesExpired, locals, BDPL, NoTime
<1>2. CASE StartMeltdown
  <2>1. bdpl'.lastReconcile = Window
    BY <1>2, WrittenFields, OwnWrites
       DEF StartMeltdown, WriteOwnStatus, MeltdownInv, TypeOK, CopiesOK
  <2> QED
    BY <1>2, <2>1, WindowAssumption
       DEF StartMeltdown, Goto, MeltdownInv, TypeOK, StampAfterDeploy,
           ClosesExpired
<1>3. CASE RequeueAfterWindow
  BY <1>3, NoCopyFields
     DEF RequeueAfterWindow, Done, ForgetLocals, MeltdownInv, TypeOK,
         CopiesOK, FreshCopies, StampAfterDeploy, ClosesExpired, locals
<1>4. CASE EndMeltdown
  <2>1. bdpl'.lastReconcile = NoTime
    BY <1>4, WrittenFields, OwnWrites
       DEF EndMeltdown, WriteOwnStatus, MeltdownInv, TypeOK, CopiesOK
  <2> QED
    BY <1>4, <2>1 DEF EndMeltdown, Goto, StampAfterDeploy, ClosesExpired
<1>5. CASE StatusUpdateRefused
  BY <1>5, NoCopyFields
     DEF StatusUpdateRefused, Accepts, RetryFrom, Done, ForgetLocals,
         MeltdownInv, TypeOK, CopiesOK, FreshCopies, StampAfterDeploy,
         ClosesExpired, locals
<1>6. CASE ResolveManifest
  BY <1>6
     DEF ResolveManifest, Goto, MeltdownInv, TypeOK, CopiesOK, FreshCopies,
         StampAfterDeploy, ClosesExpired, locals
<1>7. CASE ListQuarksStatefulSets
  BY <1>7
     DEF ListQuarksStatefulSets, ListExcept, Goto, MeltdownInv, TypeOK,
         CopiesOK, FreshCopies, StampAfterDeploy, ClosesExpired, locals
<1>8. ASSUME NEW g \in IG, DeleteQuarksStatefulSet(g) PROVE StampAfterDeploy' /\ ClosesExpired'
  BY <1>8
     DEF DeleteQuarksStatefulSet, Goto, MeltdownInv, TypeOK, CopiesOK,
         FreshCopies, StampAfterDeploy, ClosesExpired, locals
<1>9. CASE ListServices
  BY <1>9
     DEF ListServices, Goto, MeltdownInv, TypeOK, CopiesOK, FreshCopies,
         StampAfterDeploy, ClosesExpired, locals
<1>10. ASSUME NEW s \in Services, DeleteService(s) PROVE StampAfterDeploy' /\ ClosesExpired'
  BY <1>10
     DEF DeleteService, MeltdownInv, TypeOK, CopiesOK, FreshCopies,
         StampAfterDeploy, ClosesExpired, locals
<1>11. CASE NextGroup
  BY <1>11
     DEF NextGroup, Goto, MeltdownInv, TypeOK, CopiesOK, FreshCopies,
         StampAfterDeploy, ClosesExpired, locals
<1>12. CASE CleanupNotFound
  BY <1>12
     DEF CleanupNotFound, LeaveCleanup, Goto, MeltdownInv, TypeOK, CopiesOK,
         FreshCopies, StampAfterDeploy, ClosesExpired, locals
<1>13. CASE CleanupDone
  BY <1>13
     DEF CleanupDone, LeaveCleanup, Goto, MeltdownInv, TypeOK, CopiesOK,
         FreshCopies, StampAfterDeploy, ClosesExpired, locals
<1>14. ASSUME NEW v \in Var, CreateQuarksSecret(v) PROVE StampAfterDeploy' /\ ClosesExpired'
  BY <1>14
     DEF CreateQuarksSecret, MeltdownInv, TypeOK, CopiesOK, FreshCopies,
         StampAfterDeploy, ClosesExpired, locals
<1>15. CASE CreateQuarksJob
  BY <1>15
     DEF CreateQuarksJob, Goto, MeltdownInv, TypeOK, CopiesOK, FreshCopies,
         StampAfterDeploy, ClosesExpired, locals
<1>16. CASE CreateManifestWithOps
  BY <1>16, NoCopyFields
     DEF CreateManifestWithOps, Done, ForgetLocals, MeltdownInv, TypeOK,
         CopiesOK, FreshCopies, StampAfterDeploy, ClosesExpired, locals
<1>17. CASE TimerExpires
  BY <1>17
     DEF TimerExpires, MeltdownInv, TypeOK, CopiesOK, FreshCopies,
         StampAfterDeploy, ClosesExpired, locals
<1>18. CASE WatchBDPL
  BY <1>18
     DEF WatchBDPL, FollowBDPL, MeltdownInv, TypeOK, CopiesOK, FreshCopies,
         StampAfterDeploy, ClosesExpired, locals
<1>19. CASE WatchRefs
  BY <1>19
     DEF WatchRefs, MeltdownInv, TypeOK, CopiesOK, FreshCopies,
         StampAfterDeploy, ClosesExpired, locals
<1>20. CASE Tick
  <2>1. /\ bdpl'.lastReconcile = Countdown(bdpl.lastReconcile)
        /\ own'.lastReconcile = Countdown(own.lastReconcile)
    BY <1>20, CopyFields DEF Tick, MeltdownInv, TypeOK, CopiesOK
  <2>2. bdpl.lastReconcile \in NoTime .. Window
    BY DEF MeltdownInv, TypeOK, CopiesOK, BDPL
  <2>3. StampAfterDeploy'
    BY <1>20, <2>1, <2>2, WindowAssumption
       DEF Tick, MeltdownInv, TypeOK, StampAfterDeploy, Countdown, NoTime
  <2>4. ClosesExpired'
    BY <1>20, <2>1 DEF Tick, MeltdownInv, ClosesExpired, Countdown
  <2> QED
    BY <2>3, <2>4
<1>21. CASE StatusReplyLost
  <2>1. bdpl'.lastReconcile \in {Window, NoTime}
    BY <1>21, WrittenFields, OwnWrites
       DEF StatusReplyLost, WriteOwnStatus, MeltdownInv, TypeOK, CopiesOK
  <2> QED
    BY <1>21, <2>1, WindowAssumption
       DEF StatusReplyLost, RetryFrom, Done, MeltdownInv, TypeOK,
           StampAfterDeploy, ClosesExpired
<1>22. CASE CallFails
  BY <1>22, NoCopyFields
     DEF CallFails, RetryFrom, Done, ForgetLocals, MeltdownInv, TypeOK,
         CopiesOK, FreshCopies, StampAfterDeploy, ClosesExpired, locals
<1>23. CASE ChangeSpec
  BY <1>23, CopyFields
     DEF ChangeSpec, OutdateCopies, MeltdownInv, TypeOK, CopiesOK,
         FreshCopies, StampAfterDeploy, ClosesExpired, locals, BDPL, NoTime
<1>24. CASE ChangeRefs
  BY <1>24
     DEF ChangeRefs, MeltdownInv, TypeOK, CopiesOK, FreshCopies,
         StampAfterDeploy, ClosesExpired, locals
<1>25. CASE StatusGet
  BY <1>25
     DEF StatusGet, MeltdownInv, TypeOK, CopiesOK, FreshCopies,
         StampAfterDeploy, ClosesExpired, locals
<1>26. CASE StatusUpdate
  <2>1. bdpl'.lastReconcile = bdpl.lastReconcile
    BY <1>26, StatusUpdateKeepsStamp
  <2>2. own'.lastReconcile = own.lastReconcile
    BY <1>26, CopyFields DEF StatusUpdate, MeltdownInv, TypeOK, CopiesOK
  <2> QED
    BY <1>26, <2>1, <2>2
       DEF StatusUpdate, MeltdownInv, StampAfterDeploy, ClosesExpired
<1>27. CASE StatusSkip
  BY <1>27, NoCopyFields
     DEF StatusSkip, StatusIdle, MeltdownInv, TypeOK, CopiesOK, FreshCopies,
         StampAfterDeploy, ClosesExpired, locals
<1>28. ASSUME NEW g \in IG, RolloutGroup(g) PROVE StampAfterDeploy' /\ ClosesExpired'
  BY <1>28
     DEF RolloutGroup, MeltdownInv, TypeOK, CopiesOK, FreshCopies,
         StampAfterDeploy, ClosesExpired, locals
<1>29. ASSUME NEW g \in IG, UserDeletesQuarksStatefulSet(g) PROVE StampAfterDeploy' /\ ClosesExpired'
  BY <1>29
     DEF UserDeletesQuarksStatefulSet, MeltdownInv, TypeOK, CopiesOK,
         FreshCopies, StampAfterDeploy, ClosesExpired, locals
<1>30. CASE UserDeletesBDPL
  BY <1>30, CopyFields
     DEF UserDeletesBDPL, OutdateCopies, MeltdownInv, TypeOK, CopiesOK,
         FreshCopies, StampAfterDeploy, ClosesExpired, locals, BDPL, NoTime
<1>31. CASE GarbageCollect
  BY <1>31
     DEF GarbageCollect, MeltdownInv, TypeOK, CopiesOK, FreshCopies,
         StampAfterDeploy, ClosesExpired, locals
<1>32. CASE Crash
  BY <1>32, NoCopyFields
     DEF Crash, Done, ForgetLocals, StatusIdle, MeltdownInv, TypeOK, CopiesOK,
         FreshCopies, StampAfterDeploy, ClosesExpired, locals
<1>34. ASSUME NEW g \in IG, WatchQuarksStatefulSet(g)
       PROVE  StampAfterDeploy' /\ ClosesExpired'
  BY <1>34 DEF WatchQuarksStatefulSet, MeltdownInv, StampAfterDeploy,
               ClosesExpired, locals
<1>35. ASSUME NEW s \in Services, WatchService(s)
       PROVE  StampAfterDeploy' /\ ClosesExpired'
  BY <1>35 DEF WatchService, MeltdownInv, StampAfterDeploy, ClosesExpired,
               locals
<1>33. CASE UNCHANGED vars
  BY <1>33 DEF vars, locals, MeltdownInv, StampAfterDeploy, ClosesExpired
<1> QED
  BY <1>1, <1>2, <1>3, <1>4, <1>5, <1>6, <1>7, <1>8, <1>9, <1>10, <1>11,
     <1>12, <1>13, <1>14, <1>15, <1>16, <1>17, <1>18, <1>19, <1>20, <1>21, <1>22,
     <1>23, <1>24, <1>25, <1>26, <1>27, <1>28, <1>29, <1>30, <1>31, <1>32, <1>33,
     <1>34, <1>35
     DEF Next, Reconcile, Environment

\* The invariant of the meltdown holds when the BOSHDeployment is created.
LEMMA MeltdownInit == Init => MeltdownInv
<1> SUFFICES ASSUME Init PROVE MeltdownInv
  OBVIOUS
<1>1. TypeOK
  BY TypeInit
<1>2. FreshCopies
  BY NoCopyFields, NoCopyType DEF Init, FreshCopies, StatusIdle, BDPL
<1>3. StampAfterDeploy /\ ClosesExpired
  BY NoCopyFields DEF Init, StampAfterDeploy, ClosesExpired, NoCopy
<1> QED
  BY <1>1, <1>2, <1>3 DEF MeltdownInv

\* Every step of the operator and of its environment keeps it.
LEMMA MeltdownNext == MeltdownInv /\ [Next]_vars => MeltdownInv'
  BY TypeNext, FreshCopiesNext, StampNext DEF MeltdownInv, TypeOK

\* The invariant the theorems about the meltdown rest on: only a copy equal to
\* the server's object is accepted, and a stamp is set after the last deploy.
THEOREM MeltdownInvariant == Spec => []MeltdownInv
  BY MeltdownInit, MeltdownNext, PTL DEF Spec

\* The deploys of a BOSHDeployment are at least ReconcileSkipDuration apart,
\* for every length of the window and every interleaving.
THEOREM DeploySpacing == Spec => DeploysAreSpaced
<1>1. MeltdownInv /\ [Next]_vars
          => (pc = "close" /\ pc' = "resolve" => sinceDeploy = Window)
  <2> SUFFICES ASSUME MeltdownInv, [Next]_vars, pc = "close", pc' = "resolve"
               PROVE  sinceDeploy = Window
    OBVIOUS
  <2>1. EndMeltdown
    BY DEF Next, Reconcile, Environment, vars, locals, history, lists,
           WatchQuarksStatefulSet, WatchService, Get, StartMeltdown,
           RequeueAfterWindow, StatusUpdateRefused, ResolveManifest,
           ListQuarksStatefulSets, ListExcept, DeleteQuarksStatefulSet,
           ListServices, DeleteService, NextGroup, CleanupNotFound,
           CleanupDone, LeaveCleanup, CreateQuarksSecret, CreateQuarksJob,
           CreateManifestWithOps, TimerExpires, WatchBDPL, FollowBDPL,
           WatchRefs, Tick, StatusReplyLost, CallFails, ChangeSpec,
           ChangeRefs, StatusGet, StatusUpdate, StatusSkip, RolloutGroup,
           UserDeletesQuarksStatefulSet, UserDeletesBDPL, GarbageCollect,
           Crash, RetryFrom, Done, Goto
  <2>2. own.lastReconcile = 0 /\ own = bdpl
    BY <2>1 DEF EndMeltdown, WriteOwnStatus, Accepts, MeltdownInv,
                FreshCopies, ClosesExpired
  <2> QED
    BY <2>2, WindowAssumption
       DEF MeltdownInv, TypeOK, StampAfterDeploy, NoTime
<1> QED
  BY <1>1, MeltdownInvariant, PTL DEF Spec, DeploysAreSpaced

\* The status reconcilers never undo a stamp.
THEOREM StatusKeepsMeltdown == Spec => StatusWriterKeepsMeltdown
  BY MeltdownInvariant, StatusUpdateKeepsStamp, PTL
     DEF Spec, StatusWriterKeepsMeltdown

------------------------------------------------------------------------------
(* No change is forgotten *)

\* What the operations of the queue do to its two fields.
LEMMA QueueFields ==
    ASSUME NEW entry \in QueueType(Window)
    PROVE  /\ Add(entry).dirty /\ Add(entry).due = entry.due
           /\ ~Take(entry).dirty /\ Take(entry).due = entry.due
           /\ Expire(entry).dirty
           /\ Elapse(entry).dirty = entry.dirty
           /\ Elapse(entry).due = NotWaiting <=> entry.due = NotWaiting
           /\ \A delay \in 0 .. Window :
                  AddAfter(entry, delay).due # NotWaiting
<1>1. /\ Add(entry).dirty /\ Add(entry).due = entry.due
      /\ ~Take(entry).dirty /\ Take(entry).due = entry.due
      /\ Expire(entry).dirty
      /\ Elapse(entry).dirty = entry.dirty
      /\ Elapse(entry).due = Countdown(entry.due)
  BY DEF QueueType, Add, Take, Expire, Elapse
<1>2. entry.due \in -1 .. Window
  BY DEF QueueType, NotWaiting
<1>3. Countdown(entry.due) = NotWaiting <=> entry.due = NotWaiting
  BY <1>2, WindowAssumption DEF Countdown, NotWaiting
<1>4. ASSUME NEW delay \in 0 .. Window
      PROVE  AddAfter(entry, delay).due # NotWaiting
  BY <1>2, WindowAssumption DEF AddAfter, NotWaiting, QueueType
<1> QED
  BY <1>1, <1>3, <1>4

\* The type of every copy, spelled out for the arithmetic.
LEMMA CopyRanges ==
    ASSUME NEW copy \in BDPL
    PROVE  /\ copy.spec \in Nat
           /\ copy.lastReconcile \in Int
           /\ NoTime <= copy.lastReconcile
           /\ copy.lastReconcile <= Window
  BY BoundsAssumption, WindowAssumption DEF BDPL, NoTime

\* A write of the reconciler, seen field by field.
LEMMA OwnWriteFields ==
    ASSUME CopiesOK, NEW copy \in BDPL, WriteOwnStatus(copy)
    PROVE  /\ bdpl'.spec = bdpl.spec /\ bdpl'.present = bdpl.present
           /\ bdpl'.lastReconcile = copy.lastReconcile
           /\ cache'.spec = cache.spec /\ cache'.present = cache.present
           /\ cache'.lastReconcile = cache.lastReconcile
  BY WrittenFields, CopyFields DEF WriteOwnStatus, CopiesOK

\* A write of the status reconcilers.
LEMMA StatusUpdateFields ==
    ASSUME MeltdownInv, StatusUpdate
    PROVE  /\ bdpl'.spec = bdpl.spec /\ bdpl'.present = bdpl.present
           /\ bdpl'.lastReconcile = bdpl.lastReconcile
           /\ cache'.spec = cache.spec /\ cache'.present = cache.present
           /\ cache'.lastReconcile = cache.lastReconcile
           /\ own'.spec = own.spec
<1>1. bdpl'.lastReconcile = bdpl.lastReconcile
  BY StatusUpdateKeepsStamp
<1>2. bdpl'.spec = bdpl.spec /\ bdpl'.present = bdpl.present
  BY WrittenFields, CopyTypes DEF StatusUpdate, MeltdownInv, TypeOK, CopiesOK
<1>3. /\ cache'.spec = cache.spec /\ cache'.present = cache.present
      /\ cache'.lastReconcile = cache.lastReconcile
      /\ own'.spec = own.spec
  BY CopyFields DEF StatusUpdate, MeltdownInv, TypeOK, CopiesOK
<1> QED
  BY <1>1, <1>2, <1>3

\* An edit of the user.
LEMMA ChangeSpecFields ==
    ASSUME CopiesOK, ChangeSpec
    PROVE  /\ bdpl'.spec = bdpl.spec + 1 /\ bdpl'.present = bdpl.present
           /\ bdpl'.lastReconcile = bdpl.lastReconcile
           /\ cache'.spec = cache.spec /\ cache'.present = cache.present
           /\ cache'.lastReconcile = cache.lastReconcile
<1>1. /\ bdpl'.spec = bdpl.spec + 1 /\ bdpl'.present = bdpl.present
      /\ bdpl'.lastReconcile = bdpl.lastReconcile
  BY DEF ChangeSpec, CopiesOK, BDPL
<1>2. /\ cache'.spec = cache.spec /\ cache'.present = cache.present
      /\ cache'.lastReconcile = cache.lastReconcile
  BY CopyFields DEF ChangeSpec, OutdateCopies, CopiesOK
<1> QED
  BY <1>1, <1>2

\* One unit of time.
LEMMA TickFields ==
    ASSUME CopiesOK, Tick
    PROVE  /\ bdpl'.spec = bdpl.spec /\ bdpl'.present = bdpl.present
           /\ bdpl'.lastReconcile = Countdown(bdpl.lastReconcile)
           /\ cache'.spec = cache.spec /\ cache'.present = cache.present
           /\ cache'.lastReconcile = Countdown(cache.lastReconcile)
           /\ own'.spec = own.spec
  BY CopyFields DEF Tick, CopiesOK

\* No action lets a cache run ahead of the server.
LEMMA CachesBehindNext ==
    MeltdownInv /\ CachesBehind /\ [Next]_vars => CachesBehind'
<1> SUFFICES ASSUME MeltdownInv /\ CachesBehind, [Next]_vars
             PROVE  CachesBehind'
  OBVIOUS
<1>a. CopiesOK /\ bdpl \in BDPL /\ cache \in BDPL /\ own \in BDPL
  BY DEF MeltdownInv, TypeOK, CopiesOK
<1>2. CASE StartMeltdown
  <2>1. WriteOwnStatus(Opened) /\ UNCHANGED <<refs, refsCache>>
    BY <1>2 DEF StartMeltdown
  <2> QED
    BY <1>a, <2>1, OwnWriteFields, OwnWrites, CopyRanges DEF CachesBehind
<1>4. CASE EndMeltdown
  <2>1. own = bdpl /\ own.lastReconcile = 0
    BY <1>4 DEF EndMeltdown, WriteOwnStatus, Accepts, MeltdownInv,
                FreshCopies, ClosesExpired
  <2>2. WriteOwnStatus(Closed) /\ UNCHANGED <<refs, refsCache>>
    BY <1>4 DEF EndMeltdown
  <2>3. ~(cache.lastReconcile > 0)
    BY <1>a, <2>1, CopyRanges DEF CachesBehind
  <2> QED
    BY <1>a, <2>2, <2>3, OwnWriteFields, OwnWrites DEF CachesBehind
<1>18. CASE WatchBDPL
  BY <1>18
     DEF WatchBDPL, FollowBDPL, CachesBehind, MeltdownInv, TypeOK, CopiesOK,
         FreshCopies, BDPL, NoTime
<1>19. CASE WatchRefs
  BY <1>19
     DEF WatchRefs, CachesBehind, MeltdownInv, TypeOK, CopiesOK, FreshCopies,
         BDPL, NoTime
<1>20. CASE Tick
  BY <1>a, <1>20, TickFields, CopyRanges
     DEF Tick, CachesBehind, Countdown
<1>21. CASE StatusReplyLost
  <2>1. UNCHANGED <<refs, refsCache>>
    BY <1>21 DEF StatusReplyLost
  <2>2. CASE WriteOwnStatus(Opened)
    BY <1>a, <2>1, <2>2, OwnWriteFields, OwnWrites, CopyRanges
       DEF CachesBehind
  <2>3. CASE pc = "close" /\ WriteOwnStatus(Closed)
    <3>1. own = bdpl /\ own.lastReconcile = 0
      BY <2>3 DEF WriteOwnStatus, Accepts, MeltdownInv, FreshCopies,
                  ClosesExpired
    <3>2. ~(cache.lastReconcile > 0)
      BY <1>a, <3>1, CopyRanges DEF CachesBehind
    <3> QED
      BY <1>a, <2>1, <2>3, <3>2, OwnWriteFields, OwnWrites DEF CachesBehind
  <2> QED
    BY <1>21, <2>2, <2>3 DEF StatusReplyLost
<1>23. CASE ChangeSpec
  <2>1. UNCHANGED <<refs, refsCache>>
    BY <1>23 DEF ChangeSpec
  <2> QED
    BY <1>a, <1>23, <2>1, ChangeSpecFields, CopyRanges DEF CachesBehind
<1>24. CASE ChangeRefs
  BY <1>24, BoundsAssumption
     DEF ChangeRefs, CachesBehind, MeltdownInv, TypeOK, CopiesOK, FreshCopies,
         BDPL, NoTime
<1>26. CASE StatusUpdate
  <2>1. UNCHANGED <<refs, refsCache>>
    BY <1>26 DEF StatusUpdate
  <2> QED
    BY <1>26, <2>1, StatusUpdateFields DEF CachesBehind
<1>30. CASE UserDeletesBDPL
  BY <1>30, CopyFields
     DEF UserDeletesBDPL, OutdateCopies, CachesBehind, MeltdownInv, TypeOK,
         CopiesOK, FreshCopies, BDPL, NoTime
<1>32. CASE Crash
  BY <1>32
     DEF Crash, CachesBehind, MeltdownInv, TypeOK, CopiesOK, FreshCopies,
         BDPL, NoTime
<1>q. CASE UNCHANGED <<bdpl, cache, refs, refsCache>>
  BY <1>q DEF CachesBehind
<1> QED
  BY <1>2, <1>4, <1>18, <1>19, <1>20, <1>21, <1>23, <1>24, <1>26, <1>30,
     <1>32, <1>q
     DEF Next, Reconcile, Environment, vars, locals, objects, history, lists,
         WatchQuarksStatefulSet, WatchService, LeaveCleanup, Get,
         RequeueAfterWindow, StatusUpdateRefused, ResolveManifest,
         ListQuarksStatefulSets, ListExcept, DeleteQuarksStatefulSet,
         ListServices, DeleteService, NextGroup, CleanupNotFound, CleanupDone,
         CreateQuarksSecret, CreateQuarksJob, CreateManifestWithOps,
         TimerExpires, CallFails, StatusGet, StatusSkip, RolloutGroup,
         UserDeletesQuarksStatefulSet, GarbageCollect

\* Whatever takes the signal away either deploys or leaves the stamp.
LEMMA CurrentNext ==
    ChangeInv /\ [Next]_vars => DeploysCurrent' /\ NoForgottenChange'
<1> SUFFICES ASSUME ChangeInv, [Next]_vars
             PROVE  DeploysCurrent' /\ NoForgottenChange'
  OBVIOUS
<1>a. /\ MeltdownInv
      /\ CopiesOK /\ bdpl \in BDPL /\ cache \in BDPL /\ own \in BDPL
      /\ queue \in QueueType(Window)
  BY DEF ChangeInv, MeltdownInv, TypeOK, CopiesOK
<1>1. CASE Get
  <2>1. UNCHANGED <<bdpl, refs, withOps, manifest, cache, refsCache>>
    BY <1>1 DEF Get, objects
  <2>2. CASE pc' = "idle"
    <3>1. ~cache.present \/ cache.lastReconcile > 0
      BY <1>1, <2>2 DEF Get, Goto, InMeltdown
    <3>2. ~bdpl.present \/ bdpl.lastReconcile # NoTime
      BY <1>a, <3>1, CopyRanges DEF ChangeInv, CachesBehind, NoTime
    <3> QED
      BY <2>1, <2>2, <3>2 DEF DeploysCurrent, NoForgottenChange, Deploying,
                              InHand
  <2>3. CASE pc' \in {"open", "close"}
    BY <2>3 DEF DeploysCurrent, NoForgottenChange, Deploying, InHand
  <2> QED
    BY <1>1, <2>2, <2>3 DEF Get, Goto
<1>2. CASE StartMeltdown
  BY <1>2, CopyFields, WrittenFields, OwnWrites
     DEF StartMeltdown, Goto, WriteOwnStatus, Accepts, ChangeInv,
         CachesBehind, DeploysCurrent, NoForgottenChange, Signalled,
         SpecSignalled, SpecDeployed, RefsDeployed, InHand, Deploying,
         MeltdownInv, TypeOK, CopiesOK, locals, objects, history
<1>3. CASE RequeueAfterWindow
  BY <1>3, QueueFields, Delays
     DEF RequeueAfterWindow, Done, ChangeInv, CachesBehind, DeploysCurrent,
         NoForgottenChange, Signalled, SpecSignalled, SpecDeployed,
         RefsDeployed, InHand, Deploying, MeltdownInv, TypeOK, CopiesOK,
         locals, objects, history
<1>4. CASE EndMeltdown
  BY <1>4, CopyFields, WrittenFields, OwnWrites
     DEF EndMeltdown, Goto, WriteOwnStatus, Accepts, ChangeInv, CachesBehind,
         DeploysCurrent, NoForgottenChange, Signalled, SpecSignalled,
         SpecDeployed, RefsDeployed, InHand, Deploying, MeltdownInv, TypeOK,
         CopiesOK, locals, objects, history, BDPL, NoTime, FreshCopies
<1>5. CASE StatusUpdateRefused
  BY <1>5, QueueFields, Delays
     DEF StatusUpdateRefused, Accepts, RetryFrom, Done, ChangeInv,
         CachesBehind, DeploysCurrent, NoForgottenChange, Signalled,
         SpecSignalled, SpecDeployed, RefsDeployed, InHand, Deploying,
         MeltdownInv, TypeOK, CopiesOK, locals, objects, history
<1>6. CASE ResolveManifest
  BY <1>6
     DEF ResolveManifest, Goto, ChangeInv, CachesBehind, DeploysCurrent,
         NoForgottenChange, Signalled, SpecSignalled, SpecDeployed,
         RefsDeployed, InHand, Deploying, MeltdownInv, TypeOK, CopiesOK,
         locals, objects, history
<1>7. CASE ListQuarksStatefulSets
  BY <1>7
     DEF ListQuarksStatefulSets, ListExcept, Goto, ChangeInv, CachesBehind,
         DeploysCurrent, NoForgottenChange, Signalled, SpecSignalled,
         SpecDeployed, RefsDeployed, InHand, Deploying, MeltdownInv, TypeOK,
         CopiesOK, locals, objects, history
<1>8. ASSUME NEW g \in IG, DeleteQuarksStatefulSet(g) PROVE DeploysCurrent' /\ NoForgottenChange'
  BY <1>8
     DEF DeleteQuarksStatefulSet, Goto, ChangeInv, CachesBehind,
         DeploysCurrent, NoForgottenChange, Signalled, SpecSignalled,
         SpecDeployed, RefsDeployed, InHand, Deploying, MeltdownInv, TypeOK,
         CopiesOK, locals, objects, history
<1>9. CASE ListServices
  BY <1>9
     DEF ListServices, Goto, ChangeInv, CachesBehind, DeploysCurrent,
         NoForgottenChange, Signalled, SpecSignalled, SpecDeployed,
         RefsDeployed, InHand, Deploying, MeltdownInv, TypeOK, CopiesOK,
         locals, objects, history
<1>10. ASSUME NEW s \in Services, DeleteService(s) PROVE DeploysCurrent' /\ NoForgottenChange'
  BY <1>10
     DEF DeleteService, ChangeInv, CachesBehind, DeploysCurrent,
         NoForgottenChange, Signalled, SpecSignalled, SpecDeployed,
         RefsDeployed, InHand, Deploying, MeltdownInv, TypeOK, CopiesOK,
         locals, objects, history
<1>11. CASE NextGroup
  BY <1>11
     DEF NextGroup, Goto, ChangeInv, CachesBehind, DeploysCurrent,
         NoForgottenChange, Signalled, SpecSignalled, SpecDeployed,
         RefsDeployed, InHand, Deploying, MeltdownInv, TypeOK, CopiesOK,
         locals, objects, history
<1>12. CASE CleanupNotFound
  BY <1>12
     DEF CleanupNotFound, LeaveCleanup, Goto, ChangeInv, CachesBehind,
         DeploysCurrent, NoForgottenChange, Signalled, SpecSignalled,
         SpecDeployed, RefsDeployed, InHand, Deploying, MeltdownInv, TypeOK,
         CopiesOK, locals, objects, history
<1>13. CASE CleanupDone
  BY <1>13
     DEF CleanupDone, LeaveCleanup, Goto, ChangeInv, CachesBehind,
         DeploysCurrent, NoForgottenChange, Signalled, SpecSignalled,
         SpecDeployed, RefsDeployed, InHand, Deploying, MeltdownInv, TypeOK,
         CopiesOK, locals, objects, history
<1>14. ASSUME NEW v \in Var, CreateQuarksSecret(v) PROVE DeploysCurrent' /\ NoForgottenChange'
  BY <1>14
     DEF CreateQuarksSecret, ChangeInv, CachesBehind, DeploysCurrent,
         NoForgottenChange, Signalled, SpecSignalled, SpecDeployed,
         RefsDeployed, InHand, Deploying, MeltdownInv, TypeOK, CopiesOK,
         locals, objects, history
<1>15. CASE CreateQuarksJob
  BY <1>15
     DEF CreateQuarksJob, Goto, ChangeInv, CachesBehind, DeploysCurrent,
         NoForgottenChange, Signalled, SpecSignalled, SpecDeployed,
         RefsDeployed, InHand, Deploying, MeltdownInv, TypeOK, CopiesOK,
         locals, objects, history
<1>16. CASE CreateManifestWithOps
  <2>1. /\ pc = "withops" /\ withOps' = manifest /\ pc' = "idle"
        /\ UNCHANGED <<bdpl, refs, cache, refsCache, queue, swallowed>>
    BY <1>16 DEF CreateManifestWithOps, Done, history
  <2>2. manifest \in Manifests
    BY <2>1 DEF ChangeInv, MeltdownInv, TypeOK, Deploying
  <2>3. withOps' # NoManifest
    BY <2>1, <2>2 DEF Manifests, NoManifest
  <2> QED
    BY <2>1, <2>3
       DEF ChangeInv, DeploysCurrent, NoForgottenChange, Signalled,
           SpecSignalled, SpecDeployed, RefsDeployed, Deploying
<1>17. CASE TimerExpires
  BY <1>17, QueueFields
     DEF TimerExpires, ChangeInv, CachesBehind, DeploysCurrent,
         NoForgottenChange, Signalled, SpecSignalled, SpecDeployed,
         RefsDeployed, InHand, Deploying, MeltdownInv, TypeOK, CopiesOK,
         locals, objects, history
<1>18. CASE WatchBDPL
  <2>1. UNCHANGED <<bdpl, refs, refsCache, pc, own, manifest, withOps>>
    BY <1>18 DEF WatchBDPL, FollowBDPL, locals, objects
  <2>2. CASE queue'.dirty
    BY <2>2 DEF DeploysCurrent, NoForgottenChange, Signalled, SpecSignalled
  <2>3. CASE ~bdpl.present
    BY <2>1, <2>3 DEF DeploysCurrent, NoForgottenChange
  <2>4. CASE cache.spec = bdpl.spec /\ UNCHANGED <<queue, swallowed>>
    BY <2>1, <2>4
       DEF ChangeInv, DeploysCurrent, NoForgottenChange, Signalled,
           SpecSignalled, SpecDeployed, RefsDeployed, InHand
  <2> QED
    BY <1>18, <1>a, <2>2, <2>3, <2>4, QueueFields DEF WatchBDPL, FollowBDPL
<1>19. CASE WatchRefs
  <2>2. UNCHANGED <<bdpl, cache, pc, own, manifest, refs, withOps>>
    BY <1>19 DEF WatchRefs, locals, objects
  <2>4. CASE queue'.dirty
    BY <2>4 DEF DeploysCurrent, NoForgottenChange, Signalled, SpecSignalled,
                InHand
  <2>5. CASE swallowed' /\ queue' = queue
    BY <2>2, <2>5
       DEF ChangeInv, DeploysCurrent, NoForgottenChange, Signalled,
           SpecSignalled, SpecDeployed, RefsDeployed, InHand, Deploying
  <2> QED
    BY <1>19, <1>a, <2>4, <2>5, QueueFields DEF WatchRefs
<1>20. CASE Tick
  <2>1. UNCHANGED <<refs, refsCache, pc, manifest, withOps, swallowed>>
    BY <1>20 DEF Tick, objects, history
  <2>2. (Signalled => Signalled') /\ (SpecSignalled => SpecSignalled')
    BY <1>a, <1>20, <2>1, TickFields, QueueFields DEF Tick, Signalled,
                                                      SpecSignalled, InHand
  <2>3. bdpl.lastReconcile # NoTime => bdpl'.lastReconcile # NoTime
    BY <1>a, <1>20, TickFields, CopyRanges DEF Countdown, NoTime
  <2> QED
    BY <1>a, <1>20, <2>1, <2>2, <2>3, TickFields
       DEF ChangeInv, DeploysCurrent, NoForgottenChange, SpecDeployed,
           RefsDeployed, InHand
<1>21. CASE StatusReplyLost
  BY <1>21, CopyFields, WrittenFields, OwnWrites, QueueFields, Delays
     DEF StatusReplyLost, RetryFrom, Done, WriteOwnStatus, Accepts, ChangeInv,
         CachesBehind, DeploysCurrent, NoForgottenChange, Signalled,
         SpecSignalled, SpecDeployed, RefsDeployed, InHand, Deploying,
         MeltdownInv, TypeOK, CopiesOK, locals, objects, history
<1>22. CASE CallFails
  <2>1. PICK entry \in {queue, Take(queue)} :
            \E delay \in 0 .. Backoff : queue' = AddAfter(entry, delay)
    BY <1>22 DEF CallFails, RetryFrom
  <2>2. entry \in QueueType(Window)
    BY <1>a, <2>1, QueueTypes
  <2>3. queue'.due # NotWaiting
    BY <2>1, <2>2, QueueFields, Delays
  <2> QED
    BY <2>3 DEF Signalled, SpecSignalled, DeploysCurrent, NoForgottenChange
<1>23. CASE ChangeSpec
  <2>1. cache'.spec # bdpl'.spec
    BY <1>a, <1>23, ChangeSpecFields, CopyRanges DEF ChangeInv, CachesBehind
  <2> QED
    BY <2>1 DEF Signalled, SpecSignalled, DeploysCurrent, NoForgottenChange
<1>24. CASE ChangeRefs
  BY <1>24, BoundsAssumption
     DEF ChangeRefs, ChangeInv, CachesBehind, DeploysCurrent,
         NoForgottenChange, Signalled, SpecSignalled, SpecDeployed,
         RefsDeployed, InHand, Deploying, MeltdownInv, TypeOK, CopiesOK,
         locals, objects, history
<1>25. CASE StatusGet
  BY <1>25
     DEF StatusGet, ChangeInv, CachesBehind, DeploysCurrent,
         NoForgottenChange, Signalled, SpecSignalled, SpecDeployed,
         RefsDeployed, InHand, Deploying, MeltdownInv, TypeOK, CopiesOK,
         locals, objects, history
<1>26. CASE StatusUpdate
  <2>1. UNCHANGED <<refs, refsCache, queue, pc, manifest, withOps, swallowed>>
    BY <1>26 DEF StatusUpdate, objects, history
  <2>2. /\ bdpl'.spec = bdpl.spec /\ bdpl'.present = bdpl.present
        /\ bdpl'.lastReconcile = bdpl.lastReconcile
        /\ cache'.spec = cache.spec /\ own'.spec = own.spec
    BY <1>a, <1>26, StatusUpdateFields
  <2> QED
    BY <2>1, <2>2 DEF ChangeInv, DeploysCurrent, NoForgottenChange, Signalled,
                      SpecSignalled, SpecDeployed, RefsDeployed, InHand
<1>27. CASE StatusSkip
  BY <1>27
     DEF StatusSkip, ChangeInv, CachesBehind, DeploysCurrent,
         NoForgottenChange, Signalled, SpecSignalled, SpecDeployed,
         RefsDeployed, InHand, Deploying, MeltdownInv, TypeOK, CopiesOK,
         locals, objects, history
<1>28. ASSUME NEW g \in IG, RolloutGroup(g) PROVE DeploysCurrent' /\ NoForgottenChange'
  BY <1>28
     DEF RolloutGroup, ChangeInv, CachesBehind, DeploysCurrent,
         NoForgottenChange, Signalled, SpecSignalled, SpecDeployed,
         RefsDeployed, InHand, Deploying, MeltdownInv, TypeOK, CopiesOK,
         locals, objects, history
<1>29. ASSUME NEW g \in IG, UserDeletesQuarksStatefulSet(g) PROVE DeploysCurrent' /\ NoForgottenChange'
  BY <1>29
     DEF UserDeletesQuarksStatefulSet, ChangeInv, CachesBehind,
         DeploysCurrent, NoForgottenChange, Signalled, SpecSignalled,
         SpecDeployed, RefsDeployed, InHand, Deploying, MeltdownInv, TypeOK,
         CopiesOK, locals, objects, history
<1>30. CASE UserDeletesBDPL
  BY <1>30, CopyFields
     DEF UserDeletesBDPL, OutdateCopies, ChangeInv, CachesBehind,
         DeploysCurrent, NoForgottenChange, Signalled, SpecSignalled,
         SpecDeployed, RefsDeployed, InHand, Deploying, MeltdownInv, TypeOK,
         CopiesOK, locals, objects, history, BDPL, NoTime
<1>31. CASE GarbageCollect
  BY <1>31
     DEF GarbageCollect, ChangeInv, CachesBehind, DeploysCurrent,
         NoForgottenChange, Signalled, SpecSignalled, SpecDeployed,
         RefsDeployed, InHand, Deploying, MeltdownInv, TypeOK, CopiesOK,
         locals, objects, history
<1>32. CASE Crash
  BY <1>32
     DEF Crash, Done, ChangeInv, CachesBehind, DeploysCurrent,
         NoForgottenChange, Signalled, SpecSignalled, SpecDeployed,
         RefsDeployed, InHand, Deploying, MeltdownInv, TypeOK, CopiesOK,
         locals, objects, history, EmptyQueue
<1>34. ASSUME NEW g \in IG, WatchQuarksStatefulSet(g)
       PROVE  DeploysCurrent' /\ NoForgottenChange'
  BY <1>34 DEF WatchQuarksStatefulSet, ChangeInv, DeploysCurrent,
               NoForgottenChange, Signalled, SpecSignalled, SpecDeployed,
               RefsDeployed, InHand, locals, objects, history
<1>35. ASSUME NEW s \in Services, WatchService(s)
       PROVE  DeploysCurrent' /\ NoForgottenChange'
  BY <1>35 DEF WatchService, ChangeInv, DeploysCurrent, NoForgottenChange,
               Signalled, SpecSignalled, SpecDeployed, RefsDeployed, InHand,
               locals, objects, history
<1>33. CASE UNCHANGED vars
  BY <1>33 DEF vars, locals, objects, history, ChangeInv, DeploysCurrent,
      NoForgottenChange,
     Signalled, SpecSignalled, SpecDeployed, RefsDeployed, InHand
<1> QED
  BY <1>1, <1>2, <1>3, <1>4, <1>5, <1>6, <1>7, <1>8, <1>9, <1>10, <1>11,
     <1>12, <1>13, <1>14, <1>15, <1>16, <1>17, <1>18, <1>19, <1>20, <1>21, <1>22,
     <1>23, <1>24, <1>25, <1>26, <1>27, <1>28, <1>29, <1>30, <1>31, <1>32, <1>33,
     <1>34, <1>35
     DEF Next, Reconcile, Environment

\* Nothing is forgotten when the BOSHDeployment is created.
LEMMA ChangeInit == Init => ChangeInv
<1> SUFFICES ASSUME Init PROVE ChangeInv
  OBVIOUS
<1>1. MeltdownInv
  BY MeltdownInit
<1>2. bdpl.lastReconcile = NoTime /\ bdpl \in BDPL
  BY <1>1 DEF Init, NoCopy, MeltdownInv, TypeOK, CopiesOK
<1>3. CachesBehind
  <2>1. cache = bdpl /\ refsCache = 0 /\ refs = 0
    BY DEF Init
  <2> QED
    BY <1>2, <2>1, CopyRanges DEF CachesBehind, NoTime
<1>4. DeploysCurrent /\ NoForgottenChange
  BY DEF Init, DeploysCurrent, NoForgottenChange, Deploying, Signalled,
         SpecSignalled, Add,
         EmptyQueue
<1> QED
  BY <1>1, <1>3, <1>4 DEF ChangeInv

\* Every step keeps the invariant about pending changes.
LEMMA ChangeNext == ChangeInv /\ [Next]_vars => ChangeInv'
  BY MeltdownNext, CachesBehindNext, CurrentNext DEF ChangeInv

\* A change of the inputs is forgotten only with a stamp on the object, or when
\* a watch swallows the event of a referenced object.
THEOREM ChangesRemembered == Spec => []NoForgottenChange
<1>1. ChangeInv => NoForgottenChange
  BY DEF ChangeInv
<1> QED
  BY <1>1, ChangeInit, ChangeNext, PTL DEF Spec

==============================================================================
