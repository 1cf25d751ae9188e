---------------------- MODULE BOSHDeploymentController ----------------------
(***************************************************************************)
(* The BOSHDeployment reconciler: deployment_controller.go (what triggers  *)
(* it) and deployment_reconciler.go (what one reconcile does), for the one *)
(* BOSHDeployment a namespace may hold.                                    *)
(*                                                                         *)
(* A reconcile is a sequence of calls to the API server.  Each call is a   *)
(* step of its own, so user changes, the status reconcilers, the BPM       *)
(* reconciler and operator crashes interleave with it.  Reads go through   *)
(* the manager's informer cache and may be stale; status writes carry the  *)
(* resource version of the copy that was read.                             *)
(*                                                                         *)
(* The meltdown: the first trigger only stamps Status.LastReconcile and    *)
(* asks to come back when the window is over; triggers inside the window   *)
(* are dropped; the first reconcile after it clears the stamp and deploys. *)
(***************************************************************************)
EXTENDS WorkQueue, FiniteSets

CONSTANTS
    IG,              \* names of instance groups
    Svc,             \* the services of an instance group, told apart
    Var,             \* names of explicit BOSH variables
    MaxSpec,         \* bound: how often the user edits the BOSHDeployment
    MaxRefs,         \* bound: how often a referenced object changes
    Groups,          \* instance groups of each manifest
    Vars,            \* explicit variables of each manifest
    Window,          \* ReconcileSkipDuration, in units of time
    Backoff,         \* bound: the longest delay of a rate-limited retry
    FaultKinds,      \* which faults the environment may inject
    MaxFaults,       \* bound: how many faults happen
    MaxStatusWrites  \* bound: how many writes the status reconcilers make

\* What the deployment is computed from: the spec of the BOSHDeployment, and
\* the ConfigMaps, Secrets and link provider services it refers to.
Manifests == (0 .. MaxSpec) \X (0 .. MaxRefs)

AllFaults == {"error", "lostReply", "crash", "userDelete", "deleteBDPL"}

ASSUME BoundsAssumption ==
    /\ MaxSpec \in Nat /\ MaxRefs \in Nat
    /\ Backoff \in Nat /\ MaxFaults \in Nat /\ MaxStatusWrites \in Nat

ASSUME WindowAssumption == Window \in Nat \ {0} /\ Backoff <= Window

ASSUME ManifestAssumption ==
    /\ Groups \in [Manifests -> SUBSET IG]
    /\ Vars \in [Manifests -> SUBSET Var]

ASSUME FaultAssumption == FaultKinds \subseteq AllFaults

VARIABLES
    bdpl,            \* the BOSHDeployment in the API server
    refs,            \* version of the objects it refers to
    cache,           \* the BOSHDeployment in the informer cache
    refsCache,       \* the referenced objects in the informer cache
    queue,           \* work queue entry of the BOSHDeployment
    pc,              \* the next call of the running reconcile
    own,             \* the copy of the BOSHDeployment the reconcile works on
    manifest,        \* the manifest the reconcile has resolved
    doomed,          \* QuarksStatefulSets it still has to delete
    doomedSvcs,      \* services it still has to delete
    unset,           \* QuarksSecrets it still has to apply
    status,          \* the status reconciler: its step and its copy
    statusWrites,    \* how many status writes are left
    qsts,            \* QuarksStatefulSets in the API server, by group
    services,        \* services in the API server
    quarksSecrets,   \* QuarksSecrets in the API server
    qJob,            \* manifest the instance group QuarksJob was built from
    withOps,         \* manifest in the with-ops secret
    faults,          \* how many faults are left
    sinceDeploy,     \* history: time since the last deploy, up to Window
    qstsCache,       \* QuarksStatefulSets in the informer cache
    servicesCache,   \* services in the informer cache
    redeployed,      \* history: groups rolled out since qsts was listed
    spared,          \* history: groups the cleanup has not seen or given up
    swallowed        \* history: a change of refs was read without a trigger

objects == <<qsts, services, quarksSecrets, qJob, withOps>>
lists == <<qstsCache, servicesCache>>
history == <<redeployed, spared, swallowed>>
locals == <<own, manifest, doomed, doomedSvcs, unset>>
vars == <<bdpl, refs, cache, refsCache, queue, pc, locals, status,
          statusWrites, objects, faults, sinceDeploy, history, lists>>

------------------------------------------------------------------------------
(* Types *)

NoTime == -1

NoManifest == <<>>

BDPLStateCreating == "Creating/Updating"
BDPLStateObserved == "Observed"  \* any state the status reconcilers compute

States == {"", BDPLStateCreating, BDPLStateObserved}

\* A copy of the BOSHDeployment.  Resource versions are only ever compared
\* with the server's, so a copy keeps the outcome: fresh means that the
\* object was not written since.  lastReconcile is NoTime for nil, otherwise
\* the time until the meltdown window it opened is over.
BDPL == [present : BOOLEAN, spec : 0 .. MaxSpec,
         lastReconcile : NoTime .. Window,
         state : States,
         fresh : BOOLEAN]

NoCopy == [present |-> FALSE, spec |-> 0, lastReconcile |-> NoTime,
           state |-> "", fresh |-> FALSE]

Calls == {"open", "close", "resolve", "list", "cleanup", "services",
          "deleteServices", "secrets", "withops"}

Steps == Calls \cup {"idle", "requeue"}

\* The steps of a deploy that has resolved its manifest.
Deploying == {"list", "cleanup", "services", "deleteServices", "secrets",
              "withops"}

Services == IG \X Svc

CopiesOK ==
    /\ bdpl \in BDPL /\ cache \in BDPL /\ own \in BDPL
    /\ status \in [busy : BOOLEAN, copy : BDPL]

ObjectsOK ==
    /\ qsts \subseteq IG
    /\ services \subseteq Services
    /\ quarksSecrets \subseteq Var
    /\ qJob \in Manifests \cup {NoManifest}
    /\ withOps \in Manifests \cup {NoManifest}
    /\ qstsCache \subseteq IG /\ servicesCache \subseteq Services
    /\ redeployed \subseteq IG /\ spared \subseteq IG

TypeOK ==
    /\ CopiesOK
    /\ ObjectsOK
    /\ refs \in 0 .. MaxRefs /\ refsCache \in 0 .. MaxRefs
    /\ queue \in QueueType(Window)
    /\ pc \in Steps
    /\ manifest \in Manifests \cup {NoManifest}
    /\ pc \in Deploying => manifest \in Manifests
    /\ doomed \subseteq IG
    /\ doomedSvcs \subseteq Services
    /\ unset \subseteq Var
    /\ statusWrites \in 0 .. MaxStatusWrites
    /\ faults \in 0 .. MaxFaults
    /\ sinceDeploy \in 0 .. Window
    /\ swallowed \in BOOLEAN

------------------------------------------------------------------------------
(* Helpers *)

Stale(copy) == [copy EXCEPT !.fresh = FALSE]

\* The fields a Status().Update writes.
WithStatus(copy) == [bdpl EXCEPT !.lastReconcile = copy.lastReconcile,
                                 !.state = copy.state]

\* Faulty variant: the write carries no resource version.
AcceptsAlways(copy) == TRUE

\* The API server's optimistic lock: a write that carries an outdated resource
\* version, or the one of a deleted object, is refused.
Accepts(copy) == copy.fresh

\* Faulty variant: the window ends one unit too early.
InShortMeltdown(copy) == copy.lastReconcile > 1

\* meltdown.NewWindow(ReconcileSkipDuration, LastReconcile).Contains(now)
InMeltdown(copy) == copy.lastReconcile > 0

Fault(kind) ==
    /\ kind \in FaultKinds
    /\ faults > 0
    /\ faults' = faults - 1

ForgetLocals ==
    /\ own' = NoCopy
    /\ manifest' = NoManifest
    /\ doomed' = {}
    /\ doomedSvcs' = {}
    /\ unset' = {}

\* The reconcile returns without an error.
Done ==
    /\ pc' = "idle"
    /\ ForgetLocals

\* Faulty variant: the error is logged and swallowed.
SwallowedFrom(entry) ==
    /\ queue' = entry
    /\ Done

\* The reconcile returns an error: the queue retries it after a back-off.
RetryFrom(entry) ==
    /\ \E delay \in 0 .. Backoff : queue' = AddAfter(entry, delay)
    /\ Done

Goto(step) == pc' = step

------------------------------------------------------------------------------
(* One reconcile *)

\* Get the BOSHDeployment, from the cache.  It decides what this reconcile is:
\* nothing (deleted, or a meltdown is in progress), the start of a meltdown,
\* or a deploy.
Get ==
    /\ pc = "idle"
    /\ queue.dirty
    /\ queue' = Take(queue)
    /\ \/ /\ ~cache.present \/ InMeltdown(cache)
          /\ UNCHANGED <<pc, own>>
       \/ /\ cache.present /\ cache.lastReconcile = NoTime
          /\ own' = cache
          /\ Goto("open")
       \/ /\ cache.present /\ cache.lastReconcile # NoTime /\ ~InMeltdown(cache)
          /\ own' = cache
          /\ Goto("close")
    /\ UNCHANGED <<bdpl, refs, cache, refsCache, manifest, doomed, doomedSvcs,
                   unset, status, statusWrites, objects, faults, sinceDeploy,
                   history, lists>>

\* The status write that stamps or clears LastReconcile has reached the server.
WriteOwnStatus(copy) ==
    /\ Accepts(own)
    /\ bdpl' = WithStatus(copy)
    /\ cache' = Stale(cache)
    /\ status' = [status EXCEPT !.copy = Stale(@)]

\* Faulty variant: the stamp lies in the future.
OpenedAhead == [own EXCEPT !.lastReconcile = Window + 1]

Opened == [own EXCEPT !.lastReconcile = Window]

Closed == [own EXCEPT !.lastReconcile = NoTime, !.state = BDPLStateCreating]

StartMeltdown ==
    /\ pc = "open"
    /\ WriteOwnStatus(Opened)
    /\ own' = bdpl'
    /\ Goto("requeue")
    /\ UNCHANGED <<refs, refsCache, queue, manifest, doomed, doomedSvcs,
                   unset, statusWrites, objects, faults, sinceDeploy, history,
                   lists>>

\* return reconcile.Result{RequeueAfter: ReconcileSkipDuration}
RequeueAfterWindow ==
    /\ pc = "requeue"
    /\ queue' = AddAfter(queue, Window)
    /\ Done
    /\ UNCHANGED <<bdpl, refs, cache, refsCache, status, statusWrites,
                   objects, faults, sinceDeploy, history, lists>>

EndMeltdown ==
    /\ pc = "close"
    /\ WriteOwnStatus(Closed)
    /\ own' = bdpl'
    /\ Goto("resolve")
    /\ sinceDeploy' = 0
    /\ UNCHANGED <<refs, refsCache, queue, manifest, doomed, doomedSvcs,
                   unset, statusWrites, objects, faults, history, lists>>

\* Faulty variant: the reconcile goes on to deploy after a refused write.
RefusedWriteIgnored ==
    /\ pc \in {"open", "close"}
    /\ ~Accepts(own)
    /\ Goto(IF pc = "open" THEN "requeue" ELSE "resolve")
    /\ UNCHANGED <<bdpl, refs, cache, refsCache, queue, locals, status,
                   statusWrites, objects, faults, sinceDeploy, history,
                   lists>>

\* The copy is outdated, or its object is gone: the server refuses the write.
StatusUpdateRefused ==
    /\ pc \in {"open", "close"}
    /\ ~Accepts(own)
    /\ RetryFrom(queue)
    /\ UNCHANGED <<bdpl, refs, cache, refsCache, status, statusWrites,
                   objects, faults, sinceDeploy, history, lists>>

\* The server applies the write and the reconciler only sees a timeout.
StatusReplyLost ==
    /\ Fault("lostReply")
    /\ \/ pc = "open" /\ WriteOwnStatus(Opened)
       \/ pc = "close" /\ WriteOwnStatus(Closed)
    /\ RetryFrom(queue)
    /\ UNCHANGED <<refs, refsCache, statusWrites, objects, sinceDeploy,
                   history, lists>>

\* resolveManifest, then linkInfoService.List: reads only.
ResolveManifest ==
    /\ pc = "resolve"
    /\ manifest' = <<own.spec, refsCache>>
    /\ swallowed' = FALSE
    /\ Goto("list")
    /\ UNCHANGED <<bdpl, refs, cache, refsCache, queue, own, doomed,
                   doomedSvcs, unset, status, statusWrites, objects, faults,
                   sinceDeploy, redeployed, spared, lists>>

\* The groups a list of QuarksStatefulSets finds that are not in keep.
ListExcept(keep) ==
    /\ pc = "list"
    /\ doomed' = qstsCache \ keep
    /\ spared' = qsts \ qstsCache
    /\ redeployed' = {}
    /\ Goto("cleanup")
    /\ UNCHANGED <<bdpl, refs, cache, refsCache, queue, own, manifest,
                   doomedSvcs, unset, status, statusWrites, objects, faults,
                   sinceDeploy, swallowed, lists>>

\* Faulty variant: the groups of the manifest deployed last are kept.
ListAgainstWithOps ==
    ListExcept(IF withOps = NoManifest THEN IG ELSE Groups[withOps])

\* deleteQuarksStatefulSets: the groups the manifest no longer names.  The list
\* comes from the cache: it may lack a group that was just rolled out and may
\* hold one that is already gone.
ListQuarksStatefulSets == ListExcept(Groups[manifest])

\* Faulty variant: the variables of the manifest are not converted.
LeaveCleanupWithoutVariables ==
    /\ doomed' = {}
    /\ doomedSvcs' = {}
    /\ unset' = {}
    /\ Goto("secrets")

\* The cleanup is over, after all groups or after the first NotFound; the
\* variables of the manifest are converted to QuarksSecrets.
LeaveCleanup ==
    /\ doomed' = {}
    /\ doomedSvcs' = {}
    /\ unset' = Vars[manifest]
    /\ Goto("secrets")

DeleteQuarksStatefulSet(g) ==
    /\ pc = "cleanup"
    /\ g \in doomed
    /\ g \in qsts
    /\ qsts' = qsts \ {g}
    /\ doomedSvcs' = {g} \X Svc
    /\ doomed' = doomed \ {g}
    /\ Goto("services")
    /\ UNCHANGED <<bdpl, refs, cache, refsCache, queue, own, manifest, unset,
                   status, statusWrites, services, quarksSecrets, qJob,
                   withOps, faults, sinceDeploy, history, lists>>

\* List the services that carry the label of the deleted group, in the cache.
ListServices ==
    /\ pc = "services"
    /\ doomedSvcs' = servicesCache \cap doomedSvcs
    /\ Goto("deleteServices")
    /\ UNCHANGED <<bdpl, refs, cache, refsCache, queue, own, manifest, doomed,
                   unset, status, statusWrites, objects, faults, sinceDeploy,
                   history, lists>>

DeleteService(s) ==
    /\ pc = "deleteServices"
    /\ s \in doomedSvcs
    /\ s \in services
    /\ services' = services \ {s}
    /\ doomedSvcs' = doomedSvcs \ {s}
    /\ UNCHANGED <<bdpl, refs, cache, refsCache, queue, pc, own, manifest,
                   doomed, unset, status, statusWrites, qsts, quarksSecrets,
                   qJob, withOps, faults, sinceDeploy, history, lists>>

NextGroup ==
    /\ pc = "deleteServices"
    /\ doomedSvcs = {}
    /\ Goto("cleanup")
    /\ UNCHANGED <<bdpl, refs, cache, refsCache, queue, locals, status,
                   statusWrites, objects, faults, sinceDeploy, history,
                   lists>>

\* A listed object is gone when its turn comes: deleteQuarksStatefulSets
\* returns nil at once, whatever is left to delete.
CleanupNotFound ==
    /\ \/ pc = "cleanup" /\ \E g \in doomed : g \notin qsts
       \/ pc = "deleteServices" /\ \E s \in doomedSvcs : s \notin services
    /\ spared' = spared \cup doomed
    /\ LeaveCleanup
    /\ UNCHANGED <<bdpl, refs, cache, refsCache, queue, own, manifest, status,
                   statusWrites, objects, faults, sinceDeploy, redeployed,
                   swallowed, lists>>

CleanupDone ==
    /\ pc = "cleanup"
    /\ doomed = {}
    /\ LeaveCleanup
    /\ UNCHANGED <<bdpl, refs, cache, refsCache, queue, own, manifest, status,
                   statusWrites, objects, faults, sinceDeploy, history,
                   lists>>

CreateQuarksSecret(v) ==
    /\ pc = "secrets"
    /\ v \in unset
    /\ quarksSecrets' = quarksSecrets \cup {v}
    /\ unset' = unset \ {v}
    /\ UNCHANGED <<bdpl, refs, cache, refsCache, queue, pc, own, manifest,
                   doomed, doomedSvcs, status, statusWrites, qsts, services,
                   qJob, withOps, faults, sinceDeploy, history, lists>>

CreateQuarksJob ==
    /\ pc = "secrets"
    /\ unset = {}
    /\ qJob' = manifest
    /\ Goto("withops")
    /\ UNCHANGED <<bdpl, refs, cache, refsCache, queue, locals, status,
                   statusWrites, qsts, services, quarksSecrets, withOps,
                   faults, sinceDeploy, history, lists>>

CreateManifestWithOps ==
    /\ pc = "withops"
    /\ withOps' = manifest
    /\ Done
    /\ UNCHANGED <<bdpl, refs, cache, refsCache, queue, status, statusWrites,
                   qsts, services, quarksSecrets, qJob, faults, sinceDeploy,
                   history, lists>>

\* A call fails.  Every call of the reconciler handles it the same way: the
\* error is returned and what was done before it stays.
CallFails ==
    /\ Fault("error")
    /\ \/ pc \in Calls /\ RetryFrom(queue)
       \/ pc = "idle" /\ queue.dirty /\ RetryFrom(Take(queue))
    /\ UNCHANGED <<bdpl, refs, cache, refsCache, status, statusWrites,
                   objects, sinceDeploy, history, lists>>

Reconcile ==
    \/ Get
    \/ StartMeltdown
    \/ RequeueAfterWindow
    \/ EndMeltdown
    \/ StatusUpdateRefused
    \/ ResolveManifest
    \/ ListQuarksStatefulSets
    \/ \E g \in IG : DeleteQuarksStatefulSet(g)
    \/ ListServices
    \/ \E s \in Services : DeleteService(s)
    \/ NextGroup
    \/ CleanupNotFound
    \/ CleanupDone
    \/ \E v \in Var : CreateQuarksSecret(v)
    \/ CreateQuarksJob
    \/ CreateManifestWithOps

------------------------------------------------------------------------------
(* The work queue, the informers and time *)

TimerExpires ==
    /\ queue.due = 0
    /\ queue' = Expire(queue)
    /\ UNCHANGED <<bdpl, refs, cache, refsCache, pc, locals, status,
                   statusWrites, objects, faults, sinceDeploy, history,
                   lists>>

\* The cache follows the BOSHDeployment of the server.
FollowBDPL(triggers) ==
    /\ ~cache.fresh
    /\ cache' = bdpl
    /\ \/ /\ triggers
          /\ queue' = Add(queue)
          /\ swallowed' = FALSE
       \/ /\ ~triggers
          /\ UNCHANGED <<queue, swallowed>>
    /\ UNCHANGED <<bdpl, refs, refsCache, pc, locals, status, statusWrites,
                   objects, faults, sinceDeploy, redeployed, spared, lists>>

\* Faulty variant: the update predicate lets nothing pass.
WatchCreatedBDPL == FollowBDPL(FALSE)

\* The watch on BOSHDeployments: only a change of the spec is a trigger.
WatchBDPL == FollowBDPL(bdpl.present /\ cache.spec # bdpl.spec)

\* The watches on ConfigMaps, Secrets, Services and Endpoints.  The cache has
\* the new object, and its event is mapped to the BOSHDeployments that refer
\* to it; or the event is swallowed: by a predicate, because the cache has
\* moved on to the next version of the object, because the mapping fails or
\* does not find the reference.  Module References tells which of the two it
\* is for each object; here every event may go either way.
WatchRefs ==
    /\ refsCache # refs
    /\ refsCache' = refs
    /\ \/ /\ cache.present
          /\ queue' = Add(queue)
          /\ swallowed' = FALSE
       \/ /\ swallowed' = TRUE
          /\ UNCHANGED queue
    /\ UNCHANGED <<bdpl, refs, cache, pc, locals, status, statusWrites,
                   objects, faults, sinceDeploy, redeployed, spared, lists>>

Follow(known, existing, object) ==
    IF object \in existing THEN known \cup {object} ELSE known \ {object}

\* The caches the cleanup lists from catch up, one object at a time.
WatchQuarksStatefulSet(g) ==
    /\ (g \in qsts) # (g \in qstsCache)
    /\ qstsCache' = Follow(qstsCache, qsts, g)
    /\ UNCHANGED <<bdpl, refs, cache, refsCache, queue, pc, locals, status,
                   statusWrites, objects, faults, sinceDeploy, history,
                   servicesCache>>

WatchService(s) ==
    /\ (s \in services) # (s \in servicesCache)
    /\ servicesCache' = Follow(servicesCache, services, s)
    /\ UNCHANGED <<bdpl, refs, cache, refsCache, queue, pc, locals, status,
                   statusWrites, objects, faults, sinceDeploy, history,
                   qstsCache>>

TimeLeft ==
    \/ \E copy \in {bdpl, cache, own, status.copy} : copy.lastReconcile > 0
    \/ queue.due > 0
    \/ sinceDeploy < Window

Older(copy) == [copy EXCEPT !.lastReconcile = Countdown(@)]

Tick ==
    /\ TimeLeft
    /\ bdpl' = Older(bdpl)
    /\ cache' = Older(cache)
    /\ own' = Older(own)
    /\ status' = [status EXCEPT !.copy = Older(@)]
    /\ queue' = Elapse(queue)
    /\ sinceDeploy' = IF sinceDeploy < Window THEN sinceDeploy + 1
                                              ELSE sinceDeploy
    /\ UNCHANGED <<refs, refsCache, pc, manifest, doomed, doomedSvcs, unset,
                   statusWrites, objects, faults, history, lists>>

------------------------------------------------------------------------------
(* The rest of the operator and the cluster *)

\* A write to the BOSHDeployment by someone else outdates every copy.
OutdateCopies ==
    /\ cache' = Stale(cache)
    /\ own' = Stale(own)
    /\ status' = [status EXCEPT !.copy = Stale(@)]

ChangeSpec ==
    /\ bdpl.present
    /\ bdpl.spec < MaxSpec
    /\ bdpl' = [bdpl EXCEPT !.spec = @ + 1]
    /\ OutdateCopies
    /\ UNCHANGED <<refs, refsCache, queue, pc, manifest, doomed, doomedSvcs,
                   unset, statusWrites, objects, faults, sinceDeploy, history,
                   lists>>

ChangeRefs ==
    /\ refs < MaxRefs
    /\ refs' = refs + 1
    /\ UNCHANGED <<bdpl, cache, refsCache, queue, pc, locals, status,
                   statusWrites, objects, faults, sinceDeploy, history,
                   lists>>

\* A status reconciler reads the BOSHDeployment ...
StatusGet ==
    /\ ~status.busy
    /\ statusWrites > 0
    /\ cache.present
    /\ status' = [busy |-> TRUE, copy |-> cache]
    /\ UNCHANGED <<bdpl, refs, cache, refsCache, queue, pc, locals,
                   statusWrites, objects, faults, sinceDeploy, history,
                   lists>>

StatusIdle == [busy |-> FALSE, copy |-> NoCopy]

\* ... and, after counting jobs and instance groups, writes its whole status.
StatusUpdate ==
    /\ status.busy
    /\ statusWrites > 0
    /\ Accepts(status.copy)
    /\ bdpl' = WithStatus([status.copy EXCEPT !.state = BDPLStateObserved])
    /\ cache' = Stale(cache)
    /\ own' = Stale(own)
    /\ status' = StatusIdle
    /\ statusWrites' = statusWrites - 1
    /\ UNCHANGED <<refs, refsCache, queue, pc, manifest, doomed, doomedSvcs,
                   unset, objects, faults, sinceDeploy, history, lists>>

\* The write is refused, or there is nothing to update.
StatusSkip ==
    /\ status.busy
    /\ status' = StatusIdle
    /\ UNCHANGED <<bdpl, refs, cache, refsCache, queue, pc, locals,
                   statusWrites, objects, faults, sinceDeploy, history,
                   lists>>

\* The BPM reconciler deploys an instance group of the current manifest.
RolloutGroup(g) ==
    /\ bdpl.present
    /\ withOps # NoManifest
    /\ g \in Groups[withOps] \ qsts
    /\ qsts' = qsts \cup {g}
    /\ services' = services \cup ({g} \X Svc)
    /\ redeployed' = redeployed \cup {g}
    /\ UNCHANGED <<bdpl, refs, cache, refsCache, queue, pc, locals, status,
                   statusWrites, quarksSecrets, qJob, withOps, faults,
                   sinceDeploy, spared, swallowed, lists>>

UserDeletesQuarksStatefulSet(g) ==
    /\ Fault("userDelete")
    /\ g \in qsts
    /\ qsts' = qsts \ {g}
    /\ UNCHANGED <<bdpl, refs, cache, refsCache, queue, pc, locals, status,
                   statusWrites, services, quarksSecrets, qJob, withOps,
                   sinceDeploy, history, lists>>

UserDeletesBDPL ==
    /\ Fault("deleteBDPL")
    /\ bdpl.present
    /\ bdpl' = [bdpl EXCEPT !.present = FALSE]
    /\ OutdateCopies
    /\ UNCHANGED <<refs, refsCache, queue, pc, manifest, doomed, doomedSvcs,
                   unset, statusWrites, objects, sinceDeploy, history, lists>>

\* Everything the reconciler creates is owned by the BOSHDeployment.
GarbageCollect ==
    /\ ~bdpl.present
    /\ objects # <<{}, {}, {}, NoManifest, NoManifest>>
    /\ qsts' = {} /\ services' = {} /\ quarksSecrets' = {}
    /\ qJob' = NoManifest /\ withOps' = NoManifest
    /\ UNCHANGED <<bdpl, refs, cache, refsCache, queue, pc, locals, status,
                   statusWrites, faults, sinceDeploy, history, lists>>

\* The operator stops and starts again: its informers list everything anew
\* and report each object as created; its queues and timers are gone.
Crash ==
    /\ Fault("crash")
    /\ cache' = bdpl
    /\ refsCache' = refs
    /\ qstsCache' = qsts /\ servicesCache' = services
    /\ swallowed' = FALSE
    /\ queue' = [EmptyQueue EXCEPT !.dirty = bdpl.present]
    /\ Done
    /\ status' = StatusIdle
    /\ UNCHANGED <<bdpl, refs, statusWrites, objects, sinceDeploy, redeployed,
                   spared>>

------------------------------------------------------------------------------
(* Specification *)

\* The BOSHDeployment was just created and the create event is in the queue.
Init ==
    /\ bdpl = [NoCopy EXCEPT !.present = TRUE, !.fresh = TRUE]
    /\ cache = bdpl
    /\ refs = 0 /\ refsCache = 0
    /\ queue = Add(EmptyQueue)
    /\ pc = "idle"
    /\ own = NoCopy
    /\ manifest = NoManifest
    /\ doomed = {} /\ doomedSvcs = {} /\ unset = {}
    /\ status = StatusIdle
    /\ statusWrites = MaxStatusWrites
    /\ qsts = {} /\ services = {} /\ quarksSecrets = {}
    /\ qJob = NoManifest /\ withOps = NoManifest
    /\ faults = MaxFaults
    /\ sinceDeploy = 0
    /\ qstsCache = {} /\ servicesCache = {}
    /\ redeployed = {} /\ spared = {}
    /\ swallowed = FALSE

Environment ==
    \/ StatusReplyLost
    \/ CallFails
    \/ ChangeSpec
    \/ ChangeRefs
    \/ StatusGet
    \/ StatusUpdate
    \/ StatusSkip
    \/ \E g \in IG : RolloutGroup(g) \/ UserDeletesQuarksStatefulSet(g)
    \/ UserDeletesBDPL
    \/ GarbageCollect
    \/ Crash

Next ==
    \/ Reconcile
    \/ TimerExpires
    \/ WatchBDPL
    \/ WatchRefs
    \/ \E g \in IG : WatchQuarksStatefulSet(g)
    \/ \E s \in Services : WatchService(s)
    \/ Tick
    \/ Environment

Spec == Init /\ [][Next]_vars

\* The worker pool, the delaying queue, the watches and the clock keep going.
\* Users, faults and the other reconcilers owe nothing.
Fairness ==
    /\ WF_vars(Reconcile)
    /\ WF_vars(TimerExpires)
    /\ WF_vars(WatchBDPL)
    /\ WF_vars(WatchRefs)
    /\ WF_vars(Tick)

FairSpec == Spec /\ Fairness

------------------------------------------------------------------------------
(* Properties *)

Inputs == <<bdpl.spec, refs>>

SpecDeployed == withOps # NoManifest /\ withOps[1] = bdpl.spec

RefsDeployed == withOps # NoManifest /\ withOps[2] = refs

\* Everything is deployed that the watches have let through.
UpToDate == SpecDeployed /\ (RefsDeployed \/ swallowed)

\* The reconciler will be called, at the latest when the cache shows the spec.
SpecSignalled ==
    \/ queue.dirty
    \/ queue.due # NotWaiting
    \/ cache.spec # bdpl.spec

\* Something may make the reconciler look at the inputs again.
Signalled == SpecSignalled \/ refsCache # refs

\* The reconciler is running, or its stamp is on the BOSHDeployment.
InHand == pc # "idle" \/ bdpl.lastReconcile # NoTime

\* Two deploys are at least ReconcileSkipDuration apart, and so is the first
\* one from the creation: whatever the interleaving of triggers, failed calls,
\* stale reads and restarts, the meltdown merges what happens in between.
DeploysAreSpaced ==
    [][pc = "close" /\ pc' = "resolve" => sinceDeploy = Window]_vars

Debouncer == INSTANCE Debounce WITH
    inputs <- Inputs,
    present <- bdpl.present,
    stamp <- bdpl.lastReconcile,
    age <- sinceDeploy,
    running <- pc \in {"resolve"} \cup Deploying,
    published <- withOps

\* With its queue, caches, stale copies, refused writes, lost replies and
\* restarts the reconciler implements the debouncer: only a window that is over
\* starts a deploy, each deploy publishes at most once, and the with-ops
\* manifest is never replaced by an older one.
ImplementsDebounce == Debouncer!Spec

\* The status reconcilers write the whole status from a copy they read
\* earlier.  They never undo the meltdown stamp the BOSHDeployment reconciler
\* set or cleared in the meantime.
StatusWriterKeepsMeltdown ==
    [][StatusUpdate => bdpl'.lastReconcile = bdpl.lastReconcile]_vars

\* A change of the spec that is not in the with-ops manifest is never
\* forgotten: the reconciler is running or will be called, or the meltdown stamp
\* is still on the BOSHDeployment.  A change of a referenced object is forgotten
\* by nobody but the watches: its event was swallowed and no trigger came since
\* (module References names the events that are).  Refused and failed calls,
\* lost replies, triggers that a meltdown drops, and restarts lose nothing.
NoForgottenChange ==
    bdpl.present =>
        /\ SpecDeployed \/ SpecSignalled \/ InHand
        /\ RefsDeployed \/ Signalled \/ swallowed \/ InHand

\* When the with-ops secret shows up, everything the later stages look up for
\* it exists: its QuarksSecrets, and the instance group QuarksJob, built from
\* inputs that are at least as new.
WithOpsComesLast ==
    bdpl.present /\ withOps # NoManifest =>
        /\ Vars[withOps] \subseteq quarksSecrets
        /\ qJob # NoManifest
        /\ withOps[1] <= qJob[1]
        /\ withOps[2] <= qJob[2]

PastCleanup == pc \in {"secrets", "withops"}

\* After the cleanup only groups of the manifest have a QuarksStatefulSet,
\* except those the BPM reconciler rolled out again in the meantime, those the
\* list did not show because the cache was behind, and those still to be
\* deleted when a listed object turned out to be gone.
OrphanQuarksStatefulSetsDeleted ==
    PastCleanup => qsts \subseteq Groups[manifest] \cup redeployed \cup spared

\* The meltdown that nobody ends: the window is over, the stamp is still set
\* and nothing will call the reconciler.
StrandedMeltdown ==
    /\ pc = "idle"
    /\ ~Signalled
    /\ bdpl.lastReconcile = 0

\* Every change of the inputs that is not swallowed by a watch is deployed in
\* the end, unless its meltdown is stranded.  Failed calls, refused writes and
\* restarts are retried.
DeployedOrStranded ==
    []<>(~bdpl.present \/ UpToDate \/ StrandedMeltdown)

\* What "merging consecutive triggers" and the integration test that scales a
\* deployment three times in a row expect: every change a watch has noticed is
\* deployed in the end.
EveryChangeDeployed == []<>(~bdpl.present \/ UpToDate)

------------------------------------------------------------------------------
(* Why they hold: the inductive invariants of the proofs *)

\* A copy the server would accept is the server's object.
FreshCopies ==
    /\ bdpl.fresh
    /\ cache.fresh => cache = bdpl
    /\ own.fresh => own = bdpl
    /\ status.copy.fresh => status.copy = bdpl

\* A stamp is at least as young as the last deploy.
StampAfterDeploy ==
    bdpl.lastReconcile # NoTime =>
        sinceDeploy + bdpl.lastReconcile >= Window

\* A reconcile that ends the meltdown has read a stamp that was over.
ClosesExpired == pc = "close" => own.lastReconcile = 0

MeltdownInv ==
    /\ TypeOK
    /\ FreshCopies
    /\ StampAfterDeploy
    /\ ClosesExpired

\* The caches lag behind the server and never run ahead of it; a window that
\* the cache shows as running is running.
CachesBehind ==
    /\ cache.spec <= bdpl.spec
    /\ refsCache <= refs
    /\ bdpl.present => cache.present
    /\ cache.lastReconcile > 0 => bdpl.lastReconcile >= cache.lastReconcile

\* A deploy works on the current inputs, or another reconcile is on its way,
\* or a watch has swallowed the change.
DeploysCurrent ==
    bdpl.present =>
        /\ pc = "resolve" => own.spec = bdpl.spec \/ SpecSignalled
        /\ pc \in Deploying =>
             /\ manifest[1] = bdpl.spec \/ SpecSignalled
             /\ manifest[2] = refs \/ Signalled \/ swallowed

ChangeInv ==
    /\ MeltdownInv
    /\ CachesBehind
    /\ DeploysCurrent
    /\ NoForgottenChange

\* A reconcile that opens a meltdown has read a deployment without a stamp.
OpensUnstamped == pc = "open" => own.lastReconcile = NoTime

AtMost(m, n) == m[1] <= n[1] /\ m[2] <= n[2]

\* The inputs of a running deploy lie between what was written from the
\* inputs of earlier ones and what the user and the caches have by now.
DeploysMoveForward ==
    /\ pc = "resolve" => own.spec <= bdpl.spec
    /\ pc \in Deploying => AtMost(manifest, <<bdpl.spec, refsCache>>)
    /\ \A written \in {qJob, withOps} : written # NoManifest =>
         /\ AtMost(written, <<bdpl.spec, refsCache>>)
         /\ pc = "resolve" => written[1] <= own.spec
         /\ pc \in Deploying => AtMost(written, manifest)

\* What a deploy has created of the things that come before with-ops.
WrittenInOrder ==
    bdpl.present =>
        /\ pc = "secrets" => Vars[manifest] \subseteq quarksSecrets \cup unset
        /\ pc = "withops" => /\ Vars[manifest] \subseteq quarksSecrets
                             /\ qJob = manifest

OrderInv ==
    /\ ChangeInv
    /\ OpensUnstamped
    /\ DeploysMoveForward
    /\ WrittenInOrder
    /\ WithOpsComesLast

InCleanup == pc \in {"cleanup", "services", "deleteServices"}

\* While it runs, the cleanup knows of every group that has to go, but for
\* those its list did not show.
CleanupInv ==
    /\ TypeOK
    /\ OrphanQuarksStatefulSetsDeleted
    /\ InCleanup =>
         qsts \subseteq Groups[manifest] \cup redeployed \cup doomed \cup spared
==============================================================================
