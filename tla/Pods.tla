-------------------------------- MODULE Pods --------------------------------
(***************************************************************************)
(* What the operator does to pods that are not its own: two mutating       *)
(* webhooks mount BOSH links into entangled pods (quarkslink) and make     *)
(* pods wait for services (waitservice, the "wait" command), the restart   *)
(* controller touches the owner of a pod when a secret it refers to        *)
(* changes (quarksrestart), and a validating webhook keeps versioned       *)
(* secrets as they are (versionedsecret).                                  *)
(*                                                                         *)
(* A workload has one pod at a time; its pods follow each other as the     *)
(* workload controller of Kubernetes replaces them.  The restart           *)
(* controller and the webhooks read informer caches; the secret cache and  *)
(* the pod cache catch up independently.                                   *)
(***************************************************************************)
EXTENDS Naturals, FiniteSets

CONSTANTS
    Owners,     \* workloads
    KindsOf,    \* by workload: what may own its pods, see Kinds
    Links,      \* link secrets
    Consumes,   \* by workload: the links its pod template asks for
    Waits,      \* by workload: the workloads whose service it waits for
    MaxData,    \* bound: by link, versions of its data
    MaxPods,    \* bound: pods of a workload, one after the other
    MaxFaults   \* bound: failing calls and restarts of the operator

\* "QuarksStatefulSet": a StatefulSet owned by one.
Kinds == {"StatefulSet", "QuarksStatefulSet", "Deployment"}

ASSUME PodsAssumption ==
    /\ IsFiniteSet(Owners) /\ IsFiniteSet(Links)
    /\ KindsOf \in [Owners -> SUBSET Kinds]
    /\ Consumes \in [Owners -> SUBSET Links]
    /\ Waits \in [Owners -> SUBSET Owners]
    /\ MaxData \in [Links -> Nat] /\ MaxPods \in Nat /\ MaxFaults \in Nat

VARIABLES
    kind,      \* by workload: what owns its pods; never changes
    secret,    \* link secrets in the API server: [data, present, versioned]
    seen,      \* the same in the informer cache
    event,     \* by link: its last update event that is not mapped yet
    pod,       \* by workload: its pod
    podCache,  \* by workload: the pod in the informer cache
    rollout,   \* workloads whose template has changed since the pod's creation
    touched,   \* workloads whose restart annotation is of the current second
    queue,     \* names in the work queue of the restart controller
    requeue,   \* names it will get back after MeltdownRequeueAfter
    worker,    \* the restart reconcile that runs
    missed,    \* history: workloads whose running pod was not restarted for a
               \* change, for one of the reasons at Missed
    faults     \* failing calls and restarts left

vars == <<kind, secret, seen, event, pod, podCache, rollout, touched, queue, requeue,
          worker, missed, faults>>

cluster == <<kind, secret, seen, event, pod, rollout, touched>>

NoData == [l \in Links |-> 0]
NoEvents == [l \in Links |-> "none"]

NoPod(n) == [phase |-> "none", number |-> n, mounts |-> {}, restart |-> FALSE,
             env |-> NoData, stamp |-> FALSE]

\* Pods of a StatefulSet keep their name, those of a ReplicaSet do not.
Name(o, p) == IF kind[o] = "Deployment" THEN <<o, p.number>> ELSE <<o, 0>>

NoWork == [step |-> "idle", owner |-> CHOOSE o \in Owners : TRUE,
           copy |-> NoPod(0)]

------------------------------------------------------------------------------
(* Admission of pods.                                                       *)

\* validEntanglement
Entangled(o) == Consumes[o] # {}

\* findLinks: what the cache has of the links.
findLinks(o) == {l \in Consumes[o] : seen[l].present}

\* The pod as it is stored: made from the current template, with the links
\* that were found, and with the restart annotation or without it.
Admitted(o, restart) ==
    /\ pod' = [pod EXCEPT ![o] = [@ EXCEPT !.phase = "init",
                                           !.mounts = findLinks(o),
                                           !.restart = restart]]
    /\ rollout' = rollout \ {o}
    /\ UNCHANGED <<kind, secret, seen, event, podCache, touched, queue, requeue,
                   worker, missed, faults>>

CreateUnannotated(o) ==
    /\ pod[o].phase = "none"
    /\ Entangled(o) => findLinks(o) # {}
    /\ Admitted(o, FALSE)

\* Handle and addSecrets of quarkslink, Handle and addInitContainer of
\* waitservice: an entangled pod without any link is refused, one with some of
\* its links is not.
CreatePod(o) ==
    /\ pod[o].phase = "none"
    /\ Entangled(o) => findLinks(o) # {}
    /\ Admitted(o, Entangled(o))

\* The wait command finds an address for every service; then the kubelet
\* starts the containers with the data the secrets have at that time.
Resolves(o) == pod[o].phase = "running"

StartAllowed(o) ==
    /\ \A s \in Waits[o] : Resolves(s)
    /\ \A l \in pod[o].mounts : secret[l].present

Start(o) ==
    /\ pod[o].phase = "init" /\ StartAllowed(o)
    /\ pod' = [pod EXCEPT ![o].phase = "running",
                          ![o].env = [l \in Links |-> IF l \in pod[o].mounts
                                                      THEN secret[l].data ELSE 0]]
    /\ missed' = missed \ {o}
    /\ UNCHANGED <<kind, secret, seen, event, podCache, rollout, touched, queue, requeue,
                   worker, faults>>

\* The workload's controller replaces the pod.
Replace(o) ==
    /\ o \in rollout /\ pod[o].phase # "none" /\ pod[o].number < MaxPods
    /\ pod' = [pod EXCEPT ![o] = NoPod(pod[o].number + 1)]
    /\ UNCHANGED <<kind, secret, seen, event, podCache, rollout, touched, queue, requeue,
                   worker, missed, faults>>

------------------------------------------------------------------------------
(* Secrets.                                                                 *)

\* Handle of the validator: the data of a secret that was versioned stays.
\* The label itself may go.
Allowed(old, new) == old.versioned => new.data = old.data

WriteSecret(l, new) ==
    /\ secret' = [secret EXCEPT ![l] = new]
    /\ UNCHANGED <<kind, seen, event, pod, podCache, rollout, touched, queue, requeue, worker,
                   missed, faults>>

UpdateSecret(l) ==
    /\ secret[l].present
    /\ \E new \in [data : {secret[l].data, secret[l].data + 1} \cap 0 .. MaxData[l],
                   present : {TRUE}, versioned : {secret[l].versioned, FALSE}] :
         Allowed(secret[l], new) /\ WriteSecret(l, new)

DeleteSecret(l) ==
    /\ secret[l].present /\ secret[l].data < MaxData[l]
    /\ WriteSecret(l, [secret[l] EXCEPT !.present = FALSE])

CreateSecret(l) ==
    /\ ~secret[l].present
    /\ WriteSecret(l, [data |-> secret[l].data + 1, present |-> TRUE,
                       versioned |-> FALSE])

------------------------------------------------------------------------------
(* The watch of the restart controller.                                     *)

Cached(n) == {o \in Owners : podCache[o].phase # "none" /\ Name(o, podCache[o]) = n}

\* Only updates with other data pass.
UpdateFunc(old, new) == old.present /\ new.present /\ old.data # new.data

\* GetReconcilesForPod: pods that refer to the secret and have the annotation.
GetReconcilesForPod(l) ==
    {Name(o, podCache[o]) :
       o \in {u \in Owners : l \in podCache[u].mounts /\ podCache[u].restart}}

\* The cache has no pod of that name that mounts the secret.
Uncached(o, l) ==
    l \notin podCache[o].mounts \/ Name(o, podCache[o]) # Name(o, pod[o])

\* Running pods with older data than the cache now has of the secret.
Behind(l, data) ==
    {o \in Owners : /\ pod[o].phase = "running" /\ l \in pod[o].mounts
                    /\ pod[o].env[l] < data}

\* The cache follows the server.  An update with other data is an event for
\* the mapping; any other update leaves a pending event with an object that is
\* no longer the cached one; a secret that is created anew is no update.
Watch(l) ==
    /\ seen[l] # secret[l]
    /\ seen' = [seen EXCEPT ![l] = secret[l]]
    /\ event' = [event EXCEPT ![l] = IF UpdateFunc(seen[l], secret[l]) THEN "live"
                                     ELSE IF @ = "none" THEN "none" ELSE "outdated"]
    /\ missed' = IF seen[l].present THEN missed
                 ELSE missed \cup Behind(l, secret[l].data)
    /\ UNCHANGED <<kind, secret, pod, podCache, rollout, touched, queue, requeue, worker,
                   faults>>

\* An update of other fields than the data reaches the cache.
TouchSecret(l) ==
    /\ seen[l].present /\ event[l] = "live"
    /\ event' = [event EXCEPT ![l] = "outdated"]
    /\ UNCHANGED <<kind, secret, seen, pod, podCache, rollout, touched, queue, requeue,
                   worker, missed, faults>>

\* The mapping of an event: the pods of the cache, none when the object is not
\* the one in the cache (skip.Reconciles).
HandleEvent(l) ==
    /\ event[l] # "none"
    /\ event' = [event EXCEPT ![l] = "none"]
    /\ \/ /\ event[l] = "live"
          /\ queue' = queue \cup GetReconcilesForPod(l)
          /\ missed' = missed \cup {o \in Behind(l, seen[l].data) : Uncached(o, l)}
       \/ /\ event[l] = "outdated"
          /\ missed' = missed \cup Behind(l, seen[l].data)
          /\ UNCHANGED queue
    /\ UNCHANGED <<kind, secret, seen, pod, podCache, rollout, touched, requeue, worker,
                   faults>>

\* GetReconcilesForPod fails: logged, and nothing is queued.
MappingFails(l) ==
    /\ event[l] = "live" /\ faults > 0
    /\ faults' = faults - 1
    /\ event' = [event EXCEPT ![l] = "none"]
    /\ missed' = missed \cup Behind(l, seen[l].data)
    /\ UNCHANGED <<kind, secret, seen, pod, podCache, rollout, touched, queue, requeue,
                   worker>>

WatchPod(o) ==
    /\ podCache[o] # pod[o]
    /\ podCache' = [podCache EXCEPT ![o] = pod[o]]
    /\ UNCHANGED <<cluster, queue, requeue, worker, missed, faults>>

------------------------------------------------------------------------------
(* The restart reconcile.                                                   *)

Outdated(o) ==
    /\ pod[o].phase = "running"
    /\ \E l \in pod[o].mounts :
         secret[l].present /\ pod[o].env[l] # secret[l].data

\* Reconcile ends without a restart.
Missed(o) == missed' = IF Outdated(o) /\ o \notin rollout THEN missed \cup {o}
                       ELSE missed

\* The pod is not found: a new pod of the same name may not be in the cache.
SkipNotFound(n) ==
    /\ worker = NoWork /\ n \in queue /\ Cached(n) = {}
    /\ queue' = queue \ {n}
    /\ Missed(n[1])
    /\ UNCHANGED <<cluster, podCache, requeue, worker, faults>>

\* The pod was restarted a short while ago: later.
RequeueMeltdown(n) ==
    /\ worker = NoWork /\ n \in queue
    /\ \E o \in Cached(n) : podCache[o].stamp
    /\ queue' = queue \ {n}
    /\ requeue' = requeue \cup {n}
    /\ UNCHANGED <<cluster, podCache, worker, missed, faults>>

Get(n) ==
    /\ worker = NoWork /\ n \in queue
    /\ \E o \in Cached(n) :
         /\ ~podCache[o].stamp
         /\ worker' = [step |-> "touch", owner |-> o, copy |-> podCache[o]]
    /\ queue' = queue \ {n}
    /\ UNCHANGED <<cluster, podCache, requeue, missed, faults>>

\* touchStatefulSet, touchDeployment: the annotation is the time in seconds;
\* the StatefulSet of a QuarksStatefulSet is left alone.
Touch ==
    LET o == worker.owner
    IN  /\ worker.step = "touch"
        /\ worker' = [worker EXCEPT !.step = "stamp"]
        /\ IF kind[o] = "QuarksStatefulSet" \/ o \in touched
           THEN UNCHANGED <<rollout, touched>> /\ Missed(o)
           ELSE /\ rollout' = rollout \cup {o}
                /\ touched' = touched \cup {o}
                /\ UNCHANGED missed
        /\ UNCHANGED <<kind, secret, seen, event, pod, podCache, queue, requeue, faults>>

\* The owner is not found, or the update fails: "Skip pod reconcile".
TouchFails ==
    /\ worker.step = "touch" /\ faults > 0
    /\ faults' = faults - 1
    /\ worker' = NoWork
    /\ Missed(worker.owner)
    /\ UNCHANGED <<cluster, podCache, queue, requeue>>

\* SetLastReconcile, Update: a conflict, when the pod is no longer the one
\* that was read, is only logged.
StampAndRequeue ==
    /\ worker.step = "stamp"
    /\ worker' = NoWork
    /\ requeue' = requeue \cup {Name(worker.owner, worker.copy)}
    /\ UNCHANGED <<cluster, podCache, queue, missed, faults>>

Stamp ==
    /\ worker.step = "stamp"
    /\ worker' = NoWork
    /\ pod' = IF pod[worker.owner] = worker.copy
              THEN [pod EXCEPT ![worker.owner].stamp = TRUE] ELSE pod
    /\ UNCHANGED <<kind, secret, seen, event, podCache, rollout, touched, queue, requeue,
                   missed, faults>>

RequeueAfter(n) ==
    /\ n \in requeue
    /\ requeue' = requeue \ {n} /\ queue' = queue \cup {n}
    /\ UNCHANGED <<cluster, podCache, worker, missed, faults>>

\* The operator restarts: queue, timers and events are gone, the caches are
\* filled anew, and the create events of the secrets are ignored.
Restart ==
    /\ faults > 0
    /\ faults' = faults - 1
    /\ seen' = secret /\ podCache' = pod /\ event' = NoEvents
    /\ queue' = {} /\ requeue' = {} /\ worker' = NoWork
    /\ missed' = missed \cup {o \in Owners \ rollout : Outdated(o)}
    /\ UNCHANGED <<kind, secret, pod, rollout, touched>>

\* The meltdown of a pod ends; the timestamp stays and no longer counts.
MeltdownEnds(o) ==
    /\ pod[o].stamp
    /\ pod' = [pod EXCEPT ![o].stamp = FALSE]
    /\ UNCHANGED <<kind, secret, seen, event, podCache, rollout, touched, queue, requeue,
                   worker, missed, faults>>

SecondEnds ==
    /\ touched # {} /\ touched' = {}
    /\ UNCHANGED <<kind, secret, seen, event, pod, podCache, rollout, queue, requeue, worker,
                   missed, faults>>

------------------------------------------------------------------------------
(* Specification *)

Names == Owners \X (0 .. MaxPods)

Init ==
    /\ kind \in [Owners -> Kinds] /\ \A o \in Owners : kind[o] \in KindsOf[o]
    /\ secret \in [Links -> [data : {0}, present : {FALSE}, versioned : {FALSE}]
                            \cup [data : {1}, present : {TRUE}, versioned : BOOLEAN]]
    /\ seen = secret /\ event = NoEvents
    /\ pod = [o \in Owners |-> NoPod(0)] /\ podCache = pod
    /\ rollout = {} /\ touched = {}
    /\ queue = {} /\ requeue = {} /\ worker = NoWork
    /\ missed = {} /\ faults = MaxFaults

Reconcile ==
    \/ \E n \in Names : SkipNotFound(n) \/ RequeueMeltdown(n) \/ Get(n)
    \/ Touch \/ Stamp

Next ==
    \/ \E o \in Owners : \/ CreatePod(o) \/ Start(o) \/ Replace(o) \/ WatchPod(o)
                         \/ MeltdownEnds(o)
    \/ \E l \in Links : UpdateSecret(l) \/ DeleteSecret(l) \/ CreateSecret(l) \/ Watch(l)
                        \/ TouchSecret(l) \/ HandleEvent(l) \/ MappingFails(l)
    \/ \E n \in Names : RequeueAfter(n)
    \/ Reconcile \/ TouchFails \/ Restart \/ SecondEnds

Spec == Init /\ [][Next]_vars

\* The informers, the worker, its timers, the clock and Kubernetes' own
\* controllers keep going.
Fairness ==
    /\ \A o \in Owners : /\ WF_vars(CreatePod(o)) /\ WF_vars(Start(o))
                         /\ WF_vars(Replace(o)) /\ WF_vars(WatchPod(o))
                         /\ WF_vars(MeltdownEnds(o))
    /\ \A l \in Links : WF_vars(Watch(l)) /\ WF_vars(HandleEvent(l))
    /\ \A n \in Names : WF_vars(RequeueAfter(n))
    /\ WF_vars(Reconcile) /\ WF_vars(SecondEnds)

FairSpec == Spec /\ Fairness

------------------------------------------------------------------------------
(* Properties *)

\* A pod whose owner the controller restarts runs with the current data of its
\* links in the end, or its last change is one of those that missed names: the
\* secret was created anew; its event was overtaken by an update of other
\* fields (restart_controller.go:72) or its mapping failed (:76); the pod was
\* not in the cache; the touch failed or fell into the second of the last one;
\* the operator restarted.  In particular the request that met a meltdown comes
\* back, although the restart has replaced the pod and its timestamp
\* (restart_reconciler.go:65, :73).
RestartedOrMissed ==
    <>[](\A o \in Owners : kind[o] # "QuarksStatefulSet" /\ Outdated(o)
                              /\ pod[o].number < MaxPods => o \in missed)

\* Once the secrets stay as they are, the restarts end: no request and no
\* timer is left (restart_reconciler.go:87).
RestartsCease == <>[](queue = {} /\ requeue = {} /\ worker = NoWork)
==============================================================================
