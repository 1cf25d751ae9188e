---------------------------- MODULE BPMController ----------------------------
(***************************************************************************)
(* The BPM reconciler (bpm_controller.go, bpm_reconciler.go): every version*)
(* of an instance group's BPM secret is reconciled once, into the services *)
(* and the QuarksStatefulSet of the group, or into the QuarksJob of an     *)
(* errand.                                                                 *)
(*                                                                         *)
(* Around it: the BOSHDeployment reconciler removes groups that a new      *)
(* manifest drops and, later, the with-ops reconciler publishes that       *)
(* manifest as the new desired manifest; the instance group QuarksJob then *)
(* writes, in no particular order, a version of the ig-resolved and of the *)
(* BPM secret of each group.  A version is named after the desired manifest*)
(* it was computed from.  All secrets come from one ordered watch, so a    *)
(* late cache is a late write.                                             *)
(***************************************************************************)
EXTENDS Naturals, FiniteSets

CONSTANTS
    IG,           \* names of instance groups
    Errands,      \* the groups whose lifecycle is errand
    MaxVersion,   \* bound: how many desired manifests there are
    Members,      \* the instance groups of each of them
    MaxWorkers,   \* MaxBoshDeploymentWorkers
    FaultKinds,   \* which faults the environment may inject
    MaxFaults     \* bound: how many

Versions == 1 .. MaxVersion
Keys == IG \X Versions

ASSUME BPMAssumption ==
    /\ IsFiniteSet(IG) /\ Errands \subseteq IG
    /\ MaxVersion \in Nat \ {0}
    /\ Members \in [Versions -> SUBSET IG]
    /\ MaxWorkers \in Nat \ {0}
    /\ FaultKinds \subseteq {"error", "annotate", "crash"}
    /\ MaxFaults \in Nat

VARIABLES
    planned,    \* manifest the BOSHDeployment reconciler has deployed
    desired,    \* latest desired manifest
    dns,        \* whether the service of the DNS addon exists
    igResolved, \* latest ig-resolved secret, by group
    bpm,        \* BPM secrets, by group and version
    queue,      \* keys ready to be reconciled
    delayed,    \* keys that wait for a back-off or a RequeueAfter
    worker,     \* by key: the reconcile that holds it
    qJobs,      \* what the QuarksJobs of errands are built from
    services,   \* what the services are built from
    qsts,       \* what the QuarksStatefulSets are built from
    faults,     \* how many faults are left
    rolled      \* history: keys that were rolled out

inputs == <<planned, desired, dns, igResolved>>
outputs == <<qJobs, services, qsts>>
vars == <<inputs, bpm, queue, delayed, worker, outputs, faults, rolled>>

------------------------------------------------------------------------------
(* Types *)

\* The versions an object is built from; 0 where it does not exist.
Build == [bpm : 0 .. MaxVersion, manifest : 0 .. MaxVersion,
          ig : 0 .. MaxVersion]

Nothing == [bpm |-> 0, manifest |-> 0, ig |-> 0]

Steps == {"idle", "manifest", "dns", "apply", "errand", "services", "qsts",
          "annotate"}

\* What a worker deploys is built from secrets that exist.
Complete == [bpm : Versions, manifest : Versions, ig : Versions]

TypeOK ==
    /\ planned \in Versions /\ desired \in Versions
    /\ dns \in BOOLEAN
    /\ igResolved \in [IG -> 0 .. MaxVersion]
    /\ bpm \in [Keys -> {"none", "new", "annotated"}]
    /\ queue \subseteq Keys /\ delayed \subseteq Keys
    /\ worker \in [Keys -> [pc : Steps, build : Build]]
    /\ \A k \in Keys :
          /\ worker[k].pc \in {"dns", "apply"} =>
                /\ worker[k].build.bpm # 0
                /\ worker[k].build.manifest # 0
          /\ worker[k].pc \in {"errand", "services", "qsts"} =>
                worker[k].build \in Complete
    /\ qJobs \in [IG -> Build]
    /\ services \in [IG -> Build]
    /\ qsts \in [IG -> Build]
    /\ faults \in 0 .. MaxFaults
    /\ rolled \subseteq Keys

------------------------------------------------------------------------------
(* Helpers *)

Idle == [pc |-> "idle", build |-> Nothing]

Group(k) == k[1]
Version(k) == k[2]

Busy == {k \in Keys : worker[k].pc # "idle"}

Goto(k, step) ==
    worker' = [worker EXCEPT ![k] = [pc |-> step, build |-> @.build]]

Finish(k) == worker' = [worker EXCEPT ![k] = Idle]

\* Faulty variant: the reconcile returns no error and is forgotten.
GiveUp(k) ==
    /\ Finish(k)
    /\ delayed' = delayed

\* An error, or a result with RequeueAfter: the key comes back later.
Retry(k) ==
    /\ Finish(k)
    /\ delayed' = delayed \cup {k}

Fault(kind) ==
    /\ kind \in FaultKinds
    /\ faults > 0
    /\ faults' = faults - 1

------------------------------------------------------------------------------
(* One reconcile, of the BPM secret k *)

\* Get the secret.  One that carries a recent timestamp is put off.  The queue
\* keeps the order in which the versions of a group were added.
Get(k) ==
    /\ k \in queue
    /\ worker[k].pc = "idle"
    /\ \A v \in 1 .. Version(k) - 1 : <<Group(k), v>> \notin queue
    /\ Cardinality(Busy) < MaxWorkers
    /\ queue' = queue \ {k}
    /\ IF bpm[k] = "annotated" THEN Retry(k)
       ELSE Goto(k, "manifest") /\ delayed' = delayed
    /\ UNCHANGED <<inputs, bpm, outputs, faults, rolled>>

\* Faulty variant: the manifest is the one of the secret's own version.
ReadOwnManifest(k) ==
    /\ worker[k].pc = "manifest"
    /\ worker' = [worker EXCEPT ![k] =
           [pc |-> "dns",
            build |-> [bpm |-> Version(k), manifest |-> Version(k), ig |-> 0]]]
    /\ UNCHANGED <<inputs, bpm, queue, delayed, outputs, faults, rolled>>

\* The latest desired manifest is read, whatever the version of the secret.
ReadDesiredManifest(k) ==
    /\ worker[k].pc = "manifest"
    /\ worker' = [worker EXCEPT ![k] =
           [pc |-> "dns",
            build |-> [bpm |-> Version(k), manifest |-> desired, ig |-> 0]]]
    /\ UNCHANGED <<inputs, bpm, queue, delayed, outputs, faults, rolled>>

\* The manifest has a DNS addon, its service is needed.
GetDNSService(k) ==
    /\ worker[k].pc = "dns"
    /\ IF dns THEN Goto(k, "apply") /\ delayed' = delayed ELSE Retry(k)
    /\ UNCHANGED <<inputs, bpm, queue, outputs, faults, rolled>>

\* Faulty variant: a missing ig-resolved secret goes unnoticed.
ApplyWithoutIGResolved(k) ==
    /\ worker[k].pc = "apply"
    /\ IF Group(k) \in Members[worker[k].build.manifest]
       THEN /\ worker' = [worker EXCEPT ![k] =
                   [pc |-> IF Group(k) \in Errands THEN "errand"
                           ELSE "services",
                    build |-> [bpm |-> @.build.bpm,
                              manifest |-> @.build.manifest,
                              ig |-> igResolved[Group(k)]]]]
            /\ delayed' = delayed
       ELSE Retry(k)
    /\ UNCHANGED <<inputs, bpm, queue, outputs, faults, rolled>>

\* applyBPMResources: the group must be in the manifest (otherwise an error),
\* and its ig-resolved secret must exist (otherwise five seconds later).
ApplyBPMResources(k) ==
    /\ worker[k].pc = "apply"
    /\ IF /\ Group(k) \in Members[worker[k].build.manifest]
          /\ igResolved[Group(k)] # 0
       THEN /\ worker' = [worker EXCEPT ![k] =
                   [pc |-> IF Group(k) \in Errands THEN "errand"
                           ELSE "services",
                    build |-> [bpm |-> @.build.bpm,
                              manifest |-> @.build.manifest,
                              ig |-> igResolved[Group(k)]]]]
            /\ delayed' = delayed
       ELSE Retry(k)
    /\ UNCHANGED <<inputs, bpm, queue, outputs, faults, rolled>>

\* deployInstanceGroups: QuarksJobs, then services, then QuarksStatefulSets.
DeployErrand(k) ==
    /\ worker[k].pc = "errand"
    /\ qJobs' = [qJobs EXCEPT ![Group(k)] = worker[k].build]
    /\ rolled' = rolled \cup {k}
    /\ Goto(k, "annotate")
    /\ UNCHANGED <<inputs, bpm, queue, delayed, services, qsts, faults>>

DeployServices(k) ==
    /\ worker[k].pc = "services"
    /\ services' = [services EXCEPT ![Group(k)] = worker[k].build]
    /\ Goto(k, "qsts")
    /\ UNCHANGED <<inputs, bpm, queue, delayed, qJobs, qsts, faults, rolled>>

DeployQuarksStatefulSet(k) ==
    /\ worker[k].pc = "qsts"
    /\ qsts' = [qsts EXCEPT ![Group(k)] = worker[k].build]
    /\ rolled' = rolled \cup {k}
    /\ Goto(k, "annotate")
    /\ UNCHANGED <<inputs, bpm, queue, delayed, qJobs, services, faults>>

\* The timestamp is set: the secret will not be reconciled after a restart.
SetLastReconcile(k) ==
    /\ worker[k].pc = "annotate"
    /\ bpm' = [bpm EXCEPT ![k] = "annotated"]
    /\ Finish(k)
    /\ UNCHANGED <<inputs, queue, delayed, outputs, faults, rolled>>

\* The update fails: the error is logged and not returned.
SetLastReconcileFails(k) ==
    /\ Fault("annotate")
    /\ worker[k].pc = "annotate"
    /\ Finish(k)
    /\ UNCHANGED <<inputs, bpm, queue, delayed, outputs, rolled>>

\* Any other call fails: a conflict, a timeout, an unreachable API server.
CallFails(k) ==
    /\ Fault("error")
    /\ worker[k].pc \notin {"idle", "annotate"}
    /\ Retry(k)
    /\ UNCHANGED <<inputs, bpm, queue, outputs, rolled>>

\* A back-off or a RequeueAfter is over.
Due(k) ==
    /\ k \in delayed
    /\ delayed' = delayed \ {k}
    /\ queue' = queue \cup {k}
    /\ UNCHANGED <<inputs, bpm, worker, outputs, faults, rolled>>

------------------------------------------------------------------------------
(* The rest of the system *)

\* The BOSHDeployment reconciler deploys the next manifest: it deletes the
\* QuarksStatefulSets, and with them the services, of groups that are gone.
BDPLDeploys ==
    /\ planned < MaxVersion
    /\ planned' = planned + 1
    /\ qsts' = [g \in IG |-> IF g \in Members[planned + 1] THEN qsts[g]
                             ELSE Nothing]
    /\ services' = [g \in IG |->
                      IF g \in Members[planned + 1] \/ qsts[g] = Nothing
                      THEN services[g] ELSE Nothing]
    /\ UNCHANGED <<desired, dns, igResolved, bpm, queue, delayed, worker,
                   qJobs, faults, rolled>>

\* The with-ops reconciler publishes it, and sets up DNS.
PublishDesiredManifest ==
    /\ desired < planned
    /\ desired' = desired + 1
    /\ UNCHANGED <<planned, dns, igResolved, bpm, queue, delayed, worker,
                   outputs, faults, rolled>>

ApplyDNS ==
    /\ ~dns
    /\ dns' = TRUE
    /\ UNCHANGED <<planned, desired, igResolved, bpm, queue, delayed, worker,
                   outputs, faults, rolled>>

\* The instance group QuarksJob writes its two outputs for a group.
WriteIGResolved(g, v) ==
    /\ v <= desired /\ g \in Members[v]
    /\ igResolved[g] < v
    /\ \A w \in igResolved[g] + 1 .. v - 1 : g \notin Members[w]
    /\ igResolved' = [igResolved EXCEPT ![g] = v]
    /\ UNCHANGED <<planned, desired, dns, bpm, queue, delayed, worker,
                   outputs, faults, rolled>>

\* Only the creation of a BPM secret passes the predicate.
WriteBPM(g, v) ==
    /\ v <= desired /\ g \in Members[v]
    /\ bpm[<<g, v>>] = "none"
    /\ \A w \in 1 .. v - 1 : g \in Members[w] => bpm[<<g, w>>] # "none"
    /\ bpm' = [bpm EXCEPT ![<<g, v>>] = "new"]
    /\ queue' = queue \cup {<<g, v>>}
    /\ UNCHANGED <<inputs, delayed, worker, outputs, faults, rolled>>

\* The operator restarts: the secrets are listed in any order, and the create
\* predicate lets those pass that carry no timestamp.
Crash ==
    /\ Fault("crash")
    /\ queue' = {}
    /\ delayed' = {k \in Keys : bpm[k] = "new"}
    /\ worker' = [k \in Keys |-> Idle]
    /\ UNCHANGED <<inputs, bpm, outputs, rolled>>

------------------------------------------------------------------------------
(* Specification *)

Init ==
    /\ planned = 1 /\ desired = 1
    /\ dns = FALSE
    /\ igResolved = [g \in IG |-> 0]
    /\ bpm = [k \in Keys |-> "none"]
    /\ queue = {} /\ delayed = {}
    /\ worker = [k \in Keys |-> Idle]
    /\ qJobs = [g \in IG |-> Nothing]
    /\ services = [g \in IG |-> Nothing]
    /\ qsts = [g \in IG |-> Nothing]
    /\ faults = MaxFaults
    /\ rolled = {}

Reconcile(k) ==
    \/ ReadDesiredManifest(k) \/ GetDNSService(k) \/ ApplyBPMResources(k)
    \/ DeployErrand(k) \/ DeployServices(k) \/ DeployQuarksStatefulSet(k)
    \/ SetLastReconcile(k)

Next ==
    \/ \E k \in Keys : \/ Get(k) \/ Reconcile(k) \/ Due(k)
                       \/ SetLastReconcileFails(k) \/ CallFails(k)
    \/ \E g \in IG, v \in Versions : WriteIGResolved(g, v) \/ WriteBPM(g, v)
    \/ BDPLDeploys \/ PublishDesiredManifest \/ ApplyDNS \/ Crash

Spec == Init /\ [][Next]_vars

\* Workers run, timers expire, a queued key gets its turn; the QuarksJob
\* completes and the DNS service is set up.
Fairness ==
    /\ \A k \in Keys : SF_vars(Get(k)) /\ WF_vars(Reconcile(k)) /\ WF_vars(Due(k))
    /\ \A g \in IG, v \in Versions : WF_vars(WriteIGResolved(g, v))
    /\ WF_vars(ApplyDNS)

FairSpec == Spec /\ Fairness

------------------------------------------------------------------------------
(* Properties *)

\* A BPM secret that was not rolled out yet is in the queue, waits to be put
\* back or is held by a worker -- although its only trigger is its creation,
\* the timestamp hides it after a restart, and the error of setting the
\* timestamp is swallowed (bpm_controller.go CreateFunc, bpm_reconciler.go
\* Reconcile).
NoForgottenBPM ==
    \A k \in Keys : bpm[k] # "none" =>
        k \in rolled \cup queue \cup delayed \cup Busy

\* Every BPM secret of a group that stays in the manifest is rolled out, in
\* spite of failing calls, restarts and a late ig-resolved secret or DNS.
EveryBPMRolledOut ==
    \A k \in Keys : bpm[k] # "none" ~>
        (k \in rolled \/ Group(k) \notin Members[desired])

\* With one worker, no reconcile builds a QuarksStatefulSet from an older
\* desired manifest or ig-resolved secret than the one it replaces: even the
\* retry of an old BPM secret reads the latest of both (bpm_reconciler.go
\* DesiredManifest, fetchIGresolvedVersion).
InputsNeverGoBack ==
    [][\A g \in IG : qsts'[g] # Nothing =>
          /\ qsts'[g].manifest >= qsts[g].manifest
          /\ qsts'[g].ig >= qsts[g].ig]_vars

\* Nothing is left to do: all outputs are written, all secrets reconciled.
Quiet ==
    /\ queue = {} /\ delayed = {} /\ Busy = {}
    /\ desired = planned
    /\ \A g \in IG, v \in 1 .. desired :
          g \in Members[v] => bpm[<<g, v>>] # "none" /\ igResolved[g] >= v

\* The reconciler reads "the corresponding desired manifest" of a BPM secret
\* (bpm_reconciler.go:74): in the end, a QuarksStatefulSet is built from a
\* manifest and the BPM information computed from that manifest.
CorrespondingManifest ==
    Quiet => \A g \in Members[desired] \ Errands : qsts[g].bpm = qsts[g].manifest

------------------------------------------------------------------------------
(* Inductive invariant *)

\* What makes NoForgottenBPM inductive: the timestamp, which hides a secret
\* from the create predicate, is written after the rollout only.
RolledBeforeStamp ==
    \A k \in Keys :
        worker[k].pc = "annotate" \/ bpm[k] = "annotated" => k \in rolled

BPMInv == TypeOK /\ RolledBeforeStamp /\ NoForgottenBPM

\* What makes InputsNeverGoBack inductive with one worker: what is deployed is
\* no newer than what exists, and what a worker holds lies between the two.
OneReconcile == \A j, k \in Busy : j = k

DeployedExists ==
    \A g \in IG : qsts[g].manifest <= desired /\ qsts[g].ig <= igResolved[g]

HeldBetween(k) ==
    /\ worker[k].pc \in {"dns", "apply", "errand", "services", "qsts"} =>
          /\ qsts[Group(k)].manifest <= worker[k].build.manifest
          /\ worker[k].build.manifest <= desired
    /\ worker[k].pc \in {"errand", "services", "qsts"} =>
          /\ qsts[Group(k)].ig <= worker[k].build.ig
          /\ worker[k].build.ig <= igResolved[Group(k)]

InputInv ==
    /\ TypeOK
    /\ OneReconcile
    /\ DeployedExists
    /\ \A k \in Keys : HeldBetween(k)
==============================================================================
