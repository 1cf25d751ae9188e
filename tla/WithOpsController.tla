-------------------------- MODULE WithOpsController --------------------------
(***************************************************************************)
(* The with-ops reconciler (withops_controller.go, withops_reconciler.go), *)
(* with the interpolation of explicit variables (withops/resolver.go) and  *)
(* the DNS objects it applies (boshdns/bosh.go).                           *)
(*                                                                         *)
(* It has a meltdown of its own, kept in an annotation of the with-ops     *)
(* secret: the first trigger stamps it and comes back after the window,    *)
(* triggers inside the window are dropped, and the first reconcile after   *)
(* it clears the stamp, interpolates the variables, publishes the desired  *)
(* manifest and applies DNS.  After the stamp is cleared anything may still*)
(* fail, or a variable may not be generated yet; the next attempt then     *)
(* opens a new window.                                                     *)
(***************************************************************************)
EXTENDS WorkQueue, FiniteSets

CONSTANTS
    Var,           \* names of the explicit variables of the manifest
    MaxManifest,   \* bound: manifests the BOSHDeployment reconciler writes
    MaxRotation,   \* bound: values of a variable
    Window,        \* ReconcileSkipDuration, in units of time
    NotGenerated,  \* the RequeueAfter while a variable is not generated
    Backoff,       \* bound: the longest delay of a rate-limited retry
    FaultKinds,    \* which faults the environment may inject
    MaxFaults      \* bound: how many

ASSUME WithOpsAssumption ==
    /\ IsFiniteSet(Var)
    /\ MaxManifest \in Nat \ {0} /\ MaxRotation \in Nat \ {0}
    /\ Window \in Nat \ {0}
    /\ NotGenerated \in 0 .. Window /\ Backoff \in 0 .. Window
    /\ FaultKinds \subseteq {"error", "lostReply", "crash"}
    /\ MaxFaults \in Nat

VARIABLES
    secret,    \* the with-ops secret in the API server
    cache,     \* the with-ops secret in the informer cache
    variable,  \* value of each explicit variable in the informer cache, 0
               \* until it is generated
    event,     \* the last unhandled update event of each variable's secret
    queue,     \* work queue entry of the with-ops secret
    pc,        \* the next call of the running reconcile
    own,       \* the copy of the secret it works on
    values,    \* the variables it has read, 0 for the others
    desired,   \* the latest desired manifest
    dns,       \* what each DNS object was built from
    labelled,  \* the namespace has the coredns service account label
    skipped,   \* history: variables whose rotation skip.Reconciles dropped and
               \* no reconcile has read since
    faults     \* how many faults are left

locals == <<own, values>>
rotations == <<variable, event, skipped>>
vars == <<secret, cache, rotations, queue, pc, locals, desired, dns, labelled,
          faults>>

------------------------------------------------------------------------------
(* Types *)

NoTime == -1

\* stamp is the annotation: NoTime if missing or empty, otherwise the time
\* until its window is over.  A copy is fresh if its resource version is the
\* server's.
Secret == [data : 1 .. MaxManifest, stamp : NoTime .. Window, fresh : BOOLEAN]

NoCopy == [data |-> 1, stamp |-> NoTime, fresh |-> FALSE]

Values == [Var -> 0 .. MaxRotation]

Unread == [v \in Var |-> 0]

\* An interpolated manifest.
Content == [data : 1 .. MaxManifest, values : Values]

Missing == [data |-> 0, values |-> Unread]

DNSObjects == {"configmap", "deployment", "service"}

NoEvents == [v \in Var |-> "none"]

Steps == {"idle", "open", "requeue", "clear", "interpolate"}
         \cup DNSObjects

TypeOK ==
    /\ secret \in Secret /\ cache \in Secret /\ own \in Secret
    /\ variable \in Values
    /\ event \in [Var -> {"none", "live", "outdated"}]
    /\ skipped \subseteq Var
    /\ queue \in QueueType(Window)
    /\ pc \in Steps
    /\ values \in Values
    /\ desired \in Content \cup {Missing}
    /\ dns \in [DNSObjects -> Content \cup {Missing}]
    /\ labelled \in BOOLEAN
    /\ pc \in DNSObjects => \A v \in Var : values[v] # 0
    /\ faults \in 0 .. MaxFaults

------------------------------------------------------------------------------
(* Helpers *)

Stale(copy) == [copy EXCEPT !.fresh = FALSE]

Older(copy) == [copy EXCEPT !.stamp = Countdown(@)]

Accepts(copy) == copy.fresh

Result == [data |-> own.data, values |-> values]

Done ==
    /\ pc' = "idle"
    /\ own' = NoCopy
    /\ values' = Unread

Goto(step) == pc' = step

\* The reconcile returns a result with RequeueAfter.
RequeueAfter(delay) ==
    /\ queue' = AddAfter(queue, delay)
    /\ Done

\* Faulty variant: the error is not returned.
SwallowError ==
    /\ queue' = queue
    /\ Done

\* The reconcile returns an error.
Retry == \E delay \in 0 .. Backoff : RequeueAfter(delay)

Fault(kind) ==
    /\ kind \in FaultKinds
    /\ faults > 0
    /\ faults' = faults - 1

\* The update of the annotation has reached the server.
WriteStamp(stamp) ==
    /\ Accepts(own)
    /\ secret' = [secret EXCEPT !.stamp = stamp]
    /\ cache' = Stale(cache)

------------------------------------------------------------------------------
(* One reconcile *)

Get ==
    /\ pc = "idle"
    /\ queue.dirty
    /\ queue' = Take(queue)
    /\ \/ /\ cache.stamp > 0
          /\ UNCHANGED <<pc, own>>
       \/ /\ cache.stamp = NoTime
          /\ own' = cache
          /\ Goto("open")
       \/ /\ cache.stamp = 0
          /\ own' = cache
          /\ Goto("clear")
    /\ UNCHANGED <<secret, cache, rotations, values, desired, dns, labelled,
                   faults>>

StartMeltdown ==
    /\ pc = "open"
    /\ WriteStamp(Window)
    /\ Goto("requeue")
    /\ UNCHANGED <<rotations, queue, locals, desired, dns, labelled,
                   faults>>

RequeueAfterWindow ==
    /\ pc = "requeue"
    /\ RequeueAfter(Window)
    /\ UNCHANGED <<secret, cache, rotations, desired, dns, labelled,
                   faults>>

\* The BOSHDeployment is read and the stamp is cleared.
EndMeltdown ==
    /\ pc = "clear"
    /\ WriteStamp(NoTime)
    /\ Goto("interpolate")
    /\ UNCHANGED <<rotations, queue, locals, desired, dns, labelled,
                   faults>>

UpdateRefused ==
    /\ pc \in {"open", "clear"}
    /\ ~Accepts(own)
    /\ Retry
    /\ UNCHANGED <<secret, cache, rotations, desired, dns, labelled,
                   faults>>

\* The server applies the update and the reconciler only sees a timeout.
UpdateReplyLost ==
    /\ Fault("lostReply")
    /\ \/ pc = "open" /\ WriteStamp(Window)
       \/ pc = "clear" /\ WriteStamp(NoTime)
    /\ Retry
    /\ UNCHANGED <<rotations, desired, dns, labelled>>

\* InterpolateVariableFromSecrets reads one variable after the other: the
\* QuarksSecret, whose generated status never goes back, then the secret,
\* which alone decides the value.  An object that is not found is an error
\* that is returned: CallFails.
ReadVariable(v) ==
    /\ pc = "interpolate"
    /\ values[v] = 0
    /\ variable[v] # 0
    /\ values' = [values EXCEPT ![v] = variable[v]]
    /\ skipped' = skipped \ {v}
    /\ UNCHANGED <<secret, cache, variable, event, queue, pc, own, desired, dns,
                   labelled, faults>>

\* Faulty variant: the status of the QuarksSecret is not looked at.
PublishUngenerated(v) ==
    /\ pc = "interpolate"
    /\ values[v] = 0
    /\ variable[v] = 0
    /\ desired' = Result
    /\ Goto("configmap")
    /\ UNCHANGED <<secret, cache, rotations, queue, locals, dns, labelled,
                   faults>>

\* "has generated status false": try again in five seconds.
VariableNotGenerated(v) ==
    /\ pc = "interpolate"
    /\ values[v] = 0
    /\ variable[v] = 0
    /\ RequeueAfter(NotGenerated)
    /\ UNCHANGED <<secret, cache, rotations, desired, dns, labelled,
                   faults>>

\* createDesiredManifest: a new version, unless the latest one is identical.
CreateDesiredManifest ==
    /\ pc = "interpolate"
    /\ \A v \in Var : values[v] # 0
    /\ desired' = Result
    /\ Goto("configmap")
    /\ UNCHANGED <<secret, cache, rotations, queue, locals, dns, labelled,
                   faults>>

\* Faulty variant: a DNS object that exists is not updated.
ApplyOnlyNewDNS(object, next) ==
    /\ pc = object
    /\ dns' = IF dns[object] = Missing THEN [dns EXCEPT ![object] = Result]
              ELSE dns
    /\ Goto(next)
    /\ UNCHANGED <<secret, cache, rotations, queue, desired, labelled, faults>>
    /\ IF next = "idle" THEN own' = NoCopy /\ values' = Unread
       ELSE UNCHANGED locals

\* dns.Apply, one object after the other; the reconcile ends with the last.
ApplyDNSObject(object, next) ==
    /\ pc = object
    /\ dns' = [dns EXCEPT ![object] = Result]
    /\ Goto(next)
    /\ UNCHANGED <<secret, cache, rotations, queue, desired, labelled, faults>>
    /\ IF next = "idle" THEN own' = NoCopy /\ values' = Unread
       ELSE UNCHANGED locals

ApplyDNS ==
    /\ labelled
    /\ \/ ApplyDNSObject("configmap", "deployment")
       \/ ApplyDNSObject("deployment", "service")
       \/ ApplyDNSObject("service", "idle")

\* Without the label, Apply wraps the nil error of the Get before: it returns
\* nil, and the reconcile succeeds.
SkipDNS ==
    /\ ~labelled
    /\ pc = "configmap"
    /\ Done
    /\ UNCHANGED <<secret, cache, rotations, queue, desired, dns, labelled,
                   faults>>

\* Any call fails and its error is returned.
CallFails ==
    /\ Fault("error")
    /\ pc \notin {"idle", "requeue"}
    /\ Retry
    /\ UNCHANGED <<secret, cache, rotations, desired, dns, labelled>>

------------------------------------------------------------------------------
(* Triggers, time and the rest of the system *)

\* Only a change of the data passes the predicate.
Watch ==
    /\ ~cache.fresh
    /\ cache' = secret
    /\ queue' = IF cache.data # secret.data THEN Add(queue) ELSE queue
    /\ UNCHANGED <<secret, rotations, pc, locals, desired, dns, labelled,
                   faults>>

TimerExpires ==
    /\ queue.due = 0
    /\ queue' = Expire(queue)
    /\ UNCHANGED <<secret, cache, rotations, pc, locals, desired, dns, labelled,
                   faults>>

Tick ==
    /\ secret.stamp > 0 \/ queue.due > 0
    /\ secret' = Older(secret)
    /\ cache' = Older(cache)
    /\ own' = Older(own)
    /\ queue' = Elapse(queue)
    /\ UNCHANGED <<rotations, pc, values, desired, dns, labelled,
                   faults>>

\* createManifestWithOps of the BOSHDeployment reconciler.  Whether the
\* library's SecretMutateFn keeps the annotation is left open.
WriteManifestWithOps ==
    /\ secret.data < MaxManifest
    /\ \E stamp \in {secret.stamp, NoTime} :
          secret' = [secret EXCEPT !.data = @ + 1, !.stamp = stamp]
    /\ cache' = Stale(cache)
    /\ own' = Stale(own)
    /\ UNCHANGED <<rotations, queue, pc, values, desired, dns, labelled,
                   faults>>

\* quarks-secret generates a variable: a create event, which is ignored.
GenerateVariable(v) ==
    /\ variable[v] = 0
    /\ variable' = [variable EXCEPT ![v] = 1]
    /\ UNCHANGED <<secret, cache, event, skipped, queue, pc, locals, desired,
                   dns, labelled, faults>>

\* Faulty variant: the secret of a rotated variable is not watched.
RotateUnwatched(v) ==
    /\ variable[v] \in 1 .. MaxRotation - 1
    /\ variable' = [variable EXCEPT ![v] = @ + 1]
    /\ UNCHANGED <<secret, cache, event, skipped, queue, pc, locals, desired,
                   dns, labelled, faults>>

\* A variable is rotated: the cache shows the new value, and an update event
\* that passes the predicate is on its way to the mapping.
RotateVariable(v) ==
    /\ variable[v] \in 1 .. MaxRotation - 1
    /\ variable' = [variable EXCEPT ![v] = @ + 1]
    /\ event' = [event EXCEPT ![v] = "live"]
    /\ UNCHANGED <<secret, cache, skipped, queue, pc, locals, desired, dns,
                   labelled, faults>>

\* The secret gets another resource version and keeps its data.  That event
\* fails the predicate, and the one before it is outdated.
TouchVariable(v) ==
    /\ event[v] = "live"
    /\ event' = [event EXCEPT ![v] = "outdated"]
    /\ UNCHANGED <<secret, cache, variable, skipped, queue, pc, locals, desired,
                   dns, labelled, faults>>

\* The mapping: skip.Reconciles drops the event of an object that is not the
\* one in the cache any more.
HandleRotation(v) ==
    /\ event[v] # "none"
    /\ event' = [event EXCEPT ![v] = "none"]
    /\ \/ event[v] = "live" /\ queue' = Add(queue) /\ UNCHANGED skipped
       \/ /\ event[v] = "outdated"
          /\ skipped' = skipped \cup {v}
          /\ UNCHANGED queue
    /\ UNCHANGED <<secret, cache, variable, pc, locals, desired, dns, labelled,
                   faults>>

\* The create events of a restart are those of the with-ops secret.
Crash ==
    /\ Fault("crash")
    /\ cache' = secret
    /\ event' = NoEvents
    /\ queue' = Add(EmptyQueue)
    /\ Done
    /\ UNCHANGED <<secret, variable, skipped, desired, dns, labelled>>

------------------------------------------------------------------------------
(* Specification *)

Init ==
    /\ secret = [data |-> 1, stamp |-> NoTime, fresh |-> TRUE]
    /\ cache = secret
    /\ variable = Unread /\ event = NoEvents /\ skipped = {}
    /\ queue = Add(EmptyQueue)
    /\ pc = "idle" /\ own = NoCopy /\ values = Unread
    /\ desired = Missing
    /\ dns = [o \in DNSObjects |-> Missing]
    /\ labelled \in BOOLEAN
    /\ faults = MaxFaults

Reconcile ==
    \/ Get \/ StartMeltdown \/ RequeueAfterWindow \/ EndMeltdown
    \/ UpdateRefused
    \/ \E v \in Var : ReadVariable(v) \/ VariableNotGenerated(v)
    \/ CreateDesiredManifest \/ ApplyDNS \/ SkipDNS

Next ==
    \/ Reconcile \/ UpdateReplyLost \/ CallFails
    \/ Watch \/ TimerExpires \/ Tick \/ WriteManifestWithOps
    \/ \E v \in Var : \/ GenerateVariable(v) \/ RotateVariable(v)
                     \/ TouchVariable(v) \/ HandleRotation(v)
    \/ Crash

Spec == Init /\ [][Next]_vars

\* The worker, the watches, the timers and the clock keep going, and
\* quarks-secret generates every variable.
Fairness ==
    /\ WF_vars(Reconcile) /\ WF_vars(Watch)
    /\ WF_vars(TimerExpires) /\ WF_vars(Tick)
    /\ \A v \in Var : WF_vars(GenerateVariable(v)) /\ WF_vars(HandleRotation(v))

FairSpec == Spec /\ Fairness

------------------------------------------------------------------------------
(* Properties *)

\* No reconcile runs and nothing will start one.
AtRest ==
    /\ pc = "idle"
    /\ queue = EmptyQueue
    /\ cache.fresh
    /\ event = NoEvents

\* The variables whose last rotation was mapped, or read since.
Settled == {v \in Var : event[v] = "none" /\ v \notin skipped}

\* The published manifest is the current one with the current variables,
\* except those whose rotation skip.Reconciles dropped.
UpToDate ==
    /\ desired.data = secret.data
    /\ \A v \in Settled : desired.values[v] = variable[v]

DNSUpToDate == \A o \in DNSObjects : dns[o] = desired

\* When nothing is left to do, and no meltdown is open, the desired manifest
\* is the interpolation of the current with-ops manifest with the current
\* variables, although they are read one by one while they change and their
\* creation is not watched (withops_reconciler.go).  The one trigger that is
\* lost is the rotation followed by another update of the same secret before
\* the event is mapped (skip.Reconciles, withops_controller.go:116), and the
\* next reconcile for any reason makes up for it.
NothingMissed == AtRest /\ secret.stamp = NoTime => UpToDate

\* ... and, in a namespace with the label, the DNS objects are those of that
\* manifest, even if an earlier attempt published it and failed over DNS.
DNSFollowsManifest ==
    AtRest /\ secret.stamp = NoTime /\ labelled => DNSUpToDate

\* The meltdown nobody ends: the stamp is set, and nothing will clear it.
Stranded == AtRest /\ secret.stamp = 0

\* The current manifest with the current variables, but for those whose
\* rotation was skipped, is published and its DNS objects are applied in the
\* end, or the meltdown is stranded.
PublishedOrStranded ==
    <>[](\/ UpToDate /\ (labelled => DNSUpToDate)
         \/ Stranded)
------------------------------------------------------------------------------
(* Why they hold: the inductive invariant of the proofs *)

\* A copy the server would accept is the server's object; the reconciler does
\* not take over what its own update changed.
FreshCopies ==
    /\ secret.fresh
    /\ cache.fresh => cache = secret
    /\ own.fresh => own.data = secret.data
    /\ pc \in {"open", "clear"} /\ own.fresh => own = secret
    /\ pc = "open" => own.stamp = NoTime
    /\ pc = "clear" => own.stamp = 0

\* The reconciler will be called again.
Triggered ==
    \/ queue.dirty
    \/ queue.due # NotWaiting
    \/ cache.data # secret.data

\* A window the cache shows as running is running, or new data is on its way.
CacheBehind ==
    /\ cache.data <= secret.data
    /\ cache.stamp > 0 =>
         secret.stamp >= cache.stamp \/ cache.data # secret.data

Interpolating == {"interpolate"} \cup DNSObjects

\* What the reconcile has read is current, or it will be called again.
ReadsCurrent ==
    /\ pc \notin Interpolating => values = Unread
    /\ \A v \in Var : values[v] # 0 => variable[v] # 0
    /\ \A v \in Var : variable[v] = 0 => v \in Settled
    /\ pc \in Interpolating /\ ~Triggered =>
         /\ own.data = secret.data
         /\ \A v \in Settled : values[v] \in {0, variable[v]}

\* A published manifest has a value for every variable.
PublishedComplete == desired # Missing => \A v \in Var : desired.values[v] # 0

\* DNS objects are applied one after the other from what was just published.
AppliesInOrder ==
    /\ pc \in DNSObjects => desired = Result
    /\ pc \in {"deployment", "service"} =>
         labelled /\ dns["configmap"] = desired
    /\ pc = "service" => dns["deployment"] = desired

\* An idle reconciler that nobody will call has left nothing undone, unless
\* the meltdown stamp is still there.
NothingLeft ==
    pc = "idle" /\ ~Triggered /\ secret.stamp = NoTime =>
        UpToDate /\ (labelled => DNSUpToDate)

WithOpsInv ==
    /\ TypeOK
    /\ FreshCopies
    /\ CacheBehind
    /\ ReadsCurrent
    /\ PublishedComplete
    /\ AppliesInOrder
    /\ NothingLeft
==============================================================================
