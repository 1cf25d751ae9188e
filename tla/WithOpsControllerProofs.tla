----------------------- MODULE WithOpsControllerProofs -----------------------
(***************************************************************************)
(* Proofs about the with-ops reconciler, for every set of variables, every *)
(* window and every bound.                                                 *)
(***************************************************************************)
EXTENDS WithOpsController, TLAPS

------------------------------------------------------------------------------
(* Lemmas about copies of the with-ops secret and about the queue *)

\* The queue stays a queue, whatever is done to it.
LEMMA QueueTypes ==
    ASSUME NEW entry \in QueueType(Window)
    PROVE  /\ Add(entry) \in QueueType(Window)
           /\ Take(entry) \in QueueType(Window)
           /\ Expire(entry) \in QueueType(Window)
           /\ Elapse(entry) \in QueueType(Window)
           /\ \A delay \in 0 .. Window :
                  AddAfter(entry, delay) \in QueueType(Window)
<1> USE WithOpsAssumption DEF QueueType, NotWaiting
<1>1. Add(entry) \in QueueType(Window) /\ Take(entry) \in QueueType(Window)
  BY DEF Add, Take
<1>2. Expire(entry) \in QueueType(Window)
  BY DEF Expire
<1>3. Elapse(entry) \in QueueType(Window)
  BY DEF Elapse, Countdown
<1>4. ASSUME NEW delay \in 0 .. Window
      PROVE  AddAfter(entry, delay) \in QueueType(Window)
  BY DEF AddAfter
<1> QED
  BY <1>1, <1>2, <1>3, <1>4

\* What the operations of the queue do to its two fields.
LEMMA QueueFields ==
    ASSUME NEW entry \in QueueType(Window)
    PROVE  /\ Add(entry).dirty /\ Add(entry).due = entry.due
           /\ ~Take(entry).dirty /\ Take(entry).due = entry.due
           /\ Expire(entry).dirty
           /\ Elapse(entry).dirty = entry.dirty
           /\ Elapse(entry).due = NotWaiting <=> entry.due = NotWaiting
           /\ \A delay \in 0 .. Window :
                  AddAfter(entry, delay).due # NotWaiting
<1>1. /\ Add(entry).dirty /\ Add(entry).due = entry.due
      /\ ~Take(entry).dirty /\ Take(entry).due = entry.due
      /\ Expire(entry).dirty
      /\ Elapse(entry).dirty = entry.dirty
      /\ Elapse(entry).due = Countdown(entry.due)
  BY DEF QueueType, Add, Take, Expire, Elapse
<1>2. entry.due \in -1 .. Window
  BY DEF QueueType, NotWaiting
<1>3. Countdown(entry.due) = NotWaiting <=> entry.due = NotWaiting
  BY <1>2, WithOpsAssumption DEF Countdown, NotWaiting
<1>4. ASSUME NEW delay \in 0 .. Window
      PROVE  AddAfter(entry, delay).due # NotWaiting
  BY <1>2, WithOpsAssumption DEF AddAfter, NotWaiting, QueueType
<1> QED
  BY <1>1, <1>3, <1>4

\* The queue of an operator that just started.
LEMMA StartQueue ==
    /\ Add(EmptyQueue) \in QueueType(Window)
    /\ Add(EmptyQueue).dirty
<1>1. NotWaiting \in NotWaiting .. Window
  BY WithOpsAssumption DEF NotWaiting
<1>2. EmptyQueue \in QueueType(Window)
  BY <1>1 DEF QueueType, EmptyQueue
<1> QED
  BY <1>2, QueueTypes, QueueFields

\* The delays the reconciler asks for.
LEMMA Delays ==
    /\ Window \in 0 .. Window /\ NotGenerated \in 0 .. Window
    /\ \A delay \in 0 .. Backoff : delay \in 0 .. Window
  BY WithOpsAssumption

\* The type of every copy, spelled out for the arithmetic.
LEMMA CopyRanges ==
    ASSUME NEW copy \in Secret
    PROVE  /\ copy.data \in Nat /\ copy.data # 0
           /\ copy.stamp \in Int /\ copy.stamp >= NoTime
           /\ copy.stamp <= Window
           /\ copy.fresh \in BOOLEAN
  BY WithOpsAssumption DEF Secret, NoTime

\* What time and other writers do to a copy.
LEMMA CopyFields ==
    ASSUME NEW copy \in Secret
    PROVE  /\ Stale(copy) \in Secret
           /\ Stale(copy).fresh = FALSE
           /\ Stale(copy).data = copy.data
           /\ Stale(copy).stamp = copy.stamp
           /\ Older(copy) \in Secret
           /\ Older(copy).fresh = copy.fresh
           /\ Older(copy).data = copy.data
           /\ Older(copy).stamp = Countdown(copy.stamp)
<1>1. /\ Stale(copy) \in Secret
      /\ Stale(copy).fresh = FALSE
      /\ Stale(copy).data = copy.data
      /\ Stale(copy).stamp = copy.stamp
  BY DEF Stale, Secret
<1>2. Countdown(copy.stamp) \in NoTime .. Window
  BY CopyRanges, WithOpsAssumption DEF Countdown, NoTime
<1>3. /\ Older(copy) \in Secret
      /\ Older(copy).fresh = copy.fresh
      /\ Older(copy).data = copy.data
      /\ Older(copy).stamp = Countdown(copy.stamp)
  BY <1>2 DEF Older, Secret
<1> QED
  BY <1>1, <1>3

\* The update of the annotation.
LEMMA StampFields ==
    ASSUME secret \in Secret, NEW stamp \in NoTime .. Window
    PROVE  /\ [secret EXCEPT !.stamp = stamp] \in Secret
           /\ [secret EXCEPT !.stamp = stamp].stamp = stamp
           /\ [secret EXCEPT !.stamp = stamp].data = secret.data
           /\ [secret EXCEPT !.stamp = stamp].fresh = secret.fresh
  BY DEF Secret

\* A new version of the manifest.
LEMMA ManifestFields ==
    ASSUME secret \in Secret, WriteManifestWithOps
    PROVE  /\ secret' \in Secret
           /\ secret'.data = secret.data + 1
           /\ secret'.stamp \in {secret.stamp, NoTime}
           /\ secret'.fresh = secret.fresh
<1>1. PICK stamp \in {secret.stamp, NoTime} :
          secret' = [secret EXCEPT !.data = @ + 1, !.stamp = stamp]
  BY DEF WriteManifestWithOps
<1>2. stamp \in NoTime .. Window
  BY <1>1, WithOpsAssumption DEF Secret, NoTime
<1>3. secret.data + 1 \in 1 .. MaxManifest
  BY WithOpsAssumption DEF WriteManifestWithOps, Secret
<1> QED
  BY <1>1, <1>2, <1>3 DEF Secret

\* The reset copies of an idle reconciler.
LEMMA Resets ==
    /\ NoCopy \in Secret /\ NoCopy.fresh = FALSE /\ NoCopy.data = 1
    /\ Unread \in Values /\ \A v \in Var : Unread[v] = 0
  BY WithOpsAssumption DEF NoCopy, Secret, NoTime, Unread, Values

------------------------------------------------------------------------------
(* Type correctness *)

\* The initial state is well typed.
LEMMA TypeInit == Init => TypeOK
<1> SUFFICES ASSUME Init PROVE TypeOK
  OBVIOUS
<1>1. secret \in Secret /\ cache \in Secret /\ own \in Secret
  BY Resets, WithOpsAssumption DEF Init, Secret, NoTime
<1> QED
  BY <1>1, StartQueue, Resets, WithOpsAssumption
     DEF Init, TypeOK, Steps, DNSObjects, NoEvents

\* What every action does to the copies of the secret.
LEMMA CopyTypeNext ==
    ASSUME TypeOK, [Next]_vars
    PROVE  secret' \in Secret /\ cache' \in Secret /\ own' \in Secret
<1>a. secret \in Secret /\ cache \in Secret /\ own \in Secret
  BY DEF TypeOK
<1>b. Window \in NoTime .. Window /\ NoTime \in NoTime .. Window
  BY WithOpsAssumption DEF NoTime
<1> DEFINE Good == secret' \in Secret /\ cache' \in Secret /\ own' \in Secret
<1>1. CASE StartMeltdown
  BY <1>1, <1>a, <1>b, StampFields, CopyFields
     DEF StartMeltdown, WriteStamp, locals, rotations
<1>2. CASE EndMeltdown
  BY <1>2, <1>a, <1>b, StampFields, CopyFields
     DEF EndMeltdown, WriteStamp, locals, rotations
<1>3. CASE UpdateReplyLost
  <2>1. own' = NoCopy /\ cache' = Stale(cache)
    BY <1>3 DEF UpdateReplyLost, WriteStamp, Retry, RequeueAfter, Done
  <2>2. PICK stamp \in NoTime .. Window :
            secret' = [secret EXCEPT !.stamp = stamp]
    BY <1>3, <1>b DEF UpdateReplyLost, WriteStamp
  <2> QED
    BY <2>1, <2>2, <1>a, <1>b, StampFields, CopyFields, Resets
<1>4. CASE Tick
  BY <1>4, <1>a, CopyFields DEF Tick
<1>5. CASE WriteManifestWithOps
  BY <1>5, <1>a, CopyFields, ManifestFields DEF WriteManifestWithOps
<1>6. CASE /\ secret' = secret /\ cache' \in {cache, secret}
           /\ own' \in {own, cache, NoCopy}
  BY <1>6, <1>a, Resets
<1> QED
  BY <1>1, <1>2, <1>3, <1>4, <1>5, <1>6
     DEF Next, Reconcile, vars, rotations, locals, Get, RequeueAfterWindow,
         UpdateRefused, ReadVariable, VariableNotGenerated,
         CreateDesiredManifest, ApplyDNS, ApplyDNSObject, SkipDNS, CallFails,
         Watch, TimerExpires, GenerateVariable, RotateVariable, TouchVariable,
         HandleRotation, Crash, Retry, RequeueAfter, Done

\* Every action keeps the queue and the counters in their types.
LEMMA QueueTypeNext ==
    ASSUME TypeOK, [Next]_vars
    PROVE  queue' \in QueueType(Window) /\ faults' \in 0 .. MaxFaults
<1>a. queue \in QueueType(Window) /\ faults \in 0 .. MaxFaults
  BY DEF TypeOK
<1>1. /\ faults' = faults \/ (faults > 0 /\ faults' = faults - 1)
  BY DEF Next, Reconcile, vars, rotations, Get, StartMeltdown,
         RequeueAfterWindow, EndMeltdown, UpdateRefused, ReadVariable,
         VariableNotGenerated, CreateDesiredManifest, ApplyDNS,
         ApplyDNSObject, SkipDNS, UpdateReplyLost, CallFails, Watch,
         TimerExpires, Tick, WriteManifestWithOps, GenerateVariable,
         RotateVariable, TouchVariable, HandleRotation, Crash, Fault
<1>2. \/ queue' \in {queue, Take(queue), Add(queue), Expire(queue),
                     Elapse(queue), Add(EmptyQueue)}
      \/ \E delay \in (0 .. Backoff) \cup {Window, NotGenerated} :
             queue' = AddAfter(queue, delay)
  BY DEF Next, Reconcile, vars, rotations, Get, StartMeltdown,
         RequeueAfterWindow, EndMeltdown, UpdateRefused, ReadVariable,
         VariableNotGenerated, CreateDesiredManifest, ApplyDNS,
         ApplyDNSObject, SkipDNS, UpdateReplyLost, CallFails, Watch,
         TimerExpires, Tick, WriteManifestWithOps, GenerateVariable,
         RotateVariable, TouchVariable, HandleRotation, Crash, Retry,
         RequeueAfter
<1>3. faults' \in 0 .. MaxFaults
  BY <1>a, <1>1, WithOpsAssumption
<1>4. queue' \in QueueType(Window)
  BY <1>a, <1>2, QueueTypes, StartQueue, Delays
<1> QED
  BY <1>3, <1>4

\* An interpolated manifest.
LEMMA ResultType ==
    ASSUME TypeOK
    PROVE  Result \in Content
  BY DEF TypeOK, Result, Content, Secret

\* Every action keeps the program counter, the variables and what is published
\* in their types.
LEMMA ContentTypeNext ==
    ASSUME TypeOK, [Next]_vars
    PROVE  /\ variable' \in Values /\ values' \in Values
           /\ event' \in [Var -> {"none", "live", "outdated"}]
           /\ skipped' \subseteq Var
           /\ desired' \in Content \cup {Missing}
           /\ dns' \in [DNSObjects -> Content \cup {Missing}]
           /\ labelled' \in BOOLEAN
           /\ pc' \in Steps
           /\ pc' \in DNSObjects => \A v \in Var : values'[v] # 0
<1>a. /\ variable \in Values /\ values \in Values
      /\ event \in [Var -> {"none", "live", "outdated"}]
      /\ skipped \subseteq Var
      /\ desired \in Content \cup {Missing}
      /\ dns \in [DNSObjects -> Content \cup {Missing}]
      /\ labelled \in BOOLEAN
      /\ pc \in Steps
      /\ pc \in DNSObjects => \A v \in Var : values[v] # 0
  BY DEF TypeOK
<1> DEFINE Good == /\ variable' \in Values /\ values' \in Values
                   /\ event' \in [Var -> {"none", "live", "outdated"}]
                   /\ skipped' \subseteq Var
                   /\ desired' \in Content \cup {Missing}
                   /\ dns' \in [DNSObjects -> Content \cup {Missing}]
                   /\ labelled' \in BOOLEAN
                   /\ pc' \in Steps
                   /\ pc' \in DNSObjects => \A v \in Var : values'[v] # 0
<1> USE DEF Steps, DNSObjects
<1>1. CASE Get
  BY <1>1, <1>a DEF Get, Goto, rotations
<1>2. CASE StartMeltdown \/ EndMeltdown
  BY <1>2, <1>a DEF StartMeltdown, EndMeltdown, Goto, locals, rotations
<1>3. ASSUME NEW v \in Var, ReadVariable(v) PROVE Good
  BY <1>3, <1>a DEF ReadVariable, Values
<1>4. CASE CreateDesiredManifest
  BY <1>4, <1>a, ResultType DEF CreateDesiredManifest, Goto, locals, rotations
<1>5. ASSUME NEW o \in DNSObjects, NEW next \in {"deployment", "service", "idle"},
             ApplyDNSObject(o, next)
      PROVE  Good
  BY <1>5, <1>a, ResultType, Resets DEF ApplyDNSObject, Goto, locals,
                                        rotations
<1>6. ASSUME NEW v \in Var, GenerateVariable(v) PROVE Good
  BY <1>6, <1>a, WithOpsAssumption DEF GenerateVariable, Values, locals,
                                       rotations
<1>7. ASSUME NEW v \in Var, RotateVariable(v) PROVE Good
  BY <1>7, <1>a, WithOpsAssumption DEF RotateVariable, Values, locals,
                                       rotations
<1>8. CASE /\ Done /\ event' \in {event, NoEvents}
           /\ UNCHANGED <<variable, skipped, desired, dns, labelled>>
  BY <1>8, <1>a, Resets DEF Done, NoEvents
<1>9. CASE UNCHANGED <<variable, event, skipped, values, desired, dns, labelled,
                       pc>>
  BY <1>9, <1>a
<1>10. ASSUME NEW v \in Var, TouchVariable(v) \/ HandleRotation(v) PROVE Good
  BY <1>10, <1>a DEF TouchVariable, HandleRotation, locals
<1> QED
  BY <1>1, <1>2, <1>3, <1>4, <1>5, <1>6, <1>7, <1>8, <1>9, <1>10
     DEF Next, Reconcile, vars, rotations, locals, RequeueAfterWindow,
         UpdateRefused, VariableNotGenerated, ApplyDNS, SkipDNS,
         UpdateReplyLost, CallFails, Watch, TimerExpires, Tick,
         WriteManifestWithOps, Crash, Retry, RequeueAfter

\* Every action keeps the variables in their types.
LEMMA TypeNext == TypeOK /\ [Next]_vars => TypeOK'
  BY CopyTypeNext, QueueTypeNext, ContentTypeNext DEF TypeOK

\* Every reachable state is well typed, and DNS objects are only applied from
\* a manifest whose variables all have a value.
THEOREM WithOpsTypeCorrect == Spec => []TypeOK
  BY TypeInit, TypeNext, PTL DEF Spec

------------------------------------------------------------------------------
(* Copies and triggers *)

\* The update of the annotation, seen field by field.
LEMMA WriteStampFields ==
    ASSUME TypeOK, NEW stamp \in NoTime .. Window, WriteStamp(stamp)
    PROVE  /\ own.fresh
           /\ secret'.stamp = stamp /\ secret'.data = secret.data
           /\ secret'.fresh = secret.fresh
           /\ cache'.fresh = FALSE /\ cache'.data = cache.data
           /\ cache'.stamp = cache.stamp
  BY StampFields, CopyFields DEF WriteStamp, Accepts, TypeOK

\* The two stamps the reconciler writes.
LEMMA Stamps == Window \in NoTime .. Window /\ NoTime \in NoTime .. Window
  BY WithOpsAssumption DEF NoTime

\* One unit of time.
LEMMA TickFields ==
    ASSUME TypeOK, Tick
    PROVE  /\ secret'.data = secret.data /\ secret'.fresh = secret.fresh
           /\ cache'.data = cache.data /\ cache'.fresh = cache.fresh
           /\ own'.data = own.data /\ own'.fresh = own.fresh
           /\ secret'.stamp = Countdown(secret.stamp)
           /\ cache'.stamp = Countdown(cache.stamp)
           /\ own'.stamp = Countdown(own.stamp)
  BY CopyFields DEF Tick, TypeOK

\* A reconcile that returns an error or a delay will be called again.
LEMMA RetryTriggers ==
    ASSUME TypeOK
    PROVE  /\ \A delay \in 0 .. Window : RequeueAfter(delay) => Triggered'
           /\ Retry => Triggered'
<1>1. ASSUME NEW delay \in 0 .. Window, RequeueAfter(delay)
      PROVE  Triggered'
  BY <1>1, QueueFields DEF RequeueAfter, Triggered, TypeOK
<1>2. Retry => Triggered'
  BY <1>1, Delays DEF Retry
<1> QED
  BY <1>1, <1>2

\* A copy the server would accept is the server's object.
LEMMA FreshNext ==
    ASSUME TypeOK, FreshCopies, [Next]_vars
    PROVE  FreshCopies'
<1>a. secret \in Secret /\ cache \in Secret /\ own \in Secret /\ pc \in Steps
  BY DEF TypeOK
<1>b. own.stamp \in Int
  BY <1>a, CopyRanges
<1>1. CASE Get
  BY <1>1 DEF Get, Goto, FreshCopies
<1>2. CASE StartMeltdown
  BY <1>2, Stamps, WriteStampFields DEF StartMeltdown, Goto, locals,
                                        rotations, FreshCopies
<1>3. CASE EndMeltdown
  BY <1>3, Stamps, WriteStampFields DEF EndMeltdown, Goto, locals, rotations,
                                        FreshCopies
<1>4. CASE UpdateReplyLost
  <2>1. pc' = "idle" /\ own' = NoCopy
    BY <1>4 DEF UpdateReplyLost, Retry, RequeueAfter, Done
  <2>2. secret'.fresh = secret.fresh /\ cache'.fresh = FALSE
    BY <1>4, Stamps, WriteStampFields DEF UpdateReplyLost
  <2> QED
    BY <2>1, <2>2, Resets DEF FreshCopies
<1>5. CASE Done /\ secret' = secret /\ cache' \in {cache, secret}
  BY <1>5, Resets DEF Done, FreshCopies
<1>6. CASE Watch
  BY <1>6 DEF Watch, locals, rotations, FreshCopies
<1>7. CASE Tick
  <2>1. /\ secret' = Older(secret) /\ cache' = Older(cache) /\ own' = Older(own)
        /\ pc' = pc
    BY <1>7 DEF Tick
  <2>2. /\ secret'.fresh = secret.fresh /\ secret'.data = secret.data
        /\ cache'.fresh = cache.fresh
        /\ own'.fresh = own.fresh /\ own'.data = own.data
    BY <1>7, TickFields
  <2>3. own'.stamp = Countdown(own.stamp)
    BY <1>7, TickFields
  <2>4. own.stamp \in {NoTime, 0} => own'.stamp = own.stamp
    BY <2>3 DEF Countdown, NoTime
  <2> QED
    BY <2>1, <2>2, <2>4 DEF FreshCopies
<1>8. CASE WriteManifestWithOps
  <2>1. cache' = Stale(cache) /\ own' = Stale(own) /\ pc' = pc
    BY <1>8 DEF WriteManifestWithOps
  <2>2. secret'.fresh = secret.fresh
    BY <1>8, <1>a, ManifestFields
  <2> QED
    BY <2>1, <2>2, <1>a, CopyFields DEF FreshCopies
<1>9. CASE UNCHANGED <<secret, cache, own>> /\ pc' \notin {"open", "clear"}
  BY <1>9 DEF FreshCopies
<1>10. CASE UNCHANGED <<secret, cache, own, pc>>
  BY <1>10 DEF FreshCopies
<1>11. ASSUME NEW o, NEW next \in {"deployment", "service", "idle"},
              ApplyDNSObject(o, next)
       PROVE  FreshCopies'
  BY <1>11, <1>5, <1>9 DEF ApplyDNSObject, Goto, locals, rotations, Done
<1> QED
  BY <1>1, <1>2, <1>3, <1>4, <1>5, <1>6, <1>7, <1>8, <1>9, <1>10, <1>11
     DEF Next, Reconcile, vars, rotations, locals, RequeueAfterWindow,
         UpdateRefused, ReadVariable, VariableNotGenerated,
         CreateDesiredManifest, ApplyDNS, SkipDNS, CallFails, TimerExpires,
         GenerateVariable, RotateVariable, TouchVariable, HandleRotation,
         Crash, Retry, RequeueAfter, Goto

\* The cache lags behind the server and never runs ahead of it.
LEMMA CacheBehindNext ==
    ASSUME TypeOK, FreshCopies, CacheBehind, [Next]_vars
    PROVE  CacheBehind'
<1>a. /\ secret \in Secret /\ cache \in Secret /\ own \in Secret
      /\ secret.data \in Nat /\ cache.data \in Nat
      /\ secret.stamp \in Int /\ cache.stamp \in Int
      /\ cache.stamp <= Window
  BY CopyRanges DEF TypeOK
<1>1. CASE StartMeltdown
  BY <1>1, <1>a, Stamps, WriteStampFields DEF StartMeltdown, CacheBehind
<1>2. ASSUME pc = "clear", WriteStamp(NoTime)
      PROVE  CacheBehind'
  <2>1. secret.stamp = 0
    BY <1>2, WriteStampFields, Stamps DEF FreshCopies
  <2>2. /\ secret'.data = secret.data /\ cache'.data = cache.data
        /\ cache'.stamp = cache.stamp
    BY <1>2, Stamps, WriteStampFields
  <2>3. cache.stamp > 0 => cache.data # secret.data
    BY <2>1, <1>a DEF CacheBehind
  <2> QED
    BY <2>2, <2>3 DEF CacheBehind
<1>3. CASE EndMeltdown
  BY <1>2, <1>3 DEF EndMeltdown
<1>4. CASE UpdateReplyLost
  <2>1. CASE WriteStamp(Window)
    BY <2>1, <1>a, Stamps, WriteStampFields DEF CacheBehind
  <2> QED
    BY <2>1, <1>2, <1>4 DEF UpdateReplyLost
<1>5. CASE Tick
  BY <1>5, <1>a, TickFields DEF CacheBehind, Countdown
<1>6. CASE WriteManifestWithOps
  <2>1. cache'.data = cache.data /\ secret'.data = secret.data + 1
    BY <1>6, <1>a, ManifestFields, CopyFields DEF WriteManifestWithOps
  <2> QED
    BY <2>1, <1>a DEF CacheBehind
<1>7. CASE cache' = secret /\ secret' = secret
  BY <1>7, <1>a DEF CacheBehind
<1>8. CASE UNCHANGED <<secret, cache>>
  BY <1>8 DEF CacheBehind
<1> QED
  BY <1>1, <1>3, <1>4, <1>5, <1>6, <1>7, <1>8
     DEF Next, Reconcile, vars, rotations, Get, RequeueAfterWindow,
         UpdateRefused, ReadVariable, VariableNotGenerated,
         CreateDesiredManifest, ApplyDNS, ApplyDNSObject, SkipDNS, CallFails,
         Watch, TimerExpires, GenerateVariable, RotateVariable, TouchVariable,
         HandleRotation, Crash

\* Only the worker that takes the key removes a trigger.
LEMMA TriggerKept ==
    ASSUME TypeOK, CacheBehind, [Next]_vars, ~Get, Triggered
    PROVE  Triggered'
<1>a. /\ queue \in QueueType(Window)
      /\ secret \in Secret /\ cache \in Secret
      /\ secret.data \in Nat /\ cache.data \in Nat
  BY CopyRanges DEF TypeOK
<1>1. CASE StartMeltdown
  BY <1>1, Stamps, WriteStampFields DEF StartMeltdown, Triggered
<1>2. CASE EndMeltdown
  BY <1>2, Stamps, WriteStampFields DEF EndMeltdown, Triggered
<1>3. CASE Retry
  BY <1>3, RetryTriggers
<1>4. CASE RequeueAfterWindow
  BY <1>4, RetryTriggers, Delays DEF RequeueAfterWindow
<1>5. ASSUME NEW v \in Var, VariableNotGenerated(v) PROVE Triggered'
  BY <1>5, RetryTriggers, Delays DEF VariableNotGenerated
<1>6. CASE Watch
  BY <1>6, <1>a, QueueFields DEF Watch, Triggered
<1>7. CASE TimerExpires
  BY <1>7, <1>a, QueueFields DEF TimerExpires, Triggered
<1>8. CASE Tick
  BY <1>8, <1>a, QueueFields, TickFields DEF Tick, Triggered
<1>9. CASE WriteManifestWithOps
  <2>1. cache'.data = cache.data /\ secret'.data = secret.data + 1
    BY <1>9, <1>a, ManifestFields, CopyFields DEF WriteManifestWithOps
  <2> QED
    BY <2>1, <1>a DEF CacheBehind, Triggered
<1>10. ASSUME NEW v \in Var, HandleRotation(v) PROVE Triggered'
  BY <1>10, <1>a, QueueFields DEF HandleRotation, Triggered
<1>11. CASE Crash
  BY <1>11, StartQueue DEF Crash, Triggered
<1>12. CASE UNCHANGED <<secret, cache, queue>>
  BY <1>12 DEF Triggered
<1> QED
  BY <1>1, <1>2, <1>3, <1>4, <1>5, <1>6, <1>7, <1>8, <1>9, <1>10, <1>11, <1>12
     DEF Next, Reconcile, vars, rotations, UpdateRefused, ReadVariable,
         CreateDesiredManifest, ApplyDNS, ApplyDNSObject, SkipDNS,
         UpdateReplyLost, CallFails, GenerateVariable, RotateVariable,
         TouchVariable

\* New data and a restart trigger the reconciler.
LEMMA NewTriggers ==
    ASSUME TypeOK, CacheBehind
    PROVE  /\ WriteManifestWithOps => Triggered'
           /\ Crash => Triggered'
<1>a. /\ queue \in QueueType(Window)
      /\ secret \in Secret /\ cache \in Secret
      /\ secret.data \in Nat /\ cache.data \in Nat
  BY CopyRanges DEF TypeOK
<1>1. ASSUME WriteManifestWithOps PROVE Triggered'
  <2>1. cache'.data = cache.data /\ secret'.data = secret.data + 1
    BY <1>1, <1>a, ManifestFields, CopyFields DEF WriteManifestWithOps
  <2> QED
    BY <2>1, <1>a DEF CacheBehind, Triggered
<1>2. ASSUME Crash PROVE Triggered'
  BY <1>2, StartQueue DEF Crash, Triggered
<1> QED
  BY <1>1, <1>2

------------------------------------------------------------------------------
(* What a reconcile reads and publishes *)

\* What a reconcile has read stays current, or it will be called again.
LEMMA ReadsCurrentNext ==
    ASSUME TypeOK, FreshCopies, CacheBehind, ReadsCurrent, [Next]_vars
    PROVE  ReadsCurrent'
<1>a. /\ values \in Values /\ variable \in Values /\ pc \in Steps
      /\ secret \in Secret /\ cache \in Secret /\ own \in Secret
  BY DEF TypeOK
<1>b. Triggered => Triggered' \/ Get
  BY TriggerKept
<1>c. Settled \subseteq Var
  BY DEF Settled
<1>d. event \in [Var -> {"none", "live", "outdated"}] /\ skipped \subseteq Var
  BY DEF TypeOK
<1> USE DEF Interpolating, DNSObjects
<1>1. CASE Get
  BY <1>1 DEF Get, Goto, ReadsCurrent, Settled, rotations
<1>2. CASE StartMeltdown
  BY <1>2 DEF StartMeltdown, Goto, locals, rotations, ReadsCurrent, Settled
<1>3. CASE EndMeltdown
  <2>1. /\ own'.data = secret'.data /\ values' = Unread /\ variable' = variable
        /\ Settled' = Settled
    BY <1>3, Stamps, WriteStampFields
       DEF EndMeltdown, locals, rotations, ReadsCurrent, FreshCopies, Settled
  <2> QED
    BY <1>3, <2>1, <1>c, Resets DEF EndMeltdown, Goto, ReadsCurrent
<1>4. CASE Done /\ variable' = variable /\ Settled \subseteq Settled'
  BY <1>4, Resets DEF Done, ReadsCurrent
<1>5. ASSUME NEW v \in Var, ReadVariable(v) PROVE ReadsCurrent'
  <2>1. /\ pc = "interpolate" /\ pc' = pc /\ variable[v] # 0
        /\ values' = [values EXCEPT ![v] = variable[v]]
        /\ UNCHANGED <<own, secret, variable>>
        /\ Settled \subseteq Settled' /\ Settled' \subseteq Settled \cup {v}
        /\ Triggered' <=> Triggered
    BY <1>5 DEF ReadVariable, Triggered, Settled
  <2> QED
    BY <2>1, <1>a, <1>c DEF ReadsCurrent, Values
<1>6. CASE CreateDesiredManifest
  <2>1. /\ pc = "interpolate" /\ pc' = "configmap"
        /\ UNCHANGED <<own, secret, variable, values, Settled>>
        /\ Triggered' <=> Triggered
    BY <1>6
       DEF CreateDesiredManifest, Goto, locals, rotations, Triggered, Settled
  <2> QED
    BY <2>1 DEF ReadsCurrent
<1>7. ASSUME NEW o \in DNSObjects, NEW next \in {"deployment", "service", "idle"},
             ApplyDNSObject(o, next)
      PROVE  ReadsCurrent'
  <2>1. CASE next = "idle"
    BY <2>1, <1>7, <1>4 DEF ApplyDNSObject, Goto, Done, rotations, Settled
  <2>2. CASE next # "idle"
    <3>1. /\ pc = o /\ pc' = next
          /\ UNCHANGED <<own, secret, variable, values, Settled>>
          /\ Triggered' <=> Triggered
      BY <2>2, <1>7
         DEF ApplyDNSObject, Goto, locals, rotations, Triggered, Settled
    <3> QED
      BY <3>1, <2>2 DEF ReadsCurrent
  <2> QED
    BY <2>1, <2>2
<1>8. CASE Tick
  <2>1. /\ own'.data = own.data /\ secret'.data = secret.data
        /\ UNCHANGED <<pc, values, variable, Settled>>
    BY <1>8, TickFields DEF Tick, rotations, Settled
  <2>2. ~Get
    BY <1>8, <1>a, CopyRanges, TickFields, QueueFields
       DEF Tick, Get, TypeOK
  <2> QED
    BY <2>1, <2>2, <1>b DEF ReadsCurrent
<1>9. CASE WriteManifestWithOps
  BY <1>9, NewTriggers
     DEF WriteManifestWithOps, ReadsCurrent, rotations, Settled
<1>10. ASSUME NEW v \in Var, GenerateVariable(v) PROVE ReadsCurrent'
  <2>1. /\ variable[v] = 0 /\ variable' = [variable EXCEPT ![v] = 1]
        /\ UNCHANGED <<pc, own, values, secret, Settled>>
        /\ Triggered' <=> Triggered
    BY <1>10 DEF GenerateVariable, locals, Triggered, Settled
  <2> QED
    BY <2>1, <1>a, <1>c DEF ReadsCurrent, Values
<1>11. ASSUME NEW v \in Var, RotateVariable(v) PROVE ReadsCurrent'
  <2>1. /\ variable' = [variable EXCEPT ![v] = @ + 1]
        /\ variable[v] \in 1 .. MaxRotation - 1
        /\ UNCHANGED <<pc, own, values, secret>>
        /\ Triggered' <=> Triggered
    BY <1>11 DEF RotateVariable, locals, Triggered
  <2>2. Settled' = Settled \ {v}
    BY <1>11, <1>d DEF RotateVariable, Settled
  <2> QED
    BY <2>1, <2>2, <1>a, <1>c, WithOpsAssumption DEF ReadsCurrent, Values
<1>12. CASE ~Get /\ UNCHANGED <<pc, own, values, variable, secret, Settled>>
  BY <1>12, <1>b DEF ReadsCurrent
<1>13. ASSUME NEW v \in Var, TouchVariable(v) PROVE ReadsCurrent'
  <2>1. UNCHANGED <<pc, own, values, variable, secret, Settled>>
    BY <1>13, <1>d DEF TouchVariable, locals, Settled
  <2>2. Triggered' <=> Triggered
    BY <1>13 DEF TouchVariable, Triggered
  <2> QED
    BY <2>1, <2>2 DEF ReadsCurrent
<1>14. ASSUME NEW v \in Var, HandleRotation(v) PROVE ReadsCurrent'
  <2>1. UNCHANGED <<pc, own, values, variable, secret>>
    BY <1>14 DEF HandleRotation, locals
  <2>2. CASE event[v] = "live"
    <3>1. Triggered'
      BY <1>14, <2>2, QueueFields DEF HandleRotation, Triggered, TypeOK
    <3>2. Settled \subseteq Settled'
      BY <1>14, <2>2, <1>d DEF HandleRotation, Settled
    <3> QED
      BY <2>1, <3>1, <3>2 DEF ReadsCurrent
  <2>3. CASE event[v] = "outdated"
    <3>1. Settled' = Settled /\ (Triggered' <=> Triggered)
      BY <1>14, <2>3, <1>d DEF HandleRotation, Settled, Triggered
    <3> QED
      BY <2>1, <3>1 DEF ReadsCurrent
  <2> QED
    BY <1>14, <2>2, <2>3 DEF HandleRotation
<1>15. rotations' = rotations => Settled' = Settled /\ variable' = variable
  BY DEF rotations, Settled
<1>16. CASE Crash
  <2>1. Settled \subseteq Settled' /\ variable' = variable
    BY <1>16 DEF Crash, Settled, NoEvents
  <2> QED
    BY <1>4, <1>16, <2>1 DEF Crash
<1> QED
  BY <1>1, <1>2, <1>3, <1>4, <1>5, <1>6, <1>7, <1>8, <1>9, <1>10, <1>11, <1>12,
     <1>13, <1>14, <1>15, <1>16
     DEF Next, Reconcile, vars, rotations, locals, RequeueAfterWindow,
         UpdateRefused, VariableNotGenerated, ApplyDNS, SkipDNS,
         UpdateReplyLost, CallFails, Watch, TimerExpires, Crash, Retry,
         RequeueAfter

\* A manifest is only published when every variable was read.
LEMMA CompleteNext ==
    ASSUME TypeOK, PublishedComplete, [Next]_vars
    PROVE  PublishedComplete'
<1>1. CASE CreateDesiredManifest
  <2>1. desired' = Result /\ \A v \in Var : values[v] # 0
    BY <1>1 DEF CreateDesiredManifest
  <2> QED
    BY <2>1 DEF PublishedComplete, Result
<1>2. CASE UNCHANGED desired
  BY <1>2 DEF PublishedComplete
<1> QED
  BY <1>1, <1>2
     DEF Next, Reconcile, vars, rotations, Get, StartMeltdown,
         RequeueAfterWindow, EndMeltdown, UpdateRefused, ReadVariable,
         VariableNotGenerated, ApplyDNS, ApplyDNSObject, SkipDNS,
         UpdateReplyLost, CallFails, Watch, TimerExpires, Tick,
         WriteManifestWithOps, GenerateVariable, RotateVariable,
         TouchVariable, HandleRotation, Crash

\* DNS objects are applied in their order from what was published.
LEMMA AppliesNext ==
    ASSUME TypeOK, AppliesInOrder, [Next]_vars
    PROVE  AppliesInOrder'
<1>a. own \in Secret /\ pc \in Steps /\ dns \in [DNSObjects -> Content \cup {Missing}]
  BY DEF TypeOK
<1> USE DEF DNSObjects
<1>1. CASE CreateDesiredManifest
  BY <1>1 DEF CreateDesiredManifest, Goto, locals, rotations, AppliesInOrder,
              Result
<1>2. CASE ApplyDNS
  <2>1. CASE ApplyDNSObject("configmap", "deployment")
    BY <2>1, <1>2, <1>a
       DEF ApplyDNS, ApplyDNSObject, Goto, locals, rotations, AppliesInOrder,
           Result
  <2>2. CASE ApplyDNSObject("deployment", "service")
    BY <2>2, <1>2, <1>a
       DEF ApplyDNS, ApplyDNSObject, Goto, locals, rotations, AppliesInOrder,
           Result
  <2>3. CASE ApplyDNSObject("service", "idle")
    BY <2>3 DEF ApplyDNSObject, Goto, AppliesInOrder
  <2> QED
    BY <1>2, <2>1, <2>2, <2>3 DEF ApplyDNS
<1>3. CASE pc' \notin DNSObjects
  BY <1>3 DEF AppliesInOrder
<1>4. CASE /\ own'.data = own.data
           /\ UNCHANGED <<pc, values, desired, dns, labelled>>
  BY <1>4 DEF AppliesInOrder, Result
<1>5. CASE Tick
  BY <1>4, <1>5, TickFields DEF Tick
<1>6. CASE WriteManifestWithOps
  BY <1>4, <1>6, <1>a, CopyFields DEF WriteManifestWithOps
<1>7. ASSUME NEW v \in Var, ReadVariable(v) PROVE AppliesInOrder'
  BY <1>3, <1>7 DEF ReadVariable
<1>8. CASE Get
  BY <1>3, <1>8 DEF Get, Goto
<1> QED
  BY <1>1, <1>2, <1>3, <1>4, <1>5, <1>6, <1>7, <1>8
     DEF Next, Reconcile, vars, rotations, locals, StartMeltdown,
         RequeueAfterWindow, EndMeltdown, UpdateRefused, VariableNotGenerated,
         SkipDNS, UpdateReplyLost, CallFails, Watch, TimerExpires,
         GenerateVariable, RotateVariable, TouchVariable, HandleRotation,
         Crash, Retry, RequeueAfter, Done, Goto

------------------------------------------------------------------------------
(* Nothing is missed *)

\* A reconcile that reaches DNS has published the current manifest with the
\* current variables, or it will be called again.
LEMMA PublishedCurrent ==
    ASSUME WithOpsInv, pc \in DNSObjects, ~Triggered
    PROVE  UpToDate
<1>1. /\ own.data = secret.data /\ desired = Result
      /\ \A v \in Settled : values[v] = variable[v]
  BY DEF WithOpsInv, TypeOK, ReadsCurrent, AppliesInOrder, Interpolating,
         Settled
<1> QED
  BY <1>1 DEF UpToDate, Result

\* Whoever leaves the reconciler idle and untriggered leaves nothing undone.
LEMMA NothingLeftNext ==
    ASSUME WithOpsInv, [Next]_vars
    PROVE  NothingLeft'
<1>a. /\ TypeOK /\ FreshCopies /\ CacheBehind /\ NothingLeft
      /\ secret \in Secret /\ cache \in Secret
      /\ secret.stamp \in Int /\ cache.stamp \in Int
      /\ dns \in [DNSObjects -> Content \cup {Missing}]
  BY CopyRanges DEF WithOpsInv, TypeOK
<1>b. Triggered => Triggered' \/ Get
  BY <1>a, TriggerKept
<1>1. CASE Get
  <2>1. CASE pc' = "idle"
    <3>1. cache.stamp > 0 /\ UNCHANGED <<secret, cache>>
      BY <1>1, <2>1 DEF Get, Goto
    <3>2. cache.data # secret.data \/ secret.stamp # NoTime
      BY <3>1, <1>a DEF CacheBehind, NoTime
    <3> QED
      BY <3>1, <3>2 DEF NothingLeft, Triggered
  <2> QED
    BY <2>1 DEF NothingLeft
<1>2. CASE Triggered' \/ pc' # "idle"
  BY <1>2 DEF NothingLeft
<1>3. CASE labelled /\ ApplyDNSObject("service", "idle")
  <2>1. /\ pc = "service" /\ dns' = [dns EXCEPT !["service"] = Result]
        /\ UNCHANGED <<secret, cache, rotations, queue, desired, labelled>>
    BY <1>3 DEF ApplyDNSObject
  <2>2. ~Triggered' => UpToDate
    BY <2>1, PublishedCurrent DEF Triggered, DNSObjects
  <2>3. \A o \in DNSObjects : dns'[o] = desired
    BY <2>1, <1>a DEF WithOpsInv, AppliesInOrder, DNSObjects
  <2> QED
    BY <2>1, <2>2, <2>3
       DEF NothingLeft, UpToDate, DNSUpToDate, Settled, rotations
<1>4. CASE SkipDNS
  <2>1. /\ pc = "configmap" /\ ~labelled
        /\ UNCHANGED <<secret, cache, rotations, queue, desired, labelled>>
    BY <1>4 DEF SkipDNS
  <2>2. ~Triggered' => UpToDate
    BY <2>1, PublishedCurrent DEF Triggered, DNSObjects
  <2> QED
    BY <2>1, <2>2 DEF NothingLeft, UpToDate, Settled, rotations
<1>5. CASE Tick
  <2>1. /\ secret'.data = secret.data
        /\ secret'.stamp = Countdown(secret.stamp)
        /\ UNCHANGED <<rotations, pc, desired, dns, labelled>>
    BY <1>5, <1>a, TickFields DEF Tick
  <2>2. secret'.stamp = NoTime => secret.stamp = NoTime
    BY <2>1, <1>a DEF Countdown, NoTime
  <2>3. Triggered => Triggered'
    BY <1>5, <1>a, QueueFields, TickFields DEF Tick, Triggered, TypeOK
  <2> QED
    BY <2>1, <2>2, <2>3, <1>a
       DEF NothingLeft, UpToDate, DNSUpToDate, Settled, rotations
<1>6. ASSUME NEW v \in Var, GenerateVariable(v) PROVE NothingLeft'
  <2>1. /\ variable[v] = 0
        /\ UNCHANGED <<secret, cache, queue, pc>>
    BY <1>6 DEF GenerateVariable
  <2>2. ~UpToDate
    <3>1. SUFFICES ASSUME UpToDate PROVE FALSE
      OBVIOUS
    <3>2. desired.data # 0 /\ desired.values[v] = 0
      BY <3>1, <2>1, <1>a, CopyRanges DEF UpToDate, WithOpsInv, ReadsCurrent
    <3>3. desired # Missing
      BY <3>2 DEF Missing
    <3> QED
      BY <3>2, <3>3 DEF WithOpsInv, PublishedComplete
  <2> QED
    BY <2>1, <2>2, <1>a DEF NothingLeft, Triggered
<1>7. CASE ~Get /\ UNCHANGED <<secret, rotations, pc, desired, dns, labelled>>
  BY <1>7, <1>a, <1>b
     DEF NothingLeft, UpToDate, DNSUpToDate, Settled, rotations
<1>8. CASE UpdateRefused \/ UpdateReplyLost \/ CallFails
  BY <1>2, <1>8, <1>a, RetryTriggers
     DEF UpdateRefused, UpdateReplyLost, CallFails
<1>9. CASE RequeueAfterWindow \/ \E v \in Var : VariableNotGenerated(v)
  BY <1>2, <1>9, <1>a, RetryTriggers, Delays
     DEF RequeueAfterWindow, VariableNotGenerated
<1>10. CASE WriteManifestWithOps \/ Crash
  BY <1>2, <1>10, <1>a, NewTriggers
<1>11. CASE StartMeltdown \/ EndMeltdown \/ CreateDesiredManifest
  BY <1>2, <1>11 DEF StartMeltdown, EndMeltdown, CreateDesiredManifest, Goto
<1>12. ASSUME NEW v \in Var, ReadVariable(v) PROVE NothingLeft'
  BY <1>2, <1>12 DEF ReadVariable
<1>13. CASE \/ ApplyDNSObject("configmap", "deployment")
            \/ ApplyDNSObject("deployment", "service")
  BY <1>2, <1>13 DEF ApplyDNSObject, Goto
<1>14. ASSUME NEW v \in Var, RotateVariable(v) \/ TouchVariable(v)
       PROVE  NothingLeft'
  <2>1. /\ UNCHANGED <<secret, cache, queue, pc, desired, dns, labelled>>
        /\ variable' \in {variable, [variable EXCEPT ![v] = @ + 1]}
    BY <1>14 DEF RotateVariable, TouchVariable
  <2>2. Settled' = Settled \ {v}
    BY <1>14, <1>a DEF RotateVariable, TouchVariable, Settled, TypeOK
  <2>3. UpToDate => UpToDate'
    BY <2>1, <2>2, <1>a DEF UpToDate, TypeOK, Values, Settled
  <2> QED
    BY <2>1, <2>3, <1>a DEF NothingLeft, DNSUpToDate, Triggered
<1>15. ASSUME NEW v \in Var, HandleRotation(v) PROVE NothingLeft'
  <2>1. UNCHANGED <<secret, cache, variable, pc, desired, dns, labelled>>
    BY <1>15 DEF HandleRotation
  <2>2. CASE event[v] = "live"
    <3>1. Triggered'
      BY <1>15, <2>2, <1>a, QueueFields DEF HandleRotation, Triggered, TypeOK
    <3> QED
      BY <3>1 DEF NothingLeft
  <2>3. CASE event[v] = "outdated"
    <3>1. Settled' = Settled /\ queue' = queue
      BY <1>15, <2>3, <1>a DEF HandleRotation, Settled, TypeOK
    <3> QED
      BY <2>1, <3>1, <1>a DEF NothingLeft, UpToDate, DNSUpToDate, Triggered
  <2> QED
    BY <1>15, <2>2, <2>3 DEF HandleRotation
<1> QED
  BY <1>1, <1>3, <1>4, <1>5, <1>6, <1>7, <1>8, <1>9, <1>10, <1>11, <1>12, <1>13,
     <1>14, <1>15
     DEF Next, Reconcile, vars, rotations, locals, ApplyDNS, Watch,
         TimerExpires

\* An operator that just started is triggered.
LEMMA WithOpsInit == Init => WithOpsInv
<1> SUFFICES ASSUME Init PROVE WithOpsInv
  OBVIOUS
<1>a. TypeOK
  BY TypeInit
<1>1. secret.fresh /\ secret.data = 1 /\ secret.stamp = NoTime /\ cache = secret
  BY DEF Init
<1>2. FreshCopies
  BY <1>1, Resets DEF Init, FreshCopies
<1>3. CacheBehind
  BY <1>1 DEF CacheBehind, NoTime
<1>4. ReadsCurrent
  BY Resets
     DEF Init, ReadsCurrent, Interpolating, DNSObjects, Settled, NoEvents
<1>5. PublishedComplete /\ AppliesInOrder
  BY DEF Init, PublishedComplete, AppliesInOrder, DNSObjects
<1>6. NothingLeft
  BY StartQueue DEF Init, NothingLeft, Triggered
<1> QED
  BY <1>a, <1>2, <1>3, <1>4, <1>5, <1>6 DEF WithOpsInv

\* Every step keeps the invariant.
LEMMA WithOpsNext == WithOpsInv /\ [Next]_vars => WithOpsInv'
<1> SUFFICES ASSUME WithOpsInv, [Next]_vars PROVE WithOpsInv'
  OBVIOUS
<1>1. TypeOK /\ FreshCopies /\ CacheBehind /\ ReadsCurrent
      /\ PublishedComplete /\ AppliesInOrder
  BY DEF WithOpsInv
<1> QED
  BY <1>1, TypeNext, FreshNext, CacheBehindNext, ReadsCurrentNext,
     CompleteNext, AppliesNext, NothingLeftNext
     DEF WithOpsInv

\* The invariant of the with-ops reconciler.
THEOREM WithOpsInvariant == Spec => []WithOpsInv
  BY WithOpsInit, WithOpsNext, PTL DEF Spec

\* A reconciler at rest is neither running nor triggered.
LEMMA RestIsQuiet ==
    ASSUME WithOpsInv, AtRest
    PROVE  pc = "idle" /\ ~Triggered
<1>1. cache = secret /\ queue = EmptyQueue
  BY DEF WithOpsInv, FreshCopies, AtRest
<1>2. ~queue.dirty /\ queue.due = NotWaiting
  BY <1>1 DEF EmptyQueue
<1> QED
  BY <1>1, <1>2 DEF AtRest, Triggered

\* When nothing is left to do and no meltdown is open, the desired manifest is
\* the current with-ops manifest with the current variables: reading variables
\* one by one while they rotate, stale caches, refused and lost updates, failed
\* calls and restarts lose no trigger.  Only skip.Reconciles does, and the
\* variables it leaves behind are the ones in skipped.
THEOREM NoTriggerMissed == Spec => []NothingMissed
<1>1. WithOpsInv => NothingMissed
  BY RestIsQuiet DEF WithOpsInv, NothingLeft, NothingMissed
<1> QED
  BY <1>1, WithOpsInvariant, PTL

\* ... and, in a namespace with the label, so are the DNS objects.
THEOREM DNSNotMissed == Spec => []DNSFollowsManifest
<1>1. WithOpsInv => DNSFollowsManifest
  BY RestIsQuiet DEF WithOpsInv, NothingLeft, DNSFollowsManifest
<1> QED
  BY <1>1, WithOpsInvariant, PTL
==============================================================================
