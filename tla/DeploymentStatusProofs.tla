----------------------- MODULE DeploymentStatusProofs -----------------------
(***************************************************************************)
(* Proofs about DeploymentStatus, for any number of QuarksJobs,            *)
(* QuarksStatefulSets and workers.                                         *)
(***************************************************************************)
EXTENDS DeploymentStatus, FiniteSetTheorems, TLAPS

------------------------------------------------------------------------------
(* Types *)

\* The counts of a kind lie between zero and the number of its objects
\* (resolveDeploymentState, the totals and the ready ones).
LEMMA CountsBounded ==
    ASSUME NEW kind, IsFiniteSet(kind), NEW view
    PROVE  /\ Total(view, kind) \in 0 .. Cardinality(kind)
           /\ Ready(view, kind) \in 0 .. Cardinality(kind)
<1>1. ASSUME NEW S \in SUBSET kind
      PROVE  Cardinality(S) \in 0 .. Cardinality(kind)
  <2>1. IsFiniteSet(S) /\ Cardinality(S) <= Cardinality(kind)
    BY FS_Subset
  <2>2. Cardinality(S) \in Nat /\ Cardinality(kind) \in Nat
    BY <2>1, FS_CardinalityType
  <2> QED
    BY <2>1, <2>2
<1>2. Total(view, kind) \in 0 .. Cardinality(kind)
  BY <1>1 DEF Total
<1>3. Ready(view, kind) \in 0 .. Cardinality(kind)
  BY <1>1 DEF Ready
<1> QED
  BY <1>2, <1>3

\* A state is computed for every combination of counts (StateOf).
LEMMA StateOfType ==
    ASSUME NEW s
    PROVE  StateOf(s) \in States
BY DEF StateOf, States

\* Counting keeps a status well typed (WithQJobs, WithQSTS).
LEMMA CountingType ==
    ASSUME NEW s \in Status, NEW view
    PROVE  WithQJobs(s, view) \in Status /\ WithQSTS(s, view) \in Status
<1>1. IsFiniteSet(QJobs) /\ IsFiniteSet(QSTS)
  BY StatusAssumption
<1>2. WithQJobs(s, view) \in Status
  <2>1. /\ Total(view, QJobs) \in 0 .. Cardinality(QJobs)
        /\ Ready(view, QJobs) \in 0 .. Cardinality(QJobs)
    BY <1>1, CountsBounded
  <2> QED
    BY <2>1 DEF WithQJobs, Status
<1>3. WithQSTS(s, view) \in Status
  <2> DEFINE counted == [s EXCEPT !.totalGroups = Total(view, QSTS),
                                  !.deployedGroups = Ready(view, QSTS)]
  <2>1. /\ Total(view, QSTS) \in 0 .. Cardinality(QSTS)
        /\ Ready(view, QSTS) \in 0 .. Cardinality(QSTS)
    BY <1>1, CountsBounded
  <2>2. counted \in Status
    BY <2>1 DEF Status
  <2>3. StateOf(counted) \in States
    BY StateOfType
  <2>4. WithQSTS(s, view) = [counted EXCEPT !.state = StateOf(counted)]
    BY DEF WithQSTS
  <2> QED
    BY <2>2, <2>3, <2>4 DEF Status
<1> QED
  BY <1>2, <1>3

\* The initial status and the idle worker are well typed.
LEMMA InitialTypes ==
    NewStatus \in Status /\ NoNews \in News /\ Idle \in Worker
<1>1. Cardinality(QJobs) \in Nat /\ Cardinality(QSTS) \in Nat
  BY StatusAssumption, FS_CardinalityType
<1>2. NewStatus \in Status
  BY <1>1 DEF NewStatus, Status, States
<1>3. NoNews \in News
  BY DEF NoNews, News
<1> QED
  BY <1>2, <1>3 DEF Idle, Worker, Copy, Steps

\* Outdating copies keeps workers well typed (OutdatedWorkers).
LEMMA OutdatedType ==
    ASSUME worker \in [Objects -> Worker]
    PROVE  OutdatedWorkers \in [Objects -> Worker]
BY DEF OutdatedWorkers, Worker, Copy

\* A step of a reconcile keeps the types.
LEMMA ReconcileType ==
    ASSUME TypeOK, NEW o \in Objects, Reconcile(o)
    PROVE  TypeOK'
<1> USE DEF TypeOK
<1>1. CASE Get(o)
  BY <1>1 DEF Get, Worker, Steps
<1>2. CASE GetBDPL(o)
  <2>1. worker' \in [Objects -> Worker]
    BY <1>2 DEF GetBDPL, Worker, Steps
  <2> QED
    BY <1>2, <2>1 DEF GetBDPL
<1>3. CASE ListQJobs(o)
  <2> DEFINE old == worker[o].copy
             new == WithQJobs(old.status, cached)
  <2>1. new \in Status /\ old.fresh \in BOOLEAN
    BY CountingType DEF Worker, Copy
  <2>2. worker' = [worker EXCEPT ![o] =
            [pc |-> "listQSTS",
             copy |-> [status |-> new, fresh |-> old.fresh],
             changed |-> (new # old.status),
             heard |-> [qjobs |-> news.qjobs, qsts |-> 0]]]
    BY <1>3 DEF ListQJobs
  <2>3. UNCHANGED <<objs, cached, bdpl, bdplCache, queue, left, news, reported>>
    BY <1>3 DEF ListQJobs
  <2> HIDE DEF new, old
  <2>4. [qjobs |-> news.qjobs, qsts |-> 0] \in News
    BY DEF News
  <2>5. worker' \in [Objects -> Worker]
    BY <2>1, <2>2, <2>4 DEF Worker, Copy, Steps
  <2> QED
    BY <2>3, <2>5
<1>4. CASE ListQSTS(o)
  <2> DEFINE old == worker[o].copy
             new == WithQSTS(old.status, cached)
             heard == [qjobs |-> worker[o].heard.qjobs, qsts |-> news.qsts]
  <2>1. new \in Status /\ old.fresh \in BOOLEAN
    BY CountingType DEF Worker, Copy
  <2>2. \/ worker' = [worker EXCEPT ![o] =
                [pc |-> "update",
                 copy |-> [status |-> new, fresh |-> old.fresh],
                 changed |-> TRUE,
                 heard |-> heard]]
        \/ worker' = [worker EXCEPT ![o] = Idle]
    BY <1>4 DEF ListQSTS, Finish
  <2>3. UNCHANGED <<objs, cached, bdpl, bdplCache, queue, left, news, reported>>
    BY <1>4 DEF ListQSTS
  <2>4. heard \in News
    BY DEF News, Worker
  <2> HIDE DEF new, old, heard
  <2>5. [pc |-> "update", copy |-> [status |-> new, fresh |-> old.fresh],
         changed |-> TRUE, heard |-> heard] \in Worker
    BY <2>1, <2>4 DEF Worker, Copy, Steps
  <2>6. worker' \in [Objects -> Worker]
    BY <2>2, <2>5, InitialTypes
  <2> QED
    BY <2>3, <2>6
<1>5. CASE UpdateStatus(o)
  <2>1. worker' \in [Objects -> Worker]
    BY <1>5, OutdatedType, InitialTypes DEF UpdateStatus
  <2>2. /\ bdpl' \in Status /\ reported' \in News
        /\ bdplCache' \in Copy
    BY <1>5 DEF UpdateStatus, Worker, Copy
  <2> QED
    BY <1>5, <2>1, <2>2 DEF UpdateStatus
<1>6. CASE UpdateRefused(o)
  <2>1. worker' \in [Objects -> Worker]
    BY <1>6, InitialTypes DEF UpdateRefused, Retry
  <2> QED
    BY <1>6, <2>1 DEF UpdateRefused, Retry
<1> QED
  BY <1>1, <1>2, <1>3, <1>4, <1>5, <1>6 DEF Reconcile

\* Every step keeps the types.
LEMMA NextType ==
    ASSUME TypeOK, [Next]_vars
    PROVE  TypeOK'
<1> USE DEF TypeOK
<1>1. ASSUME NEW o \in Objects, Reconcile(o)
      PROVE  TypeOK'
  BY <1>1, ReconcileType
<1>2. ASSUME NEW o \in Objects, CallFails(o)
      PROVE  TypeOK'
  <2>1. worker' \in [Objects -> Worker] /\ queue' \subseteq Objects
    BY <1>2, InitialTypes DEF CallFails, Retry
  <2>2. left' \in Bounds
    BY <1>2, StatusAssumption DEF CallFails, Bounds
  <2> QED
    BY <1>2, <2>1, <2>2 DEF CallFails
<1>3. ASSUME NEW o \in Objects, Watch(o)
      PROVE  TypeOK'
  <2>1. news' \in News
    BY <1>3 DEF Watch, Heard, News
  <2> QED
    BY <1>3, <2>1 DEF Watch
<1>4. ASSUME NEW o \in Objects, Resync(o)
      PROVE  TypeOK'
  BY <1>4 DEF Resync
<1>5. ASSUME NEW o \in Objects, Change(o)
      PROVE  TypeOK'
  <2>1. left' \in Bounds
    BY <1>5, StatusAssumption DEF Change, Bounds
  <2> QED
    BY <1>5, <2>1 DEF Change
<1>6. ASSUME NEW o \in Objects, Delete(o)
      PROVE  TypeOK'
  <2>1. left' \in Bounds
    BY <1>6, StatusAssumption DEF Delete, Bounds
  <2> QED
    BY <1>6, <2>1 DEF Delete
<1>7. CASE WatchBDPL
  BY <1>7 DEF WatchBDPL, Copy
<1>8. CASE SetCreating
  <2>1. left' \in Bounds
    BY <1>8, StatusAssumption DEF SetCreating, Bounds
  <2>2. worker' \in [Objects -> Worker]
    BY <1>8, OutdatedType DEF SetCreating
  <2>3. bdpl' \in Status
    BY <1>8 DEF SetCreating, Status, States
  <2>4. bdplCache' \in Copy
    BY <1>8 DEF SetCreating, Copy
  <2> QED
    BY <1>8, <2>1, <2>2, <2>3, <2>4 DEF SetCreating
<1>9. CASE Crash
  <2>1. left' \in Bounds
    BY <1>9, StatusAssumption DEF Crash, Bounds
  <2>2. worker' \in [Objects -> Worker]
    BY <1>9, InitialTypes DEF Crash
  <2>3. bdplCache' \in Copy
    BY <1>9 DEF Crash, Copy
  <2> QED
    BY <1>9, <2>1, <2>2, <2>3 DEF Crash
<1>10. CASE UNCHANGED vars
  BY <1>10 DEF vars
<1> QED
  BY <1>1, <1>2, <1>3, <1>4, <1>5, <1>6, <1>7, <1>8, <1>9, <1>10 DEF Next

\* Every reachable state of the status reconcilers is well typed: the counts
\* they write never exceed the number of objects there are
\* (status_reconciler.go, resolveDeploymentState).
THEOREM StatusTypeCorrect == Spec => []TypeOK
<1>1. Init => TypeOK
  <2> SUFFICES ASSUME Init
               PROVE  TypeOK
    OBVIOUS
  <2>1. left \in Bounds
    BY StatusAssumption DEF Init, Bounds
  <2>2. bdpl \in Status /\ bdplCache \in Copy
    BY InitialTypes DEF Init, Copy
  <2>3. worker \in [Objects -> Worker] /\ news \in News /\ reported \in News
    BY InitialTypes DEF Init
  <2> QED
    BY <2>1, <2>2, <2>3 DEF Init, TypeOK
<1>2. TypeOK /\ [Next]_vars => TypeOK'
  BY NextType
<1> QED
  BY <1>1, <1>2, PTL DEF Spec

------------------------------------------------------------------------------
(* The status never goes back *)

\* What a worker has heard, and the news, are natural numbers.
LEMMA NewsTypes ==
    ASSUME TypeOK
    PROVE  /\ news.qjobs \in Nat /\ news.qsts \in Nat
           /\ reported.qjobs \in Nat /\ reported.qsts \in Nat
           /\ \A o \in Objects : /\ worker[o].heard.qjobs \in Nat
                                 /\ worker[o].heard.qsts \in Nat
BY DEF TypeOK, News, Worker

\* A worker that becomes idle keeps both parts of the invariant.
LEMMA IdleHeard ==
    /\ Idle.copy.fresh = FALSE
    /\ Idle.heard.qjobs = 0 /\ Idle.heard.qsts = 0
BY DEF Idle, NoNews

\* A step of a reconcile keeps the invariant.
LEMMA ReconcileHeard ==
    ASSUME TypeOK, StatusInv, NEW o \in Objects, Reconcile(o)
    PROVE  StatusInv'
<1> USE DEF StatusInv, HeardSinceRead, ReportedIsOld
<1>0. worker \in [Objects -> Worker]
  BY DEF TypeOK
<1>1. CASE Get(o)
  BY <1>0, <1>1, NewsTypes DEF Get, Worker
<1>2. CASE GetBDPL(o)
  BY <1>0, <1>2, NewsTypes DEF GetBDPL, Worker
<1>3. CASE ListQJobs(o)
  <2>1. /\ worker'[o].pc = "listQSTS"
        /\ worker'[o].heard.qjobs = news.qjobs
        /\ worker'[o].heard.qsts = 0
        /\ \A p \in Objects \ {o} : worker'[p] = worker[p]
    BY <1>0, <1>3 DEF ListQJobs
  <2>2. UNCHANGED <<news, reported>>
    BY <1>3 DEF ListQJobs
  <2> QED
    BY <2>1, <2>2, NewsTypes
<1>4. CASE ListQSTS(o)
  <2>0. \A p \in Objects \ {o} : worker'[p] = worker[p]
    BY <1>0, <1>4 DEF ListQSTS, Finish
  <2>1. \/ /\ worker'[o].copy.fresh = worker[o].copy.fresh
           /\ worker'[o].heard.qsts = news.qsts
           /\ worker'[o].heard.qjobs = worker[o].heard.qjobs
        \/ worker'[o] = Idle
    BY <1>0, <1>4 DEF ListQSTS, Finish
  <2>2. worker[o].pc = "listQSTS" /\ UNCHANGED <<news, reported>>
    BY <1>4 DEF ListQSTS
  <2> QED
    BY <2>0, <2>1, <2>2, NewsTypes, IdleHeard
<1>5. CASE UpdateStatus(o)
  <2>1. \A p \in Objects : /\ worker'[p].copy.fresh = FALSE
                           /\ \/ worker'[p].heard = worker[p].heard
                              \/ worker'[p].heard = NoNews
    BY <1>0, <1>5 DEF UpdateStatus, OutdatedWorkers, Idle, Worker, Copy
  <2> QED
    BY <1>5, <2>1, NewsTypes DEF UpdateStatus, NoNews
<1>6. CASE UpdateRefused(o)
  <2>1. \A p \in Objects : worker'[p] = worker[p] \/ worker'[p] = Idle
    BY <1>0, <1>6 DEF UpdateRefused, Retry
  <2> QED
    BY <1>6, <2>1, NewsTypes, IdleHeard DEF UpdateRefused
<1> QED
  BY <1>1, <1>2, <1>3, <1>4, <1>5, <1>6 DEF Reconcile

\* Every step keeps the invariant.
LEMMA NextHeard ==
    ASSUME TypeOK, StatusInv, [Next]_vars
    PROVE  StatusInv'
<1> USE DEF StatusInv, HeardSinceRead, ReportedIsOld
<1>0. worker \in [Objects -> Worker]
  BY DEF TypeOK
<1>1. ASSUME NEW o \in Objects, Reconcile(o)
      PROVE  StatusInv'
  BY <1>1, ReconcileHeard
<1>2. ASSUME NEW o \in Objects, CallFails(o)
      PROVE  StatusInv'
  <2>1. \A p \in Objects : worker'[p] = worker[p] \/ worker'[p] = Idle
    BY <1>0, <1>2 DEF CallFails, Retry
  <2> QED
    BY <1>2, <2>1, NewsTypes, IdleHeard DEF CallFails
<1>3. ASSUME NEW o \in Objects, Watch(o)
      PROVE  StatusInv'
  <2>1. news'.qjobs >= news.qjobs /\ news'.qsts >= news.qsts
        /\ news'.qjobs \in Nat /\ news'.qsts \in Nat
    BY <1>3 DEF Watch, Heard, TypeOK, News
  <2> QED
    BY <1>3, <2>1, NewsTypes DEF Watch
<1>4. ASSUME NEW o \in Objects, Resync(o) \/ Change(o) \/ Delete(o)
      PROVE  StatusInv'
  BY <1>4 DEF Resync, Change, Delete
<1>5. CASE WatchBDPL
  BY <1>5 DEF WatchBDPL
<1>6. CASE SetCreating
  <2>1. \A p \in Objects : /\ worker'[p].copy.fresh = FALSE
                           /\ worker'[p].heard = worker[p].heard
    BY <1>0, <1>6 DEF SetCreating, OutdatedWorkers, Worker, Copy
  <2> QED
    BY <1>6, <2>1 DEF SetCreating
<1>7. CASE Crash
  <2>1. \A p \in Objects : worker'[p] = Idle
    BY <1>7 DEF Crash
  <2> QED
    BY <1>7, <2>1, NewsTypes, IdleHeard DEF Crash
<1>8. CASE UNCHANGED vars
  BY <1>8 DEF vars
<1> QED
  BY <1>1, <1>2, <1>3, <1>4, <1>5, <1>6, <1>7, <1>8 DEF Next

\* Only an accepted write replaces the reported news, and by newer ones.
LEMMA StepNeverGoesBack ==
    ASSUME TypeOK, StatusInv, [Next]_vars
    PROVE  /\ reported'.qjobs >= reported.qjobs
           /\ reported'.qsts >= reported.qsts
<1>1. ASSUME NEW o \in Objects, UpdateStatus(o)
      PROVE  /\ reported'.qjobs >= reported.qjobs
             /\ reported'.qsts >= reported.qsts
  BY <1>1 DEF UpdateStatus, Accepts, StatusInv, HeardSinceRead
<1>2. CASE reported' = reported
  BY <1>2, NewsTypes
<1>3. (\E o \in Objects : UpdateStatus(o)) \/ reported' = reported
  BY DEF Next, Reconcile, Get, GetBDPL, ListQJobs, ListQSTS, UpdateRefused,
         CallFails, Watch, Resync, Change, Delete, WatchBDPL, SetCreating,
         Crash, vars
<1> QED
  BY <1>1, <1>2, <1>3

\* However many workers of the two status controllers race, the status in the
\* API server is never replaced by one that is built on older listings of
\* QuarksJobs or QuarksStatefulSets (status_reconciler.go, both Reconcile).
THEOREM StatusMonotone == Spec => StatusNeverGoesBack
<1>1. Init => StatusInv
  BY DEF Init, StatusInv, HeardSinceRead, ReportedIsOld, Idle, NoNews
<1>2. TypeOK /\ StatusInv /\ [Next]_vars => StatusInv'
  BY NextHeard
<1>3. TypeOK /\ StatusInv /\ [Next]_vars =>
        [/\ reported'.qjobs >= reported.qjobs
         /\ reported'.qsts >= reported.qsts]_vars
  BY StepNeverGoesBack
<1>4. Spec => []TypeOK
  BY StatusTypeCorrect
<1> QED
  BY <1>1, <1>2, <1>3, <1>4, PTL DEF Spec, StatusNeverGoesBack
==============================================================================
