-------------------------- MODULE DeploymentStatus --------------------------
(***************************************************************************)
(* The two status reconcilers (status_controller.go, status_reconciler.go) *)
(* that keep the counts and the state of a BOSHDeployment up to date with  *)
(* its QuarksJobs and QuarksStatefulSets.  They differ only in the kind of *)
(* object that triggers them, so one set of actions, indexed by the object *)
(* whose key a worker holds, models both.                                  *)
(*                                                                         *)
(* Every read is answered from an informer cache; the caches of the two    *)
(* kinds and of the BOSHDeployment catch up independently.  The write      *)
(* carries the resource version of the BOSHDeployment that was read.       *)
(***************************************************************************)
EXTENDS Naturals, FiniteSets

CONSTANTS
    QJobs,        \* QuarksJobs labelled with the deployment's name
    QSTS,         \* QuarksStatefulSets labelled with it
    MaxWorkers,   \* MaxConcurrentReconciles of each of the two controllers
    MaxChanges,   \* bound: how often an object is created or its status flips
    MaxDeletes,   \* bound: how many objects are deleted
    MaxDeploys,   \* bound: how often the BOSHDeployment reconciler sets a state
    MaxFaults     \* bound: failing calls and restarts

Objects == QJobs \cup QSTS

ASSUME StatusAssumption ==
    /\ IsFiniteSet(QJobs) /\ IsFiniteSet(QSTS)
    /\ QJobs \cap QSTS = {}
    /\ MaxWorkers \in Nat \ {0}
    /\ MaxChanges \in Nat /\ MaxDeletes \in Nat
    /\ MaxDeploys \in Nat /\ MaxFaults \in Nat

VARIABLES
    objs,      \* QuarksJobs and QuarksStatefulSets in the API server
    cached,    \* the same objects in the informer caches
    bdpl,      \* Status of the BOSHDeployment in the API server
    bdplCache, \* the copy of it in the informer cache
    queue,     \* keys in the two work queues
    worker,    \* by key: the reconcile that holds it
    left,      \* how often the environment may still act
    news,      \* history: changes delivered to the caches, by kind
    reported   \* history: the news the status in the API server is built on

vars == <<objs, cached, bdpl, bdplCache, queue, worker, left, news, reported>>

------------------------------------------------------------------------------
(* Types *)

BDPLStateCreating == "Creating/Updating"
BDPLStateConverting == "Converting to Kube resource"
BDPLStateResolving == "Resolving Manifest"
BDPLStateDeployed == "Deployed"

States == {BDPLStateCreating, BDPLStateConverting, BDPLStateResolving,
           BDPLStateDeployed}

\* An object is ready when its Status.Completed or Status.Ready is set.
Existing == {"pending", "ready"}

Status == [totalJobs : 0 .. Cardinality(QJobs),
           completedJobs : 0 .. Cardinality(QJobs),
           totalGroups : 0 .. Cardinality(QSTS),
           deployedGroups : 0 .. Cardinality(QSTS),
           state : States]

\* A copy is fresh while the BOSHDeployment is not written: the resource
\* version it carries is the one in the API server.
Copy == [status : Status, fresh : BOOLEAN]

\* How many changes of the objects of a kind the caches have heard of.
News == [qjobs : Nat, qsts : Nat]

Steps == {"idle", "getBDPL", "listQJobs", "listQSTS", "update"}

Worker == [pc : Steps, copy : Copy, changed : BOOLEAN, heard : News]

Bounds == [changes : 0 .. MaxChanges, deletes : 0 .. MaxDeletes,
           deploys : 0 .. MaxDeploys, faults : 0 .. MaxFaults]

TypeOK ==
    /\ objs \in [Objects -> Existing \cup {"absent"}]
    /\ cached \in [Objects -> Existing \cup {"absent"}]
    /\ bdpl \in Status
    /\ bdplCache \in Copy
    /\ queue \subseteq Objects
    /\ worker \in [Objects -> Worker]
    /\ left \in Bounds
    /\ news \in News
    /\ reported \in News

------------------------------------------------------------------------------
(* Helpers *)

NewStatus == [totalJobs |-> 0, completedJobs |-> 0, totalGroups |-> 0,
              deployedGroups |-> 0, state |-> BDPLStateCreating]

NoNews == [qjobs |-> 0, qsts |-> 0]

Idle == [pc |-> "idle", copy |-> [status |-> NewStatus, fresh |-> FALSE],
         changed |-> FALSE, heard |-> NoNews]

Busy(kind) == {o \in kind : worker[o].pc # "idle"}

Total(view, kind) == Cardinality({o \in kind : view[o] # "absent"})

Ready(view, kind) == Cardinality({o \in kind : view[o] = "ready"})

\* Faulty variant: one kind that is complete is enough to be deployed.
StateOfEither(s) ==
    LET jobsDone == s.completedJobs = s.totalJobs
        groupsDone == s.deployedGroups = s.totalGroups
    IN  IF jobsDone \/ groupsDone THEN BDPLStateDeployed
        ELSE BDPLStateResolving

\* The final state follows from the counts.
StateOf(s) ==
    LET jobsDone == s.completedJobs = s.totalJobs
        groupsDone == s.deployedGroups = s.totalGroups
    IN  CASE jobsDone /\ groupsDone -> BDPLStateDeployed
          [] ~jobsDone /\ ~groupsDone -> BDPLStateResolving
          [] OTHER -> BDPLStateConverting

\* Faulty variant: the list is not restricted to QuarksJobs.
WithAllObjects(s, view) ==
    [s EXCEPT !.totalJobs = Total(view, Objects),
              !.completedJobs = Ready(view, Objects)]

WithQJobs(s, view) ==
    [s EXCEPT !.totalJobs = Total(view, QJobs),
              !.completedJobs = Ready(view, QJobs)]

WithQSTS(s, view) ==
    LET counted == [s EXCEPT !.totalGroups = Total(view, QSTS),
                             !.deployedGroups = Ready(view, QSTS)]
    IN  [counted EXCEPT !.state = StateOf(counted)]

\* The API server's optimistic lock.
Accepts(copy) == copy.fresh

\* The BOSHDeployment was written: no copy carries its version any more.
OutdatedWorkers == [o \in Objects |-> [worker[o] EXCEPT !.copy.fresh = FALSE]]

\* A reconcile that returns an error is put back into the queue.
Retry(o) ==
    /\ worker' = [worker EXCEPT ![o] = Idle]
    /\ queue' = queue \cup {o}

Finish(o) == worker' = [worker EXCEPT ![o] = Idle]

------------------------------------------------------------------------------
(* One reconcile, for the QuarksJob or QuarksStatefulSet o *)

\* A worker takes the key and gets the object; a deleted one is skipped.
Get(o) ==
    /\ o \in queue
    /\ worker[o].pc = "idle"
    /\ Cardinality(Busy(IF o \in QJobs THEN QJobs ELSE QSTS)) < MaxWorkers
    /\ queue' = queue \ {o}
    /\ worker' = IF cached[o] = "absent" THEN worker
                 ELSE [worker EXCEPT ![o].pc = "getBDPL"]
    /\ UNCHANGED <<objs, cached, bdpl, bdplCache, left, news, reported>>

GetBDPL(o) ==
    /\ worker[o].pc = "getBDPL"
    /\ worker' = [worker EXCEPT ![o].pc = "listQJobs", ![o].copy = bdplCache]
    /\ UNCHANGED <<objs, cached, bdpl, bdplCache, queue, left, news, reported>>

\* resolveDeploymentState, first half: the QuarksJobs are counted.
ListQJobs(o) ==
    /\ worker[o].pc = "listQJobs"
    /\ LET old == worker[o].copy
           new == WithQJobs(old.status, cached)
       IN  worker' = [worker EXCEPT ![o] =
               [pc |-> "listQSTS",
                copy |-> [status |-> new, fresh |-> old.fresh],
                changed |-> (new # old.status),
                heard |-> [qjobs |-> news.qjobs, qsts |-> 0]]]
    /\ UNCHANGED <<objs, cached, bdpl, bdplCache, queue, left, news, reported>>

\* Faulty variant: the BOSHDeployment is read again before it is written, so
\* that the write is not refused.
ListThenRefetch(o) ==
    /\ worker[o].pc = "listQSTS"
    /\ LET old == worker[o].copy.status
           new == WithQSTS(old, cached)
       IN  IF worker[o].changed \/ new # old
           THEN worker' = [worker EXCEPT ![o].pc = "update",
                               ![o].copy = [status |-> new,
                                            fresh |-> bdplCache.fresh],
                               ![o].heard.qsts = news.qsts]
           ELSE Finish(o)
    /\ UNCHANGED <<objs, cached, bdpl, bdplCache, queue, left, news, reported>>

\* resolveDeploymentState, second half: the QuarksStatefulSets are counted and
\* the state is computed.  If nothing changed there is nothing to write.
ListQSTS(o) ==
    /\ worker[o].pc = "listQSTS"
    /\ LET old == worker[o].copy
           new == WithQSTS(old.status, cached)
       IN  IF worker[o].changed \/ new # old.status
           THEN worker' = [worker EXCEPT ![o] =
                    [pc |-> "update",
                     copy |-> [status |-> new, fresh |-> old.fresh],
                     changed |-> TRUE,
                     heard |-> [qjobs |-> worker[o].heard.qjobs,
                                qsts |-> news.qsts]]]
           ELSE Finish(o)
    /\ UNCHANGED <<objs, cached, bdpl, bdplCache, queue, left, news, reported>>

UpdateStatus(o) ==
    /\ worker[o].pc = "update"
    /\ Accepts(worker[o].copy)
    /\ bdpl' = worker[o].copy.status
    /\ reported' = worker[o].heard
    /\ bdplCache' = [bdplCache EXCEPT !.fresh = FALSE]
    /\ worker' = [OutdatedWorkers EXCEPT ![o] = Idle]
    /\ UNCHANGED <<objs, cached, queue, left, news>>

UpdateRefused(o) ==
    /\ worker[o].pc = "update"
    /\ ~Accepts(worker[o].copy)
    /\ Retry(o)
    /\ UNCHANGED <<objs, cached, bdpl, bdplCache, left, news, reported>>

CallFails(o) ==
    /\ left.faults > 0
    /\ worker[o].pc # "idle"
    /\ Retry(o)
    /\ left' = [left EXCEPT !.faults = @ - 1]
    /\ UNCHANGED <<objs, cached, bdpl, bdplCache, news, reported>>

------------------------------------------------------------------------------
(* Watches *)

Heard(o) == IF o \in QJobs THEN [news EXCEPT !.qjobs = @ + 1]
            ELSE [news EXCEPT !.qsts = @ + 1]

\* The informer hears of a created, updated or deleted object.  The predicate
\* lets all three pass: it only looks for the label, and leaves DeleteFunc out.
Watch(o) ==
    /\ cached[o] # objs[o]
    /\ cached' = [cached EXCEPT ![o] = objs[o]]
    /\ queue' = queue \cup {o}
    /\ news' = Heard(o)
    /\ UNCHANGED <<objs, bdpl, bdplCache, worker, left, reported>>

\* The informer's periodic resync reports every cached object as updated.
Resync(o) ==
    /\ cached[o] # "absent"
    /\ o \notin queue
    /\ queue' = queue \cup {o}
    /\ UNCHANGED <<objs, cached, bdpl, bdplCache, worker, left, news, reported>>

WatchBDPL ==
    /\ ~bdplCache.fresh
    /\ bdplCache' = [status |-> bdpl, fresh |-> TRUE]
    /\ UNCHANGED <<objs, cached, bdpl, queue, worker, left, news, reported>>

------------------------------------------------------------------------------
(* The rest of the system *)

\* Other controllers create the object, or its status flips.
Change(o) ==
    /\ left.changes > 0
    /\ \E s \in Existing \ {objs[o]} :
          /\ objs[o] = "absent" => s = "pending"
          /\ objs' = [objs EXCEPT ![o] = s]
    /\ left' = [left EXCEPT !.changes = @ - 1]
    /\ UNCHANGED <<cached, bdpl, bdplCache, queue, worker, news, reported>>

\* The BOSHDeployment reconciler removes an instance group, or a user does.
Delete(o) ==
    /\ left.deletes > 0
    /\ objs[o] # "absent"
    /\ objs' = [objs EXCEPT ![o] = "absent"]
    /\ left' = [left EXCEPT !.deletes = @ - 1]
    /\ UNCHANGED <<cached, bdpl, bdplCache, queue, worker, news, reported>>

\* The BOSHDeployment reconciler starts a deploy: it writes the state, on the
\* newest version, and leaves the counts alone.
SetCreating ==
    /\ left.deploys > 0
    /\ bdpl' = [bdpl EXCEPT !.state = BDPLStateCreating]
    /\ bdplCache' = [bdplCache EXCEPT !.fresh = FALSE]
    /\ worker' = OutdatedWorkers
    /\ left' = [left EXCEPT !.deploys = @ - 1]
    /\ UNCHANGED <<objs, cached, queue, news, reported>>

\* The operator restarts: its caches are listed anew, and every object in them
\* is reported as created.  (No listing from before it is written after it,
\* so news need not count the relisting.)
Crash ==
    /\ left.faults > 0
    /\ cached' = objs
    /\ bdplCache' = [status |-> bdpl, fresh |-> TRUE]
    /\ queue' = {o \in Objects : objs[o] # "absent"}
    /\ worker' = [o \in Objects |-> Idle]
    /\ left' = [left EXCEPT !.faults = @ - 1]
    /\ UNCHANGED <<objs, bdpl, news, reported>>

------------------------------------------------------------------------------
(* Specification *)

Init ==
    /\ objs = [o \in Objects |-> "absent"]
    /\ cached = objs
    /\ bdpl = NewStatus
    /\ bdplCache = [status |-> bdpl, fresh |-> TRUE]
    /\ queue = {}
    /\ worker = [o \in Objects |-> Idle]
    /\ left = [changes |-> MaxChanges, deletes |-> MaxDeletes,
               deploys |-> MaxDeploys, faults |-> MaxFaults]
    /\ news = NoNews
    /\ reported = NoNews

Reconcile(o) ==
    \/ Get(o) \/ GetBDPL(o) \/ ListQJobs(o) \/ ListQSTS(o)
    \/ UpdateStatus(o) \/ UpdateRefused(o)

Next ==
    \/ \E o \in Objects : \/ Reconcile(o) \/ CallFails(o)
                          \/ Watch(o) \/ Resync(o)
                          \/ Change(o) \/ Delete(o)
    \/ WatchBDPL \/ SetCreating \/ Crash

Spec == Init /\ [][Next]_vars

\* Watches deliver and workers run.  The work queues are first in, first out,
\* so a queued key is not passed over for ever; the resync period is finite.
Fairness ==
    /\ WF_vars(WatchBDPL)
    /\ \A o \in Objects :
          /\ WF_vars(Watch(o)) /\ WF_vars(Resync(o))
          /\ SF_vars(Get(o))
          /\ WF_vars(GetBDPL(o) \/ ListQJobs(o) \/ ListQSTS(o)
                     \/ UpdateStatus(o) \/ UpdateRefused(o))

FairSpec == Spec /\ Fairness

------------------------------------------------------------------------------
(* Properties *)

\* The status a worker writes is never built on older listings than the one
\* it replaces, although the workers of both controllers race: a worker lists
\* after it has read the BOSHDeployment, and its write is refused once the
\* BOSHDeployment was written in between (status_reconciler.go, the Get, the
\* two lists and the Status().Update).
StatusNeverGoesBack ==
    [][/\ reported'.qjobs >= reported.qjobs
       /\ reported'.qsts >= reported.qsts]_vars

CountsAccurate ==
    /\ bdpl.totalJobs = Total(objs, QJobs)
    /\ bdpl.completedJobs = Ready(objs, QJobs)
    /\ bdpl.totalGroups = Total(objs, QSTS)
    /\ bdpl.deployedGroups = Ready(objs, QSTS)

AllReady(kind) == \A o \in kind : objs[o] # "pending"

\* The comments of status_reconciler.go on the three states it computes.
Accurate ==
    /\ CountsAccurate
    /\ (bdpl.state = BDPLStateDeployed) <=> (AllReady(QJobs) /\ AllReady(QSTS))
    /\ (bdpl.state = BDPLStateConverting) <=> (AllReady(QJobs) # AllReady(QSTS))
    /\ (bdpl.state = BDPLStateResolving)
          <=> (~AllReady(QJobs) /\ ~AllReady(QSTS))

\* Once the objects stop changing, the counts and the state become and stay
\* right, through failing calls, restarts, refused writes, deploys that set
\* the state and reads of stale caches -- with the help of the resync, and if
\* any object is left to be resynced.
StatusConverges ==
    <>[](Accurate \/ \A o \in Objects : objs[o] = "absent")

------------------------------------------------------------------------------
(* Inductive invariants *)

\* What makes StatusNeverGoesBack inductive: a fresh copy was read after the
\* last write, so what was listed since then is no older than what that write
\* reported; and nothing is heard before it is news.
HeardSinceRead ==
    \A o \in Objects : worker[o].copy.fresh =>
        /\ worker[o].pc \in {"listQSTS", "update"} =>
              worker[o].heard.qjobs >= reported.qjobs
        /\ worker[o].pc = "update" => worker[o].heard.qsts >= reported.qsts

ReportedIsOld ==
    /\ reported.qjobs <= news.qjobs
    /\ reported.qsts <= news.qsts
    /\ \A o \in Objects : /\ worker[o].heard.qjobs <= news.qjobs
                          /\ worker[o].heard.qsts <= news.qsts

StatusInv == HeardSinceRead /\ ReportedIsOld
==============================================================================
