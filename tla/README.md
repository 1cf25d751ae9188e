# Formal models of quarks-operator

TLA+ models of the controllers of quarks-operator, the TLC configurations that
check them on small instances, and TLAPS proofs of their central properties.
`PROJECT.json` maps every definition to the lines it models and lists the runs,
the mutants, the findings and the hazards of the code.

## 1. The system

A user writes a `BOSHDeployment` (bdpl) that refers to a BOSH manifest, ops
files and variables in ConfigMaps and Secrets.  The operator turns it, in
stages that only communicate through objects in the Kubernetes API server, into
running workloads:

    bdpl + referenced objects
      --(BOSHDeployment reconciler)-->  QuarksSecrets, "ig" QuarksJob,
                                        with-ops secret
      --(with-ops reconciler)-------->  desired-manifest secret (versioned),
                                        CoreDNS config map, deployment, service
      --(quarks-job, external)------->  per instance group: ig-resolved secret
                                        and BPM secret (both versioned)
      --(BPM reconciler)------------->  services and QuarksStatefulSet of the
                                        group, or the QuarksJob of an errand
      --(status reconcilers)--------->  counts and state in the bdpl's status

Every controller has a work queue keyed by object name, several workers, an
informer cache it reads from, and predicates that decide which watch events are
triggers.  There is no leader election and nothing is kept outside the API
server except the queues and their timers, which a restart loses.

### Inventory

| component | state | operations | interaction | what is hard | what makes it correct |
|---|---|---|---|---|---|
| BOSHDeployment controller | `Status.LastReconcile`, `Status.State`; queue, timer | open the meltdown, end it, resolve, clean up, apply secrets, job, with-ops | watches bdpl, ConfigMaps, Secrets, Services, Endpoints; writes what the next stages watch | lost timers, stale cache, refused and lost writes, a deploy that fails half way | no change is forgotten; deploys are a window apart; the with-ops secret comes last; orphans are removed |
| references, watches, resolver, native links | informer caches | which objects a spec refers to, predicates, mapping of an event to requests, two-step read | called by the controller above and by the webhook | caches that catch up object by object; errors that swallow an event | a change is lost only in the known cases |
| validating webhook of the bdpl | one request at a time per name | list, poll with a timeout, dry run, answer | reads the same caches | objects that come late or never, an object that is decoded in part | every request is answered |
| status reconcilers | counts and state in the bdpl status | get, list QuarksJobs, list QuarksStatefulSets, write if changed | race with each other and with the controller above on one status | two writers of a whole status, deletes, stale reads | never goes back to older listings; converges; leaves the meltdown stamp alone |
| with-ops controller | annotation on the with-ops secret; queue, timer | open, end, interpolate, publish, apply DNS | watches the with-ops secret and rotated variables | second meltdown, variables read one by one, failure after the stamp is cleared | at rest the published manifest and DNS are current |
| BPM controller | annotation on each BPM secret | read manifest, wait for ig-resolved and DNS, deploy, annotate | triggered by creation only | retries out of order, swallowed error, missing inputs | no BPM secret is lost; inputs never go back |
| manifest functions, `instance-group` and `template-render` commands | none (pure) | addons, update blocks, required services, links, BPM, instances | run by the resolver, by the QuarksJob and in every pod | the same index, address or link is computed in several places | they agree; links come from their provider |
| BPM converter, pods of an instance group | pods, their init containers, hooks and drain stamps | convert to services, QuarksStatefulSet or QuarksJob; start, wait, drain | StatefulSets, kubelet, DNS | order between groups, concurrent hooks, stamps that stay behind | serial order; everyone starts; nobody stops before the drains are done, and drains end |
| quarks-restart, quarks-link and wait-service mutators, versioned secret webhook | annotations on pods and on the pod templates of their owners | mount links, add wait containers, touch the owner of a pod whose secret changed, refuse changes of versioned secrets | watches Secrets and pods | swallowed errors, the timestamp lives on the pod that is replaced, two caches | a changed secret restarts its users or is a known miss; restarts cease |
| log tailer | watched directories | follow the files of a directory | none | a file created before its directory is watched | not modelled |
| variables converter, start-up, flags, generated clients, fakes | none | translation, wiring | | | not modelled |

The full list of hazards, each at its line and with the property that covers
it, is in `PROJECT.json`.

## 2. Modules

| module | models |
|---|---|
| `WorkQueue` | client-go's delaying work queue for one key, as far as the reconcilers rely on it: adding merges, an earlier delay replaces a later one, a worker takes the key, a timer expires any time after it is due. |
| `Debounce` | the abstract specification of the meltdown |
| `BOSHDeploymentController` | `deployment_controller.go`, `deployment_reconciler.go`; implements `Debounce` |
| `References` | `validating_webhook.go`, the watches of `deployment_controller.go`, `util/reference`, the reads of `withops/resolver.go` and `link_infos.go` |
| `DeploymentStatus` | `status_controller.go`, `status_reconciler.go` and the lists of `util/reference` |
| `WithOpsController` | `withops_controller.go`, `withops_reconciler.go`, `InterpolateVariableFromSecrets`, `boshdns.Apply` |
| `BPMController` | `bpm_controller.go`, `bpm_reconciler.go`, `DesiredManifest` |
| `BOSHManifest` | `pkg/bosh/manifest`: releases and images, addon placement, update blocks, required services, instances |
| `InstanceGroupResolver` | `job_factory.go`, `cmd_instance_group_resolver.go`, `job_provider_links.go`, `pkg/bosh/bpm`, `instance_group.go`, `cmd_render_job_tmpls.go` |
| `BPMConverter` | `pkg/bosh/bpmconverter`, the records of `boshdns/corefile.go` |
| `Rollout` | the four layers above composed with StatefulSets, kubelets and DNS: from a manifest to running pods |
| `Pods` | `quarksrestart`, `quarkslink`, `waitservice`, `versionedsecret` and the pods they act on |
| `MC*` | instances for TLC |
| `BOSHDeploymentControllerProofs`, `DeploymentStatusProofs`, `BPMControllerProofs`, `WithOpsControllerProofs`, `ReferencesProofs`, `RolloutProofs` | theorems about the module of that name |
| `DocumentsProofs` | lemmas about the operators of `BOSHManifest`, `InstanceGroupResolver` and `BPMConverter`: what `Rollout`'s documents hold for every manifest; `RolloutProofs` builds on it |
| `DebounceProofs` | more theorems about `BOSHDeploymentController`: order, cleanup, and the refinement of `Debounce` |

`Rollout` extends `BPMConverter`, which extends `InstanceGroupResolver`, which
extends `BOSHManifest`: the pure layers are operators from documents to
documents, and `Rollout` gives them a state machine.

Conventions shared by all modules:

* **One action per call.**  A reconcile is a sequence of API calls; `pc` (or
  `worker[k].pc`) names the next one, so everything else interleaves between
  two calls.  The local variables of the Go function are variables of the model
  that are reset when it returns.
* **Returning an error** puts the key back after a delay in `0 .. Backoff`;
  `RequeueAfter` after that delay; an empty result not at all.
* **Resource versions.**  Only their equality matters, so a copy of an object
  has a flag `fresh`: TRUE while nobody has written the object since.  A write
  is accepted only from a fresh copy.
* **Time.**  A stamp is stored as the time left until its window is over; `Tick`
  counts all of them down.  No upper bound on how long a step takes is assumed,
  so a timer may be handled long after it was due.
* **Versions for contents.**  A manifest, a secret or a set of referenced
  objects is the number of its version; what is computed from several inputs is
  a tuple of their versions.
* **Faults** (`FaultKinds`, `MaxFaults`): a call fails without effect, a write
  succeeds and its reply is lost, the operator restarts, a user deletes things.

### BOSHDeploymentController

`Get` is the read and the three-way decision of `Reconcile`: skip (not found, or
inside the window), open, or deploy.  `StartMeltdown`, `RequeueAfterWindow` and
`EndMeltdown` are the two status writes with what follows them;
`StatusUpdateRefused` and `StatusReplyLost` their failures.  `ResolveManifest`
reads the referenced objects through the cache; `ListQuarksStatefulSets` ...
`CleanupDone` are `deleteQuarksStatefulSets`, object by object, with its early
return on NotFound; both lists come from informer caches (`qstsCache`,
`servicesCache`), which follow the server object by object.  Then
`CreateQuarksSecret`, `CreateQuarksJob` and `CreateManifestWithOps`.  `WatchBDPL`
is the watch on the bdpl with its predicate.  `WatchRefs` stands for the four
watches on referenced objects: the event of a change queues the bdpl or is
swallowed by a predicate, by `skip.Reconciles` or by an error; which of the two
it is for which object is the subject of `References`, and here every event may
go either way.  The environment: users edit the spec or a referenced object or
delete the bdpl or a QuarksStatefulSet, the status reconcilers write, the BPM
reconciler rolls groups out, the garbage collector follows owner references, the
operator crashes.  History variables: `sinceDeploy`; `redeployed`, the groups
rolled out again since the list; `spared`, the QuarksStatefulSets that the list
did not show or that were left when a listed object was gone; `swallowed`, that
the event of a referenced object was dropped and no trigger came since.

### DeploymentStatus

Both status controllers run the same code for different kinds of objects, so
the actions are indexed by the object whose key a worker holds.  QuarksJobs and
QuarksStatefulSets are listed in two calls.  `news` counts what the caches have
heard, per kind, and `reported` remembers which listings the stored status was
built on: history variables for "newer" and "older".

### WithOpsController

As above, with the stamp in an annotation.  Variables are read one by one and
may be generated or rotated in between.  A rotation is an `event` on its way to the
mapping; when the secret is updated once more before it is mapped
(`TouchVariable`), `skip.Reconciles` drops it in `HandleRotation`, and the update
that overtook it fails the predicate.  `skipped` is a history variable for the
variables this happened to since they were last read.  Whether `SecretMutateFn` (a library)
keeps the annotation when the BOSHDeployment reconciler rewrites the secret is
left open: both outcomes are explored.  `labelled` says whether the namespace has the
CoreDNS service account label.

### BPMController

A key is a group and a version.  `desired` is what `DesiredManifest` reads,
`planned` what the BOSHDeployment reconciler has cleaned up for; they differ
during the with-ops meltdown.  The `build` of an object records which versions
of BPM secret, manifest and ig-resolved secret it was made from.

### Debounce

What the meltdown promises, without queues, caches, copies and retries: a stamp,
its age, a deploy that begins when the stamp is as old as the window, and at most
one publication per deploy, never of older inputs than the last.
`BOSHDeploymentController` defines the mapping: the stamp is the one in the API
server, `age` is its history variable, `running` says that a reconcile has
cleared the stamp and not returned, `published` is the with-ops manifest.  Only
the refinement shows that a copy, a retry or a lost reply never lets the
reconciler take a step the abstract system could not take.

### References

An object is a kind and a name, its data a version.  `Watch` brings one object of a
cache up to date and leaves an event; `Handle` applies predicate and mapping to it
some time later, with what the caches hold by then, its own object included.
`Load` and `Resolve` are the two reads of a reconcile.  `OnlyOne`,
`opsResourcesExist`, `Timeout`, `Admit` and `Deny` are the steps of the webhook,
which works on whatever `Decode` has read of the object: `Submit` takes any spec,
with and without the metadata that follows it.  `lost` is a history variable: the
deployments that one of the known gaps kept from being triggered since their last
reconcile began.  The gaps are

* of the mapping (`Gap`): an event whose object was updated again before it is
  mapped (`skip.Reconciles`); an error while a secret is mapped, for which one
  deployment that cannot be loaded is enough; a secret created for a single
  deployment (the `> 1` of the predicate); the secret of a variable with a slash;
* of the watches (`Unmapped`): a deleted service, and the secrets that provide links;
* a call of the predicate or the mapping that fails (`HandleFails`), for a config
  map, a secret or endpoints.

### BOSHManifest, InstanceGroupResolver, BPMConverter, Rollout

Manifests, job specs and BPM configurations are records with the fields that
decide something; a template is external and renders the processes of its spec.
Failures are explicit (`failed`, `Nil`), since a manifest that cannot be
converted is part of the behaviour.  The path of an additional volume is the known
directory it starts with, if any, the rest, and whether the regular expression
finds one of the listed directories anywhere in it: the expression is not
anchored.  The names of services are those `names.Sanitize` and
`IndexedServiceName` format (`Sanitized`, `Indexed`); nothing makes them different,
so that they are is an assumption of its own.  In `Rollout`, `Publish`, `RunInstanceGroup`
and `Convert` are the stages of the operator; pods are created in the order of
their ordinals (a template that mounts a volume it does not declare is
refused), run one init container per step (`RunInit`, which renders the
templates and waits for services) and, when deleted, run their pre-stop hooks
concurrently (`Drained`, `EndHook`).  `RestartContainer` leaves a drain stamp in a
pod that goes on.  The documents of a deployment do not change while it is
rolled out; their changes are the subject of the controllers above.

### Pods

A workload has one pod at a time.  Secret cache and pod cache catch up
independently.  An update of a secret with other data leaves an `event`, which
`HandleEvent` maps to pods unless the secret was updated again in between
(`skip.Reconciles`); `MappingFails` loses it.  `Touch` and `Stamp` are the two writes of a restart, with the
resolution of a second (`touched`) and the errors that are only logged.
`missed` is a history variable for the cases in which a restart is known not to
happen: a secret that was deleted and created again, an event that was overtaken
or whose mapping failed, a pod that is not in the cache, a touch that failed or
fell into the second of the last one, a restart of the operator (`Restart`), which
forgets queue and timers and ignores the create events that follow.

## 3. Runs

All bounds are constants of the cfg files.

| run | result | what it shows |
|---|---|---|
| `bdpl_meltdown` | pass | One edit of the spec, one of a referenced object, one status write, one fault (a failed call, a lost reply, a restart, the deletion of the bdpl), window 2, no instance groups.  `NoForgottenChange`, `DeploysAreSpaced`, `StatusWriterKeepsMeltdown`, the refinement `ImplementsDebounce`, and under fairness `DeployedOrStranded`. |
| `bdpl_cleanup` | pass | Two groups that the edit removes, one variable that it adds, two faults (errors, lost replies, restarts, deletions by users), outdated lists.  `WithOpsComesLast`, `OrphanQuarksStatefulSetsDeleted`, `TypeOK`. |
| `bdpl_retry_strands` | violation | `EveryChangeDeployed` fails without any fault, see findings. |
| `references` | pass | Two deployments, eight objects of every kind, three changes or submissions, mappings that fail.  `NoChangeMissed`, `EveryRequestAnswered`. |
| `reference_missed` | violation | `SecretChangesNoticed` fails for a variable with a slash. |
| `status_order` | pass | One QuarksJob, one QuarksStatefulSet, so two workers race; two changes, a delete, a deploy, a fault.  `StatusNeverGoesBack`, `StatusConverges`. |
| `withops_meltdown` | pass | Two variables with two values, two manifests, any one fault, with and without the label.  `NothingMissed`, `DNSFollowsManifest`, `PublishedOrStranded`. |
| `bpm_rollout` | pass | A group, an errand that the second manifest adds, two versions, one worker, any one fault.  `NoForgottenBPM`, `InputsNeverGoBack`, `EveryBPMRolledOut`. |
| `bpm_old_retry` | violation | `CorrespondingManifest` fails after one failed call. |
| `rollout` | pass | Nineteen deployments, one deletion of a pod, one restart of a container.  `SerialOrder`, `InstanceIdentity`, `PublishedAddressesServed`, `LinksResolveToProvider`, `MountsHaveVolumes`, `DrainedBeforeStop`, `WaitsForAllAhead`, `HooksCountDrains`, `DrainEnds`, `EveryGroupStarts`. |
| `link_from` | violation | `FromNamesProvider` fails with two providers. |
| `pods` | pass | A workload of any kind with two links that waits for another one, a link with three versions, one fault (a failing mapping or touch, a restart).  `RestartedOrMissed`, `RestartsCease`. |

Why the bounds are enough: a meltdown involves one stamp, one timer and one
pending event, and the behaviours that differ are which of them comes first;
two inputs (spec and references), a status writer and one fault already give a
trigger before, inside and after every window, with the retry of the one racing
the timer of the other.  The cleanup needs two groups so that one can be skipped.  Races on
the status need two workers with different listings.  For the BPM reconciler
two versions give every order of old and new.  In `references`, losing a change
takes a change, a second one that is mapped or read in between, and a submission:
three.  The deployments of `rollout` are chosen one by one: a group without ports
or a parallel group between serial ones, zones with and without replicas,
several jobs and processes, a job without any, errands, active/passive, a native
link, addons that provide a link again, an additional volume outside the known
directories, and manifests with something missing; for all other manifests there are the proofs.  In `pods` a secret has to
change twice for the second restart to meet the meltdown of the first.  The proofs of section 4 remove the bounds for the safety
properties they cover.

Deadlock is not checked: a deployment that is rolled out, with no user change
left, is at rest.

**Fairness.**  Weak fairness of the reconcile steps (controller-runtime's worker
goroutines), of timers, watches and the clock.  In `BPMController` and
`DeploymentStatus` taking a key out of the queue is strongly fair: the queues
are first in, first out, so a key is not passed over for ever although a
worker may be busy whenever one looks.  Generating variables and writing the
outputs of the QuarksJob is fair because without it nothing is promised.
In `References` the webhook's loop with its timer, the informers and the workers
are fair; a failing list is not.  In `Pods` the controllers of Kubernetes that
create and replace pods, the caches, the worker, its timers and the clock are;
writes of secrets, failing calls and restarts are not.  In `Rollout` weak fairness of the
operator and of the steps of all pods together is enough, since no step disables
another one for ever; drain scripts end, but no grace period has to.
Users, faults and the other writers owe nothing.

### Findings

* **A meltdown can be stranded** (`bdpl_retry_strands`).  Inside the window
  `Reconcile` returns an empty result, so the only thing that ends a meltdown is
  the timer of the reconcile that opened it.  A second trigger handled from a
  cache that does not show the stamp yet fails its write; its short retry takes
  the place of the timer entry in the delaying queue and is then dropped inside
  the window.  A restart inside the window has the same effect, and so has the
  with-ops window.  The change is deployed when the next trigger arrives.
  `DeployedOrStranded` and `PublishedOrStranded` show that nothing else keeps a
  change from being deployed once a watch has queued it; events that the watches
  themselves swallow are left to `References`.
* **An old BPM secret can win** (`bpm_old_retry`): the reconciler combines whatever
  BPM secret it was called for with the latest desired manifest.
* **The secret of a variable with a slash is not watched** (`reference_missed`).
  The resolver reads the secret in front of the slash, the watch compares with
  the whole name.
* **`from` is ignored** (`link_from`).  A consumed link is looked up under the name
  of the job spec; the name in the manifest is only the key it is stored under.

### Known limits

The models have these behaviours too, and the properties are stated so that they
are excluded by name rather than by leaving them out:

* Cleanup lists from informer caches: a QuarksStatefulSet that the cache does not show
  yet stays, and one that is already gone ends the cleanup (`spared`).  The services
  of a removed group stay when their deletion fails.
* A change of a ConfigMap or Secret that is followed by an update of its metadata
  before the event is mapped triggers nothing (`skip.Reconciles`), nor does one whose
  mapping fails, in all three controllers that map events.
* Spacing is counted in whole steps of the model's clock.  `metav1.Time` stores whole
  seconds, so real deploys can be up to a second closer than the window.
* An object that `Decode` could not read to the end is validated, and admitted, by
  the part that was read.
* The status stays wrong after a delete, or after a write that was skipped against
  an outdated cache, until the next event or the resync.
* A BPM reconcile between a cleanup and the publication of the new manifest creates
  the QuarksStatefulSet of a removed group again, until the next deploy.
* DNS is skipped silently in a namespace without the label: `errors.Wrapf(nil, ...)`
  is nil.
* Two deployments submitted together are both admitted.
* A group whose replicas are not injected and that has several zones renders the
  same index twice; two marks of an initial rollout (the generation of the object,
  the version of a secret) may disagree about the bootstrap instance.
* A container restarted by a probe leaves its drain stamp in the pod.
* A container that is not running when its pod is deleted runs no hook and leaves
  no stamp; the other hooks then wait until the grace period ends.  `Delete`
  takes pods whose containers all run, and `DrainEnds` is about these.
* Groups whose names are the same after `names.Sanitize` share their services and
  objects, and the service of instance 0 of a group `db` has the name of the service
  of a group `db-0`; nothing compares the names.  `ServicesDiffer` assumes that they
  differ.
* An additional volume below the store directory is mounted from a claim that only a
  persistent disk of the group creates, and one whose path merely contains a known
  directory passes the check and gets no volume name (`Undeclared`); Kubernetes
  refuses the pods.
* The BPM of a group is stored by job name, so a job that an addon adds under the name
  of another one hides its processes and ports (`JobsDiffer`).
* A group without instances that other groups wait for, or whose releases no other
  group uses, keeps the deployment from coming up.

## 4. Proofs

`BOSHDeploymentControllerProofs` proves, for every value of the constants that
satisfies the ASSUMEs of `BOSHDeploymentController` (natural bounds, a positive
window, `Backoff <= Window`, groups and variables of every manifest):

| theorem | statement |
|---|---|
| `TypeCorrect` | `Spec => []TypeOK` |
| `DeploySpacing` | `Spec => DeploysAreSpaced` |
| `StatusKeepsMeltdown` | `Spec => StatusWriterKeepsMeltdown` |
| `ChangesRemembered` | `Spec => []NoForgottenChange` |

*The spacing argument.*  `DeploysAreSpaced` speaks of the moment the stamp is
cleared.  What has to be known then is that the stamp was set after the last
deploy and has run out since.  `MeltdownInv` says so: `StampAfterDeploy` relates
the age of the stamp in the API server to the age of the last deploy
(`sinceDeploy + lastReconcile >= Window`), `ClosesExpired` keeps what `Get` read,
and `FreshCopies` (a copy that would be accepted equals the server's object)
carries the fact from the copy to the server.  Without `FreshCopies` a stale
copy with an expired stamp could end a younger meltdown; it is the optimistic
lock that rules this out, and the mutant that drops the lock shows it.
The same conjunct gives `StatusKeepsMeltdown`.

*The no-change-forgotten argument.*  `NoForgottenChange` is not inductive: a
deploy that works on old inputs would end with them published and nothing
pending.  `ChangeInv` adds `DeploysCurrent` (a running deploy works on the
current inputs or something is pending), and `CachesBehind` (caches lag and
never lead; a window the cache shows as running is running), which is what makes
dropping a trigger inside the window harmless for this property.  For the spec this
holds without exception; for referenced objects up to events the watches swallow.

`DebounceProofs` goes on from there, under the same ASSUMEs:

| theorem | statement |
|---|---|
| `OrderOfADeploy` | `Spec => []WithOpsComesLast` |
| `OrphansDeleted` | `Spec => []OrphanQuarksStatefulSetsDeleted` |
| `DebounceRefined` | `Spec => ImplementsDebounce` |

*The order.*  `WithOpsComesLast` compares what exists with the with-ops manifest, so
a later deploy could break it by replacing the QuarksJob with one of older inputs.
`OrderInv` adds `DeploysMoveForward`: the inputs of a running deploy lie between
all that was written before and what the user and the caches have now.  It holds
because the spec and the cache of the references only move forward and a single
worker holds the key.  `WrittenInOrder` says what a deploy has created on its way.

*The cleanup.*  `CleanupInv` says that every QuarksStatefulSet that has to go is still
among those a running cleanup will delete, was rolled out again, or is `spared`: the
cached list did not show it, or a listed object was gone and the cleanup ended
early.  Nothing is assumed of who else deletes what, or of how old the list is.

*The refinement.*  Every step of the reconciler is mapped to a step of `Debounce`
or to none.  The steps that count are users' changes, the two status writes (their
lost replies included: the write has happened), the publication, a deploy that ends
without one, deletion and collection of the deployment, and time.  `MeltdownInv`
gives that the stamp has run out when it is cleared, `OpensUnstamped` that opening does not shorten a running window, `OrderInv`
that what is published is no older than what was.

`DeploymentStatusProofs` proves, for any finite sets of QuarksJobs and
QuarksStatefulSets and any number of workers (`StatusAssumption`):

| theorem | statement |
|---|---|
| `StatusTypeCorrect` | `Spec => []TypeOK`: the counts never exceed the number of objects |
| `StatusMonotone` | `Spec => StatusNeverGoesBack` |

*The argument.*  A worker may hold listings that are older than the ones the
stored status was built on, so the property does not follow from the write
alone.  `StatusInv` adds `HeardSinceRead`: a worker whose copy of the bdpl would
be accepted has listed no earlier than the last accepted write, since that write
would have outdated its copy; and `ReportedIsOld`: what is stored is never newer
than what the caches have heard, which establishes the first part when a worker
lists.  It rests on reading the bdpl before listing; a reconciler that listed
first would break it.

`BPMControllerProofs` proves, for any groups, errands, manifests, workers and
faults (`BPMAssumption`):

| theorem | statement |
|---|---|
| `BPMTypeCorrect` | `Spec => []TypeOK`: a worker that deploys has a BPM secret, a manifest and an ig-resolved secret |
| `BPMRemembered` | `Spec => []NoForgottenBPM` |

*The argument.*  A restart empties queue, timers and workers, and only secrets
without a timestamp come back; a failed write of the timestamp ends the
reconcile without a retry.  Neither loses a secret because of
`RolledBeforeStamp`: the timestamp exists, and is about to be written, only after
the rollout.  `BPMInv` is the conjunction.

`OneWorkerMovesForward` needs `MaxWorkers = 1`, which is the default of the flag
(`cmd/internal/root.go`); with two workers it is false.  `InputInv` says that what a
worker holds lies between what is deployed and what exists (`HeldBetween`); with
one reconcile at a time (`OneReconcile`) nobody deploys newer inputs in between.

`WithOpsControllerProofs` proves, for any variables, versions, window and faults:

| theorem | statement |
|---|---|
| `WithOpsTypeCorrect` | `Spec => []TypeOK` |
| `NoTriggerMissed` | `Spec => []NothingMissed` |
| `DNSNotMissed` | `Spec => []DNSFollowsManifest` |

*The argument.*  Both properties speak of rest, so the invariant has to say what
holds on the way there.  `ReadsCurrent`: what a reconcile has read, variable by
variable, is current or the reconciler will be called again.  `CacheBehind`: a
window that the cache shows as running is running, or new data is on its way, so a
trigger dropped inside the window is not the last one.  A variable whose event
`skip.Reconciles` dropped is in `skipped` until it is read again; of all others the
published value is current or an event is on its way.  `AppliesInOrder`: the DNS
objects are applied one after the other from what was just published.  With
`FreshCopies`, `WithOpsInv` is inductive, and `NothingLeft` in it gives both.

`ReferencesProofs` proves, for any names, specs, manifests, services and objects
(`ReferencesAssumption`: finitely many names, objects that are a kind and a name,
variables that refer to secrets):

| theorem | statement |
|---|---|
| `ChangesFollowed` | `Spec => []NoChangeMissed` |

*The argument.*  `FollowInv` says of every deployment in the cache that it is
queued, was lost through one of the gaps, has an event on its way that will queue it
or be a gap (`Announced`, `Awaited`), is being applied with what the caches hold, or
was deployed from what they hold.  Two lemmas carry it.  `UnnoticedChange`: an update
of the caches that announces nothing to a deployment leaves alone its manifest, the
set of objects it depends on and, variables and endpoints aside, those objects.  The
set depends on the caches itself (implicit variables and links follow from the
manifest), so this is where another gap would show.  `HandleFollows`: an event that
was announced or awaited queues the deployment or falls into a gap when it is
handled, whatever the caches hold by then.

`RolloutProofs` proves, for any set of deployments and any number of deletions
and restarts:

| theorem | statement |
|---|---|
| `RolloutTypeCorrect` | `Spec => []TypeOK` |
| `GroupsWaitForAllAhead` | `Spec => []WaitsForAllAhead` |
| `HooksCountAllDrains` | `Spec => []HooksCountDrains` |
| `SerialGroupsInOrder` | `Spec => []SerialOrder` |
| `HooksDrainFirst` | `Spec => []DrainedBeforeStop` |
| `InstancesIdentified` | `Spec => []InstanceIdentity` |
| `AddressesServed` | `Spec => []PublishedAddressesServed` |
| `MountsServed` | `Spec => []MountsHaveVolumes` |
| `LinksOfProviders` | `Spec => []LinksResolveToProvider` |

*What is assumed of a deployment* (`DeploymentsAssumption`).  Its manifest is a
decoded one: lists are lists, structs have their fields, numbers of instances and
zones are natural (`IsManifest`).  Beyond that: a group has a name; a group with
zones has at most `MaxReplicasPerAZ` instances in each, since `names.SpecIndex`
counts no further; and no two services of the manifest have the same name
(`ServicesDiffer`): names of groups still differ after `names.Sanitize`
(`GroupsDiffer`), and the services of instances differ from each other and from those
of groups (`AddressesDiffer`), without which they would share their Kubernetes objects.
Nothing is said of addons, links, update blocks, disks or processes, and the manifest
may be one that fails at any stage.  `MCRollout` extends the module, so TLC evaluates
the assumption for its deployments.

*The documents.*  They are computed once, before the first step, and no step changes
them: `DocumentsInv` says that they are those of one deployment, that only groups
with an output are resolved, and `RolloutInv`.  What they hold is shown
in `DocumentsProofs`, operator by operator.  The loops of the code are recursive
functions over the positions of a list.  The library's induction theorems have an
operator as a parameter, which the provers cannot instantiate, so the lemma
`Induction` is derived from the well-foundedness of `<`: a set of positions that
misses one has a least one that it misses.  `FlattenSeq` and the folds of the
community modules are treated the same way.  On this rest:

* the waits (`WaitsOfDocuments`): what the loop of `calculateRequiredServices` carries
  is the last group with ports before a group, and the last one before the last serial
  group; addons add jobs and leave names, order and update blocks alone;
* the hooks (`HooksOfDocuments`): every job with a process contributes one drain
  script, the jobs before it only an offset in the list of containers;
* instances and addresses: numbering the instances of a group through all its zones
  and computing zone and ordinal back from a pod's index are inverse to each other, and
  the three places that build the name of an instance's service agree;
* the links: after any number of provided links, a type and name is entered by its
  first provider in the order of groups, jobs and specs; all later ones are addons or
  the resolver has failed;
* the mounts: every disk that is mounted through `BPMMounts`, by another process than
  the one that brought it, is in the group's list of disks.

*What the properties exclude,* each because the code does not promise it:
`InstanceIdentity` is about StatefulSets (an errand has one pod whatever its links
say) and groups whose replicas are injected.  In `PublishedAddressesServed` the jobs of
a group have different names (`JobsDiffer`): of two jobs with one name the BPM of
the second hides the ports of the first.  In `LinksResolveToProvider` a link that a
later one of the same name replaces is not `Kept`.  In `MountsHaveVolumes` the
disks of the agent settings bring the volumes they mount (`DisksComplete`), and the two
kinds of additional volumes that nothing declares are named (`Undeclared`).

*Serial order.*  A pod waits for one service only.  `SerialInv` carries the rest:
who passed the wait came after all groups ahead of it (`WaitedFor`), a ready pod's
group has served (`ReadyServes`), and the groups that have served are closed
under "ahead of" (`ServedInOrder`).  The wait ends because a pod of the awaited
group is ready at that moment; its group has therefore served, and so have all
ahead of it, even if their pods were deleted since.

*Drains.*  A hook counts stamps and does not know whose they are.  `StampsLeft`
says that without a restart every stamp belongs to a script that has ended; so
while one script runs there are fewer stamps than scripts (`StampsMissing`) and
no hook ends.  `HooksPlanned` ties the state of a hook to its template, without
which a container that stops at once could be one with a process.

## 5. What is only model-checked, and what is left out

Liveness (`DeployedOrStranded`, `StatusConverges`, `EveryBPMRolledOut`,
`PublishedOrStranded`, `EveryRequestAnswered`, `RestartedOrMissed`, `RestartsCease`,
`DrainEnds`, `EveryGroupStarts`) is out of the proof system's reach and is checked by
TLC alone.  Every invariant and every action property of the passing runs is also
stated by a theorem.

Three limits of the provers have shaped the modules that are proved about: lemmas
cannot take operators as parameters, so that an induction is carried out on a set of
positions each time; `SelectSeq` and the operators `:>` and `@@` are opaque, so lists are
filtered with `SelectAt` and map entries added with `With`; where they remain (the
stemcells of a group, the environment of a process) no theorem depends on what they
return.

Not modelled:

* what the operations of an ops file do to a document, the YAML and ERB engines,
  pre-render scripts, and the merge of a secret's keys in `MergeStaticVar`, whose
  outcome depends on Go's map iteration;
* fields that are copied from the manifest to pods unchanged (affinity, probes,
  tolerations, labels), and the field by field conversion of variables to
  QuarksSecrets;
* the log tailer, which shares no state with the operator (its races are in the
  list of hazards);
* flags, start-up, generated clients and deep copies, the fakes of the tests.

In `BOSHDeploymentController` reading several referenced objects is one step; the
finer reads are those of `References`.

## 6. Plan

Done: the controllers, the webhooks and mutators, the way from a manifest to
running pods, the abstract specification of the meltdown; the proofs of section 4,
among them the refinement and every safety property that a run checks.

What would come next:

1. The hazards of `PROJECT.json` without a property, first the addresses of native
   links, which follow pods that are not watched (`link_infos.go`).
2. Variables: `MergeStaticVar` and the conversion to QuarksSecrets.
3. `Deployable` as a theorem: that a manifest which satisfies it has all its documents
   is the part of `EveryGroupStarts` that is not liveness.
