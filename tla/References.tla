----------------------------- MODULE References -----------------------------
(***************************************************************************)
(* What a BOSHDeployment refers to, and who notices when that changes.     *)
(*                                                                         *)
(* The validating webhook (validating_webhook.go) admits a BOSHDeployment  *)
(* after looking for the others of its namespace, for the objects its ops  *)
(* name and at the manifest they resolve to.  The watches of the           *)
(* BOSHDeployment controller (deployment_controller.go, util/reference)    *)
(* turn changes of those objects into reconcile requests, and a reconcile  *)
(* reads them again (util/withops/resolver.go, link_infos.go).  All three  *)
(* read informer caches that catch up object by object.  An event is       *)
(* mapped some time after its object reached the cache, with whatever the  *)
(* caches hold by then: also of its own object (skip.Reconciles).          *)
(*                                                                         *)
(* An object is a key <<kind, name>>; its data is a version number, 0 when *)
(* it does not exist.  The meltdown, the status and the steps after        *)
(* resolving are the business of BOSHDeploymentController: here a          *)
(* reconcile resolves its inputs or fails and is retried.                  *)
(***************************************************************************)
EXTENDS Naturals, FiniteSets

CONSTANTS
    Names,       \* names BOSHDeployments are submitted under
    Specs,       \* what users submit: [manifest, ops, vars], see SpecType
    Keys,        \* the objects there may be
    Manifest,    \* by version: what the manifest says, see ManifestType
    Service,     \* by version: what a service says, see ServiceType
    LinkSecrets, \* secrets with a link provider annotation, labelled with
                 \* the deployment's name
    NoIP,        \* versions of "pods" objects in which some pod has no IP yet
    CallsFail,   \* whether calls of the mappings fail
    Starts,      \* the objects there may be at the start
    MaxData,     \* bound: versions of an object
    MaxChanges   \* bound: submissions and changes of objects

Versions == 0 .. MaxData

NoName == "no name"  \* the name in an empty reconcile request

NoSpec == [manifest |-> <<"none", "">>, ops |-> {}, vars |-> {}]

\* What Decode leaves of an object of which it cannot read anything.
EmptySpec == [manifest |-> <<"", "">>, ops |-> {}, vars |-> {}]

\* Kinds of the references of a spec.
ReferenceTypes == {"configmap", "secret", "url"}

Kinds == ReferenceTypes \cup {"service", "endpoints", "pods"}

Secrets == {k \in Keys : k[1] = "secret"}

\* The variables of a spec are secrets by their type, VarReference.
SpecType == [manifest : Keys, ops : SUBSET Keys, vars : SUBSET Secrets]

\* implicit: the secrets of implicit variables, and the key that is used;
\* linked: a job consumes a link no job provides; watchTime: the update
\* block can be parsed.
ManifestType == [implicit : SUBSET (Secrets \X {"value", "other"}),
                 linked : BOOLEAN, watchTime : BOOLEAN]

ServiceType == [provider : BOOLEAN, label : Names \cup {NoName},
                type : {"external", "selector", "endpoints"}]

ASSUME ReferencesAssumption ==
    /\ IsFiniteSet(Names) /\ NoName \notin Names
    /\ Keys \subseteq Kinds \X STRING
    /\ Specs \subseteq SpecType /\ NoSpec \notin Specs
    /\ Manifest \in [1 .. MaxData -> ManifestType]
    /\ Service \in [1 .. MaxData -> ServiceType]
    /\ LinkSecrets \subseteq Secrets
    /\ CallsFail \in BOOLEAN
    /\ Starts \subseteq [Keys -> Versions]
    /\ MaxData \in Nat /\ MaxChanges \in Nat

VARIABLES
    store,     \* objects in the API server
    cache,     \* objects in the informer caches
    pending,   \* by key: the events on their way to the handler
    bdpl,      \* BOSHDeployments in the API server
    bdplCache, \* BOSHDeployments in the informer cache
    request,   \* by name: the admission request being validated
    queue,     \* names in the work queue
    worker,    \* by name: the reconcile that runs
    deployed,  \* by name: the data the last successful reconcile resolved
    lost,      \* history: names a known gap kept from being triggered since
               \* their last reconcile began
    changes    \* submissions and changes left

vars == <<store, cache, pending, bdpl, bdplCache, request, queue, worker,
          deployed, lost, changes>>

Nothing == [k \in Keys |-> 0]

Idle == [step |-> "idle", spec |-> NoSpec, meta |-> FALSE]

NotRunning == [step |-> "idle", spec |-> NoSpec, read |-> Nothing]

AllSpecs == Specs \cup {EmptySpec, NoSpec}

------------------------------------------------------------------------------
(* Resolving a manifest.  c is the state of the objects it is read from.    *)

Exists(c, k) == k \in Keys /\ c[k] > 0

Kind(k) == k[1]

RefKeys(spec) == {spec.manifest} \cup spec.ops

resourceData(c, ref) == Kind(ref) \in ReferenceTypes /\ Exists(c, ref)

\* load: the manifest and its ops.
load(c, spec) == \A ref \in RefKeys(spec) : resourceData(c, ref)

\* LoadYAML: no bytes are an empty manifest.
ManifestOf(c, spec) ==
    IF Exists(c, spec.manifest) THEN Manifest[c[spec.manifest]]
    ELSE [implicit |-> {}, linked |-> FALSE, watchTime |-> TRUE]

\* buildSecretRefs: the secrets of the implicit variables.
SecretRefs(m) == {v[1] : v \in m.implicit}

\* ImplicitVariables: a variable with a slash is returned as secret/key, which
\* is no secret's name.
ImplicitVariables(m) == {v[1] : v \in {u \in m.implicit : u[2] = "value"}}

\* The linked services of a deployment.
LinkedServices(c, n) ==
    {k \in Keys : /\ Kind(k) = "service" /\ c[k] > 0
                  /\ Service[c[k]].provider /\ Service[c[k]].label = n}

\* serviceRecordByProvider, jobInstances: what supplies the addresses.
Addresses(c, svc) ==
    CASE Service[c[svc]].type = "external" -> {}
      [] Service[c[svc]].type = "selector" -> {<<"pods", svc[2]>>}
      [] Service[c[svc]].type = "endpoints" -> {<<"endpoints", svc[2]>>}

\* The secrets whose annotations say what they provide.
ProviderSecrets(c) == {k \in LinkSecrets : c[k] > 0}

LinkKeys(c, n) ==
    ProviderSecrets(c) \cup LinkedServices(c, n)
    \cup UNION {Addresses(c, s) : s \in LinkedServices(c, n)}

\* nativeQuarksLinks: one secret for the missing provider, at most one
\* service, existing endpoints, and no selected pod without an IP.
nativeQuarksLinks(c, n) ==
    /\ Cardinality(ProviderSecrets(c)) = 1
    /\ Cardinality(LinkedServices(c, n)) <= 1
    /\ \A k \in LinkKeys(c, n) :
         /\ Kind(k) = "endpoints" => Exists(c, k)
         /\ Kind(k) = "pods" => c[k] \notin NoIP

\* What applyVariables and the search for links read, given the manifest.
LateKeys(c, n, spec, m) ==
    spec.vars \cup SecretRefs(m) \cup (IF m.linked THEN LinkKeys(c, n) ELSE {})

\* applyVariables: every secret is found.
applyVariables(c, spec, m) ==
    \A k \in spec.vars \cup SecretRefs(m) : Exists(c, k)

List(c, n, m) == m.linked => nativeQuarksLinks(c, n)

Resolvable(c, n, spec) ==
    /\ load(c, spec)
    /\ applyVariables(c, spec, ManifestOf(c, spec))
    /\ List(c, n, ManifestOf(c, spec))

Restricted(c, ks) == [k \in Keys |-> IF k \in ks THEN c[k] ELSE 0]

Resolved(c, n, spec) ==
    Restricted(c, RefKeys(spec) \cup LateKeys(c, n, spec, ManifestOf(c, spec)))

------------------------------------------------------------------------------
(* The validating webhook.                                                  *)

Answer(n) == request' = [request EXCEPT ![n] = Idle]

Step(n, from, to) ==
    /\ request[n].step = from
    /\ request' = [request EXCEPT ![n].step = to]

\* Handle drops the response it builds when Decode fails (line 95) and goes on
\* with what Decode has read until then: any spec, with the name and the
\* namespace (meta) or without.
Submit(n, spec, meta) ==
    /\ changes > 0 /\ changes' = changes - 1
    /\ request[n] = Idle
    /\ request' = [request EXCEPT ![n] =
                     [step |-> "list", spec |-> spec, meta |-> meta]]
    /\ UNCHANGED <<store, cache, pending, bdpl, bdplCache, queue, worker,
                   deployed, lost>>

\* Without a namespace all are listed, and every name is another one.
Others(n) ==
    {m \in Names : bdplCache[m] # NoSpec /\ (m # n \/ ~request[n].meta)}

\* ... and no config map or secret is found.
Seen(n) ==
    [k \in Keys |-> IF request[n].meta \/ Kind(k) = "url" THEN cache[k] ELSE 0]

Validating ==
    UNCHANGED <<store, cache, pending, bdpl, bdplCache, queue, worker, deployed,
                lost, changes>>

\* Handle: "verify only one bdpl exists in this namespace".
OnlyOne(n) ==
    /\ Others(n) = {}
    /\ Step(n, "list", "poll")
    /\ Validating

NotOnlyOne(n) ==
    /\ request[n].step = "list" /\ Others(n) # {}
    /\ Answer(n)
    /\ Validating

\* One round of opsResourcesExist: only config maps and secrets are listed.
Found(n, ref) == Kind(ref) \in {"configmap", "secret"} /\ Exists(Seen(n), ref)

opsResourcesExist(n) ==
    /\ \A ref \in request[n].spec.ops : Found(n, ref)
    /\ Step(n, "poll", "resolve")
    /\ Validating

\* ... the answer after five seconds.
NoTimeout(n) == FALSE /\ UNCHANGED vars

Timeout(n) ==
    /\ request[n].step = "poll"
    /\ Answer(n)
    /\ Validating

\* One of the two lists of a round fails.
ListFails(n) ==
    /\ request[n].step \in {"list", "poll"}
    /\ Answer(n)
    /\ Validating

validateUpdateBlock(m) == m.watchTime

\* ManifestDetailed succeeds and the update block is valid.  The webhook does
\* not look for links.
Valid(n, spec) ==
    /\ load(Seen(n), spec)
    /\ applyVariables(Seen(n), spec, ManifestOf(Seen(n), spec))
    /\ validateUpdateBlock(ManifestOf(Seen(n), spec))

Admit(n) ==
    /\ request[n].step = "resolve" /\ Valid(n, request[n].spec)
    /\ Answer(n)
    /\ bdpl' = [bdpl EXCEPT ![n] = request[n].spec]
    /\ UNCHANGED <<store, cache, pending, bdplCache, queue, worker, deployed,
                   lost, changes>>

Deny(n) ==
    /\ request[n].step = "resolve" /\ ~Valid(n, request[n].spec)
    /\ Answer(n)
    /\ Validating

------------------------------------------------------------------------------
(* The watches.                                                             *)

getConfMapRefFromBdpl(spec) == RefKeys(spec)

getSecretRefFromBdpl(c, spec) ==
    RefKeys(spec) \cup spec.vars \cup ImplicitVariables(ManifestOf(c, spec))

ReferencedBy(c, spec, kind) ==
    IF kind = "configmap" THEN getConfMapRefFromBdpl(spec)
    ELSE getSecretRefFromBdpl(c, spec)

\* The names of the secrets need the manifest: an error ends the mapping.
MappingFails(c, kind) ==
    /\ kind = "secret"
    /\ \E n \in Names : bdplCache[n] # NoSpec /\ ~load(c, bdplCache[n])

GetReconcilesForBDPL(c, k) ==
    IF MappingFails(c, Kind(k)) THEN {}
    ELSE {n \in Names : /\ bdplCache[n] # NoSpec
                        /\ k \in ReferencedBy(c, bdplCache[n], Kind(k))}

isLinkProviderService(v) == v > 0 /\ Service[v].provider

\* getEndpointsService
EndpointsService(k) == <<"service", k[2]>>

\* The kinds whose mapping asks skip.Reconciles, and all that are watched.
Skippable == {"configmap", "secret"}

Watched == Skippable \cup {"service", "endpoints"}

\* An event is the creation (old = 0) or the update of an object; live says
\* that the object is still the one in the cache.
Events == [old : Versions, new : 1 .. MaxData, live : BOOLEAN]

\* The predicates.  c is the cache when the event is handled.
Passes(c, k, e) ==
    CASE Kind(k) = "configmap" -> TRUE
      [] Kind(k) = "secret" ->
           e.old = 0 => Cardinality(GetReconcilesForBDPL(c, k)) > 1
      [] Kind(k) = "service" ->
           isLinkProviderService(e.new) \/ isLinkProviderService(e.old)
      [] Kind(k) = "endpoints" ->
           /\ EndpointsService(k) \in Keys
           /\ isLinkProviderService(c[EndpointsService(k)])
      [] OTHER -> FALSE

\* The requests an event that passed is mapped to; both versions of a service
\* are mapped, each to one request, an empty one when it has no label.
RequestsNewOnly(c, k, e) ==
    IF Kind(k) \in Skippable THEN GetReconcilesForBDPL(c, k)
    ELSE IF Kind(k) = "service" THEN {Service[e.new].label}
    ELSE {Service[c[EndpointsService(k)]].label} \ {NoName}

Requests(c, k, e) ==
    IF Kind(k) \in Skippable THEN GetReconcilesForBDPL(c, k)
    ELSE IF Kind(k) = "service"
    THEN {Service[v].label : v \in {e.new, e.old} \ {0}}
    ELSE {Service[c[EndpointsService(k)]].label} \ {NoName}

\* skip.Reconciles: the object is not the one in the cache any more.
SkipReconciles(k, e) == Kind(k) \in Skippable /\ ~e.live

Mapped(c, k, e) ==
    IF Passes(c, k, e) /\ ~SkipReconciles(k, e) THEN Requests(c, k, e) ELSE {}

\* The deployments that name an object, or a variable of which it is the secret.
Using(c, k) ==
    {n \in Names : /\ bdplCache[n] # NoSpec
                   /\ \/ k \in RefKeys(bdplCache[n]) \cup bdplCache[n].vars
                      \/ k \in SecretRefs(ManifestOf(c, bdplCache[n]))}

\* The gaps of the mapping: a skipped event; an error while a secret is
\* mapped; a secret created for a single deployment; a secret of a slashed
\* variable.
Gap(c, k, e) ==
    {n \in Names :
       /\ bdplCache[n] # NoSpec
       /\ \/ SkipReconciles(k, e) /\ n \in Using(c, k)
          \/ Kind(k) = "secret" /\ MappingFails(c, "secret")
          \/ /\ Kind(k) = "secret" /\ e.old = 0
             /\ GetReconcilesForBDPL(c, k) = {n}
          \/ /\ Kind(k) = "secret" /\ load(c, bdplCache[n])
             /\ k \in SecretRefs(ManifestOf(c, bdplCache[n]))
             /\ n \notin GetReconcilesForBDPL(c, k)}

\* The gaps of the watches, changes that are never mapped: a deleted service,
\* and a secret that provides a link.
Unmapped(c, k, old) ==
    {n \in Names :
       /\ bdplCache[n] # NoSpec
       /\ \/ /\ Kind(k) = "service" /\ c[k] = 0
             /\ isLinkProviderService(old) /\ Service[old].label = n
          \/ /\ k \in LinkSecrets
             /\ load(c, bdplCache[n]) /\ ManifestOf(c, bdplCache[n]).linked}

\* An informer brings the cache up to date and hands the event on; deletions
\* never pass.  An older event of the object will be skipped, if its kind is
\* one of those.
Watch(k) ==
    LET old == cache[k]
        c == [cache EXCEPT ![k] = store[k]]
        older == IF Kind(k) \in Skippable THEN {} ELSE pending[k]
        event == [old |-> old, new |-> store[k], live |-> TRUE]
    IN  /\ store[k] # old
        /\ cache' = c
        /\ pending' = [pending EXCEPT ![k] =
              IF store[k] > 0 /\ Kind(k) \in Watched THEN older \cup {event}
              ELSE older]
        /\ lost' = lost \cup Unmapped(c, k, old)
        /\ UNCHANGED <<store, bdpl, bdplCache, request, queue, worker, deployed,
                       changes>>

\* An object gets another resource version and keeps its data: that event
\* fails the predicate, and the one before it is outdated.
Touch(k) ==
    /\ Kind(k) \in Skippable
    /\ \E e \in pending[k] :
         /\ e.live
         /\ pending' = [pending EXCEPT ![k] = {[e EXCEPT !.live = FALSE]}]
    /\ UNCHANGED <<store, cache, bdpl, bdplCache, request, queue, worker,
                   deployed, lost, changes>>

\* The handler of an event: its predicate and its mapping.  The order of the
\* events does not matter: a handler looks at one and at the caches.
Handle(k) ==
    /\ \E e \in pending[k] :
         /\ pending' = [pending EXCEPT ![k] = @ \ {e}]
         /\ queue' = queue \cup Mapped(cache, k, e)
         /\ lost' = lost \cup Gap(cache, k, e)
    /\ UNCHANGED <<store, cache, bdpl, bdplCache, request, worker, deployed,
                   changes>>

\* One more gap: a call of the handler fails.  The error is logged, or taken
\* for "no", and the requests are lost.
HandleFails(k) ==
    /\ CallsFail /\ Kind(k) # "service"
    /\ \E e \in pending[k] :
         /\ pending' = [pending EXCEPT ![k] = @ \ {e}]
         /\ lost' = lost \cup Gap(cache, k, e)
                         \cup (Mapped(cache, k, e) \cap Names)
    /\ UNCHANGED <<store, cache, bdpl, bdplCache, request, queue, worker,
                   deployed, changes>>

\* A BOSHDeployment was created, or its spec has changed.
WatchBDPL(n) ==
    /\ bdpl[n] # bdplCache[n]
    /\ bdplCache' = [bdplCache EXCEPT ![n] = bdpl[n]]
    /\ queue' = queue \cup {n}
    /\ UNCHANGED <<store, cache, pending, bdpl, request, worker, deployed, lost,
                   changes>>

------------------------------------------------------------------------------
(* The reconcile, as far as it reads.                                       *)

\* A request without a BOSHDeployment is dropped.
NotFound(n) ==
    /\ n \in queue /\ (n \in Names => bdplCache[n] = NoSpec)
    /\ n \in Names => worker[n].step = "idle"
    /\ queue' = queue \ {n}
    /\ UNCHANGED <<store, cache, pending, bdpl, bdplCache, request, worker,
                   deployed, lost, changes>>

\* Manifest: the manifest and the ops are loaded; an error is retried.
Load(n) ==
    /\ n \in queue /\ bdplCache[n] # NoSpec /\ worker[n].step = "idle"
    /\ lost' = lost \ {n}
    /\ IF load(cache, bdplCache[n])
       THEN /\ queue' = queue \ {n}
            /\ worker' = [worker EXCEPT ![n] =
                 [step |-> "apply", spec |-> bdplCache[n],
                  read |-> Restricted(cache, RefKeys(bdplCache[n]))]]
       ELSE UNCHANGED <<queue, worker>>
    /\ UNCHANGED <<store, cache, pending, bdpl, bdplCache, request, deployed,
                   changes>>

\* ... then the variables and the links, from what the caches hold by now.
Resolve(n) ==
    LET w == worker[n]
        m == ManifestOf(w.read, w.spec)
        ok == applyVariables(cache, w.spec, m) /\ List(cache, n, m)
        late == LateKeys(cache, n, w.spec, m)
    IN  /\ w.step = "apply"
        /\ worker' = [worker EXCEPT ![n] = NotRunning]
        /\ IF ok
           THEN /\ deployed' = [deployed EXCEPT ![n] =
                     [k \in Keys |-> IF k \in late THEN cache[k] ELSE w.read[k]]]
                /\ UNCHANGED queue
           ELSE /\ queue' = queue \cup {n}
                /\ UNCHANGED deployed
        /\ UNCHANGED <<store, cache, pending, bdpl, bdplCache, request, lost,
                       changes>>

------------------------------------------------------------------------------
(* Specification *)

\* Users, quarks-secret and Kubernetes create, change and delete objects.
Change(k) ==
    /\ changes > 0 /\ changes' = changes - 1
    /\ Kind(k) # "url"
    /\ \E v \in {0, store[k] + 1} \cap Versions :
         v # store[k] /\ store' = [store EXCEPT ![k] = v]
    /\ UNCHANGED <<cache, pending, bdpl, bdplCache, request, queue, worker,
                   deployed, lost>>

Init ==
    /\ store \in Starts /\ cache = store /\ pending = [k \in Keys |-> {}]
    /\ bdpl = [n \in Names |-> NoSpec] /\ bdplCache = bdpl
    /\ request = [n \in Names |-> Idle]
    /\ queue = {}
    /\ worker = [n \in Names |-> NotRunning]
    /\ deployed = [n \in Names |-> Nothing]
    /\ lost = {}
    /\ changes = MaxChanges

Validate(n) ==
    \/ OnlyOne(n) \/ NotOnlyOne(n) \/ opsResourcesExist(n)
    \/ Timeout(n) \/ Admit(n) \/ Deny(n)

Next ==
    \/ \E n \in Names :
         \/ \E spec \in Specs \cup {EmptySpec}, meta \in BOOLEAN :
              Submit(n, spec, meta)
         \/ Validate(n) \/ ListFails(n)
         \/ WatchBDPL(n) \/ Load(n) \/ Resolve(n)
    \/ \E n \in Names \cup {NoName} : NotFound(n)
    \/ \E k \in Keys : \/ Watch(k) \/ Touch(k) \/ Handle(k) \/ HandleFails(k)
                      \/ Change(k)

Spec == Init /\ [][Next]_vars

\* The webhook's loop and its timer, the informers and the workers keep going.
Fairness ==
    /\ \A n \in Names : /\ WF_vars(Validate(n)) /\ WF_vars(WatchBDPL(n))
                        /\ WF_vars(Load(n)) /\ WF_vars(Resolve(n))
    /\ \A n \in Names \cup {NoName} : WF_vars(NotFound(n))
    /\ \A k \in Keys : WF_vars(Watch(k)) /\ WF_vars(Handle(k))

FairSpec == Spec /\ Fairness

------------------------------------------------------------------------------
(* Properties *)

\* Nothing runs, and every event is delivered.
Quiet ==
    /\ store = cache /\ bdpl = bdplCache
    /\ \A k \in Keys : pending[k] = {}
    /\ queue = {} /\ \A n \in Names : worker[n] = NotRunning

\* Every object that is watched is the one the deployment was resolved from.
\* Selected pods are not watched.
Current(n) ==
    \A k \in Keys : Kind(k) # "pods" =>
        deployed[n][k] = Resolved(store, n, bdpl[n])[k]

Settled(n) == bdpl[n] # NoSpec /\ Resolvable(store, n, bdpl[n]) => Current(n)

\* When everything is quiet, each BOSHDeployment that can be resolved was last
\* resolved from the current spec, config maps, secrets, services and
\* endpoints, unless one of the gaps (Gap, Unmapped, HandleFails) swallowed the
\* event: no other order of cache updates, mappings and reads loses a change
\* (deployment_controller.go, reconciles.go).
NoChangeMissed == Quiet => \A n \in Names : n \in lost \/ Settled(n)

\* "GetSecretsReferencedBy returns a list of all names for Secrets referenced
\* by the object" (secret_references.go:16), from which the watch tells the
\* deployments a secret matters to: a deployment never stays on the old data
\* of a secret it refers to.
SecretChangesNoticed ==
    Quiet => \A n \in Names :
        bdpl[n] # NoSpec /\ Resolvable(store, n, bdpl[n]) =>
            \A k \in Secrets : n \in Using(store, k) =>
                deployed[n][k] = store[k]

\* Every admission request is answered, also one whose ops never appear or
\* are of type url, which is never looked for (validating_webhook.go:154).
EveryRequestAnswered == \A n \in Names : request[n] # Idle ~> request[n] = Idle

-----------------------------------------------------------------------------
(* Why they hold: the inductive invariant of the proofs *)

Copies == [Keys -> Versions]

RequestType == [step : {"idle", "list", "poll", "resolve"}, spec : AllSpecs,
                meta : BOOLEAN]

TypeOK ==
    /\ store \in Copies /\ cache \in Copies
    /\ pending \in [Keys -> SUBSET Events]
    /\ bdpl \in [Names -> AllSpecs] /\ bdplCache \in [Names -> AllSpecs]
    /\ request \in [Names -> RequestType]
    /\ queue \subseteq Names \cup {NoName}
    /\ worker \in [Names -> [step : {"idle", "apply"}, spec : AllSpecs,
                             read : Copies]]
    /\ deployed \in [Names -> Copies]
    /\ lost \subseteq Names
    /\ changes \in 0 .. MaxChanges

\* The repository does not change what a url leads to.
UrlsFixed == \A k \in Keys : Kind(k) = "url" => cache[k] = store[k]

\* A reconcile runs with the current spec, or will be followed by another.
RunsCurrent ==
    \A n \in Names :
        worker[n].step = "apply" => worker[n].spec = bdplCache[n] \/ n \in queue

\* The objects a resolved deployment depends on.
Tracked(c, n, spec) == RefKeys(spec) \cup LateKeys(c, n, spec, ManifestOf(c, spec))

\* One version of the service provides links for the deployment.
Links(e, n) ==
    \E v \in {e.old, e.new} : isLinkProviderService(v) /\ Service[v].label = n

\* An event on its way will queue the deployment or be a gap: of the manifest
\* or an ops, or of a service that is, or was, one of its links.
Announced(n) ==
    \/ \E k \in Keys : /\ k \in RefKeys(bdplCache[n]) /\ Kind(k) \in Skippable
                      /\ pending[k] # {}
    \/ \E k \in Keys : Kind(k) = "service" /\ \E e \in pending[k] : Links(e, n)

\* ... of a variable or of the endpoints of a link.
Awaited(n, k) ==
    /\ pending[k] # {}
    /\ \/ k \in bdplCache[n].vars \cup SecretRefs(ManifestOf(cache, bdplCache[n]))
       \/ Kind(k) = "endpoints"

\* What was deployed is what the caches hold of every object it depends on
\* that exists, or an event of that object is on its way, and nothing else.
Agrees(n) ==
    load(cache, bdplCache[n]) =>
        \A k \in Keys : Kind(k) # "pods" =>
            IF k \in Tracked(cache, n, bdplCache[n])
            THEN cache[k] > 0 => deployed[n][k] = cache[k] \/ Awaited(n, k)
            ELSE deployed[n][k] = 0

\* A reconcile that has loaded the manifest has what the caches hold.
LoadedCurrent(n) ==
    /\ worker[n].spec = bdplCache[n]
    /\ load(cache, bdplCache[n]) =>
         worker[n].read = Restricted(cache, RefKeys(bdplCache[n]))

Followed(n) ==
    bdplCache[n] # NoSpec =>
        \/ n \in queue
        \/ n \in lost
        \/ Announced(n)
        \/ worker[n].step = "apply" /\ LoadedCurrent(n)
        \/ worker[n].step = "idle" /\ Agrees(n)

FollowInv ==
    /\ TypeOK
    /\ UrlsFixed
    /\ RunsCurrent
    /\ \A n \in Names : Followed(n)
==============================================================================
