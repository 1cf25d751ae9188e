------------------------------ MODULE Rollout ------------------------------
(***************************************************************************)
(* A deployment from its manifest to running pods: the manifest is         *)
(* completed (withops/resolver.go), the instance group QuarksJob resolves  *)
(* every instance group, the BPM reconciler converts it, StatefulSets      *)
(* create its pods one after the other, and a pod runs its init containers *)
(* in order before its containers.  A pod that is deleted runs the drain   *)
(* scripts of its jobs in the pre-stop hooks of its containers.            *)
(***************************************************************************)
EXTENDS BPMConverter

CONSTANTS
    Deployments,   \* what is deployed: a set of [manifest, initial, version]
    MaxDeletions,  \* how often a pod is deleted
    MaxRestarts    \* how often a probe restarts a container

ASSUME RolloutAssumption == MaxDeletions \in Nat /\ MaxRestarts \in Nat

VARIABLES
    d,         \* the deployment: its manifest with the operations applied,
               \* whether its object is in its first generation, the version
               \* of the instance groups' resolved secrets, and the documents
               \* that are computed from these, each Nil if it cannot be
    published, \* the with-ops manifest and the QuarksJob were created
    resolved,  \* the groups whose container of the QuarksJob has succeeded
    converted, \* the groups whose resources were created
    pods,      \* the pods, by <<group, zone, ordinal>>
    served,    \* the groups that have had a ready pod
    deletions, restarts

progress == <<d, published, resolved, converted>>
vars == <<progress, pods, served, deletions, restarts>>

desired == d.desired[1]
output(g) == d.output[g][1]
applied(g) == d.applied[g][1]
object(g) == applied(g).object
Groups == DOMAIN d.output
Ig(g) == InstanceGroupByName(desired, g)[1]

-----------------------------------------------------------------------------
(* What is deployed: manifests as they are decoded, whose lists are lists  *)
(* and whose structs have their fields.  The groups of a manifest have     *)
(* names, which still differ as names of Kubernetes objects, as do those   *)
(* of their services; the code checks neither.  A group has as many        *)
(* instances in a zone as names.SpecIndex can count.                       *)

ProcessFields == {"name", "executable", "preStart", "env", "ephemeralDisk",
                  "persistentDisk", "additional", "unrestricted"}
JobFields == {"name", "release", "ports", "provides", "consumes", "isAddon",
              "properties", "bpm", "envs", "activePassive", "links", "aliases"}
GroupFields == {"name", "instances", "azs", "jobs", "lifecycle", "update",
                "required", "stemcell", "persistentDisk", "ephemeralAsPVC",
                "injectReplicas", "disableLogSidecar", "dns", "disks"}
ManifestFields == {"groups", "addons", "releases", "stemcells", "update", "links",
                   "addonsApplied", "failed"}

IsSeq(s) == s \in Seq(ToSet(s))

IsProcessList(processes) ==
    /\ IsSeq(processes)
    /\ \A k \in DOMAIN processes :
           LET p == processes[k]
           IN DOMAIN p = ProcessFields /\ IsSeq(p.additional) /\ IsSeq(p.unrestricted)

IsSpec(spec) ==
    IsProcessList(spec.processes) /\ IsSeq(spec.provides) /\ IsSeq(spec.consumes)

IsJobList(jobs) ==
    /\ IsSeq(jobs)
    /\ \A k \in DOMAIN jobs :
           LET job == jobs[k]
           IN /\ DOMAIN job = JobFields
              /\ IsSpec(Specs[<<job.release, job.name>>])
              /\ IsProcessList(Presets(job))

IsGroup(ig) ==
    /\ DOMAIN ig = GroupFields
    /\ IsJobList(ig.jobs)
    /\ ig.name # ""
    /\ ig.instances \in Nat /\ ig.azs \in Nat
    /\ ig.azs > 0 => ig.instances <= MaxReplicasPerAZ
    /\ IsSeq(ig.disks) /\ \A k \in DOMAIN ig.disks : IsSeq(ig.disks[k].mount)

IsManifest(m) ==
    /\ DOMAIN m = ManifestFields
    /\ IsSeq(m.groups) /\ \A i \in DOMAIN m.groups : IsGroup(m.groups[i])
    /\ IsSeq(m.addons) /\ \A a \in DOMAIN m.addons : IsJobList(m.addons[a].jobs)

GroupsDiffer(m) ==
    \A i, j \in DOMAIN m.groups :
        Sanitized[m.groups[i].name] = Sanitized[m.groups[j].name] => i = j

Places(ig) == NamedZones(ig) \X (0..(ig.instances - 1))
AddressAt(ig, place) == IndexedServiceName(ig, place[2], place[1])

\* No two services of a manifest have one name: no group "db" with a group
\* "db-0" beside it, and no names that are equal when they are cut.
AddressesDiffer(m) ==
    \A i, j \in DOMAIN m.groups : \A p \in Places(m.groups[i]) :
        /\ AddressAt(m.groups[i], p) # ServiceName(m.groups[j].name)
        /\ \A q \in Places(m.groups[j]) :
               AddressAt(m.groups[i], p) = AddressAt(m.groups[j], q) => i = j /\ p = q

ServicesDiffer(m) == GroupsDiffer(m) /\ AddressesDiffer(m)

ASSUME DeploymentsAssumption ==
    \A c \in Deployments : IsManifest(c.manifest) /\ ServicesDiffer(c.manifest)

-----------------------------------------------------------------------------
(* What a manifest needs to be deployed.                                   *)

JobsOf(m) == UNION {ToSet(m.groups[i].jobs) : i \in DOMAIN m.groups}

\* Every job has an image and valid BPM.
JobsRunnable(m) ==
    \A i \in DOMAIN m.groups : \A job \in ToSet(m.groups[i].jobs) :
        LET spec == Specs[<<job.release, job.name>>]
            releases == {r \in ToSet(m.releases) : r.name = job.release}
        IN /\ releases # {}
           /\ \/ \A r \in releases : r.os # ""
              \/ \E s \in ToSet(m.stemcells) : s.alias = m.groups[i].stemcell
           /\ spec.template \/ job.bpm # Nil
           /\ \A p \in ToSet(spec.processes) :
                  /\ p.executable # Nil
                  /\ p.persistentDisk = <<TRUE>> => m.groups[i].persistentDisk > 0
                  /\ \A v \in ToSet(AdditionalVolumes(p)) :
                         /\ additionalVolumeValid(v) /\ v[1] \in {"data", "store", "sys"}
                         /\ v[1] = "store" => p.persistentDisk = <<TRUE>>

\* Every link has one provider that is no addon, and every consumer one at all.
LinksProvided(m) ==
    LET Providers(type, name) ==
            {j \in (DOMAIN m.groups) \X (1..Cardinality(JobsOf(m)) + 1) :
                /\ j[2] \in DOMAIN m.groups[j[1]].jobs
                /\ LET job == m.groups[j[1]].jobs[j[2]]
                   IN \E l \in ToSet(Specs[<<job.release, job.name>>].provides) :
                          l.type = type /\ LinkName(job, l) = name}
        Native(type, name) == name \in DOMAIN m.links /\ m.links[name].type = type
        Plain(type, name) == {j \in Providers(type, name) :
                                 ~m.groups[j[1]].jobs[j[2]].isAddon}
    IN \A job \in JobsOf(m) :
           LET spec == Specs[<<job.release, job.name>>]
           IN /\ \A l \in ToSet(spec.consumes) :
                     l.optional \/ Native(l.type, l.name) \/ Providers(l.type, l.name) # {}
              /\ \A l \in ToSet(spec.provides) :
                     /\ LinkName(job, l) # Error
                     /\ Cardinality(Plain(l.type, LinkName(job, l))) <= 1
                     /\ Native(l.type, LinkName(job, l)) =>
                            Plain(l.type, LinkName(job, l)) = {}

\* A group that others wait for serves: it has instances and is no errand;
\* the releases of a group without instances are those of other groups too.
GroupsServe(m) ==
    \A i \in DOMAIN m.groups :
        LET ig == m.groups[i]
            others == UNION {ToSet(m.groups[k].jobs) : k \in
                                {l \in DOMAIN m.groups : m.groups[l].instances > 0}}
        IN /\ ServicePorts(ig) # {} => ig.instances > 0 /\ ~IsErrand(ig)
           /\ ig.instances = 0 => {job.release : job \in ToSet(ig.jobs)}
                                     \subseteq {job.release : job \in others}

Deployable(m) ==
    /\ m.update # Nil
    /\ JobsRunnable(m) /\ LinksProvided(m) /\ GroupsServe(m)

-----------------------------------------------------------------------------
(* The documents.                                                          *)

\* The end of applyVariables in withops/resolver.go.
applyVariables(m) ==
    LET Complete(updated) == IF updated.failed THEN Nil ELSE <<updated>>
    IN Complete(ApplyUpdateBlock(ApplyAddons(m)))

GroupNames(m) == {m.groups[k].name : k \in DOMAIN m.groups}

\* All secrets of native links are mounted into the QuarksJob's containers.
Outputs(m, job, initial) ==
    [g \in GroupNames(m) |->
        InstanceGroupCmd(m, g, job.specs, DOMAIN m.links, initial)]

ServiceIP == "service-ip"

\* applyBPMResources: the BPM secret with the latest desired manifest.
applyBPMResources(m, outputs, version) ==
    [g \in DOMAIN outputs |->
        IF outputs[g] = Nil THEN Nil
        ELSE Resources(m, InstanceGroupByName(m, g)[1], outputs[g][1].bpm, version,
                       ServiceIP)]

\* The documents of a deployment c, each from the ones before it.
WithOutputs(c, complete, job, outputs) ==
    [manifest |-> c.manifest, initial |-> c.initial, version |-> c.version,
     deployable |-> Deployable(ApplyAddons(c.manifest)),
     desired |-> complete, qJob |-> job, output |-> outputs,
     applied |-> IF job = Nil THEN outputs
                 ELSE applyBPMResources(complete[1], outputs, c.version)]

WithJob(c, complete, job) ==
    WithOutputs(c, complete, job,
                IF job = Nil THEN [g \in GroupNames(c.manifest) |-> Nil]
                ELSE Outputs(complete[1], job[1], c.initial))

Documents(c) ==
    LET WithManifest(complete) ==
            WithJob(c, complete, IF complete = Nil THEN Nil
                                 ELSE InstanceGroupManifestJob(complete[1]))
    IN WithManifest(applyVariables(c.manifest))

-----------------------------------------------------------------------------
(* The operator.                                                           *)

Publish ==
    /\ ~published /\ d.qJob # Nil
    /\ published' = TRUE
    /\ UNCHANGED <<d, resolved, converted, pods, served, deletions, restarts>>

\* A container of the QuarksJob; one that fails is started again.
RunInstanceGroup(g) ==
    /\ published
    /\ g \in d.qJob[1].containers \ resolved
    /\ d.output[g] # Nil
    /\ resolved' = resolved \cup {g}
    /\ UNCHANGED <<d, published, converted, pods, served, deletions, restarts>>

\* Faulty variant: the conversion does not wait for the container's output.
ConvertAtOnce(g) ==
    /\ g \in Groups \ converted
    /\ d.applied[g] # Nil
    /\ converted' = converted \cup {g}
    /\ UNCHANGED <<d, published, resolved, pods, served, deletions, restarts>>

Convert(g) ==
    /\ g \in resolved \ converted
    /\ d.applied[g] # Nil
    /\ converted' = converted \cup {g}
    /\ UNCHANGED <<d, published, resolved, pods, served, deletions, restarts>>

-----------------------------------------------------------------------------
(* External: StatefulSets, the Jobs of errands, kubelet and DNS.           *)

Zones(g) == IF object(g).zones = 0 THEN {0} ELSE 0..(object(g).zones - 1)

PodIds(g) ==
    IF object(g).kind = "QuarksStatefulSet"
    THEN {g} \X Zones(g) \X (0..(object(g).replicas - 1))
    ELSE IF object(g).trigger = "once" THEN {<<g, 0, 0>>} ELSE {}

IsReady(p) == p \in DOMAIN pods /\ pods[p].phase = "ready"

\* A pod has a fresh directory of drain stamps.
NewPod == [phase |-> "init", step |-> 0, instance |-> Nil, stamps |-> {},
           hooks |-> <<>>, restarted |-> FALSE]

Added(p) == [q \in DOMAIN pods \cup {p} |-> IF q = p THEN NewPod ELSE pods[q]]

Template(p) == object(p[1]).template

DeclaredVolumes(t) == t.volumes \cup t.claims

MountedVolumes(t) ==
    {mount.volume : mount \in UNION {c.mounts : c \in ToSet(t.init) \cup ToSet(t.containers)}}

\* In the order of the ordinals, each after the one before it is ready.  A
\* template that mounts a volume it does not declare is refused.
CreatePod(p) ==
    /\ p[1] \in converted
    /\ p \in PodIds(p[1]) \ DOMAIN pods
    /\ \A o \in 0..(p[3] - 1) : IsReady(<<p[1], p[2], o>>)
    /\ MountedVolumes(Template(p)) \subseteq DeclaredVolumes(Template(p))
    /\ pods' = Added(p)
    /\ UNCHANGED <<progress, served, deletions, restarts>>

\* One active pod of an active/passive group carries the label: the first
\* ready one.
Selects(s, p) ==
    /\ s.az = Nil \/ s.az = <<p[2]>>
    /\ s.ordinal = Nil \/ s.ordinal = <<p[3]>>
    /\ s.active => \A q \in DOMAIN pods :
                       q[1] = p[1] /\ q # p /\ IsReady(q) =>
                           p[2] < q[2] \/ (p[2] = q[2] /\ p[3] < q[3])

\* The name resolves: a service with a ready pod.
Resolves(name) ==
    \E g \in converted : \E s \in applied(g).services : \E p \in DOMAIN pods :
        s.name = name /\ p[1] = g /\ IsReady(p) /\ Selects(s, p)

\* What the pod is told of itself: the zone counted from 1, its ordinal and,
\* if wanted, the number of replicas instead of the container's 1.
Render(p, initialRollout) ==
    LET ig == output(p[1]).manifest
        o == object(p[1])
    IN IF o.kind = "QuarksJob" THEN RenderJobTemplates(ig, 1, 0, 1, initialRollout)
       ELSE RenderJobTemplates(ig, p[2] + 1, p[3],
                               IF o.inject THEN o.replicas ELSE 1, initialRollout)

\* The next init container of p ends.  The one that waits for a service does
\* not end before, and is started again when it times out.
RunInit(p) ==
    /\ p \in DOMAIN pods /\ pods[p].phase = "init"
    /\ pods[p].step < Len(Template(p).init)
    /\ LET c == Template(p).init[pods[p].step + 1].name
           rendered == Render(p, c[2])
       IN /\ c[1] = "wait-for" => Resolves(c[2])
          /\ c[1] = "template-render" => rendered # Nil
          /\ pods' = [pods EXCEPT ![p].step = @ + 1,
                                  ![p].instance = IF c[1] = "template-render"
                                                  THEN rendered ELSE @]
    /\ UNCHANGED <<progress, served, deletions, restarts>>

StartContainers(p) ==
    /\ p \in DOMAIN pods /\ pods[p].phase = "init"
    /\ pods[p].step = Len(Template(p).init)
    /\ pods' = [pods EXCEPT ![p].phase = "started"]
    /\ UNCHANGED <<progress, served, deletions, restarts>>

\* The readiness probes succeed, or the errand is done.
BecomeReady(p) ==
    /\ p \in DOMAIN pods /\ pods[p].phase = "started"
    /\ pods' = [pods EXCEPT ![p].phase =
                    IF object(p[1]).kind = "QuarksJob" THEN "done" ELSE "ready"]
    /\ served' = IF object(p[1]).kind = "QuarksJob" THEN served
                 ELSE served \cup {p[1]}
    /\ UNCHANGED <<progress, deletions, restarts>>

-----------------------------------------------------------------------------
(* Pre-stop hooks.                                                         *)

\* A container without a hook stops at once; the hook of the first container
\* of a job runs the drain script, the other ones wait.
StartHook(c) == IF c.preStop = Nil THEN "stopped"
                ELSE IF c.preStop[1].script = Nil THEN "waiting" ELSE "draining"

Delete(p) ==
    /\ p \in DOMAIN pods /\ pods[p].phase \in {"started", "ready"}
    /\ deletions < MaxDeletions
    /\ object(p[1]).kind = "QuarksStatefulSet"
    /\ LET cs == Template(p).containers
       IN pods' = [pods EXCEPT ![p].phase = "terminating",
                               ![p].hooks = [k \in DOMAIN cs |-> StartHook(cs[k])]]
    /\ deletions' = deletions + 1
    /\ UNCHANGED <<progress, served, restarts>>

\* The drain script of a container asks to be run again, or it is done or has
\* failed: then the stamp is set.
Drained(p, k) ==
    /\ p \in DOMAIN pods /\ pods[p].phase = "terminating"
    /\ k \in DOMAIN pods[p].hooks /\ pods[p].hooks[k] = "draining"
    /\ LET job == Template(p).containers[k].preStop[1].script
       IN pods' = [pods EXCEPT ![p].hooks[k] = "waiting", ![p].stamps = @ \cup {job}]
    /\ UNCHANGED <<progress, served, deletions, restarts>>

\* Faulty variant: the hook waits for the first stamp only.
EndHookAtFirstStamp(p, k) ==
    /\ p \in DOMAIN pods /\ pods[p].phase = "terminating"
    /\ k \in DOMAIN pods[p].hooks /\ pods[p].hooks[k] = "waiting"
    /\ pods[p].stamps # {}
    /\ pods' = [pods EXCEPT ![p].hooks[k] = "stopped"]
    /\ UNCHANGED <<progress, served, deletions, restarts>>

\* The hook counts the stamps.
EndHook(p, k) ==
    /\ p \in DOMAIN pods /\ pods[p].phase = "terminating"
    /\ k \in DOMAIN pods[p].hooks /\ pods[p].hooks[k] = "waiting"
    /\ Cardinality(pods[p].stamps) >= Template(p).containers[k].preStop[1].stamps
    /\ pods' = [pods EXCEPT ![p].hooks[k] = "stopped"]
    /\ UNCHANGED <<progress, served, deletions, restarts>>

Gone(p) == [q \in DOMAIN pods \ {p} |-> pods[q]]

Terminated(p) ==
    /\ p \in DOMAIN pods /\ pods[p].phase = "terminating"
    /\ \A k \in DOMAIN pods[p].hooks : pods[p].hooks[k] = "stopped"
    /\ pods' = Gone(p)
    /\ UNCHANGED <<progress, served, deletions, restarts>>

\* The grace period of the pod ends before its hooks do.
GracePeriodEnds(p) ==
    /\ p \in DOMAIN pods /\ pods[p].phase = "terminating"
    /\ pods' = Gone(p)
    /\ UNCHANGED <<progress, served, deletions, restarts>>

\* A liveness probe fails: the container's hook runs, leaves its stamp, waits
\* in vain and is killed; the container is started again in the same pod.
RestartContainer(p, k) ==
    /\ IsReady(p) /\ restarts < MaxRestarts
    /\ k \in DOMAIN Template(p).containers
    /\ Template(p).containers[k].preStop # Nil
    /\ LET script == Template(p).containers[k].preStop[1].script
       IN pods' = [pods EXCEPT ![p].restarted = TRUE,
                       ![p].stamps = IF script = Nil THEN @ ELSE @ \cup {script}]
    /\ restarts' = restarts + 1
    /\ UNCHANGED <<progress, served, deletions>>

-----------------------------------------------------------------------------
Init ==
    /\ \E c \in Deployments : d = Documents(c)
    /\ published = FALSE
    /\ resolved = {} /\ converted = {} /\ served = {}
    /\ pods = <<>>
    /\ deletions = 0 /\ restarts = 0

AllPods == UNION {PodIds(g) : g \in converted}

Operator == Publish \/ \E g \in Groups : RunInstanceGroup(g) \/ Convert(g)

RunPod(p) == CreatePod(p) \/ RunInit(p) \/ StartContainers(p) \/ BecomeReady(p)

RunHooks(p) ==
    \/ \E k \in DOMAIN Template(p).containers : Drained(p, k) \/ EndHook(p, k)
    \/ Terminated(p)

Next ==
    \/ Operator
    \/ \E p \in AllPods : RunPod(p) \/ RunHooks(p)
    \/ \E p \in AllPods : Delete(p) \/ GracePeriodEnds(p)
    \/ \E p \in AllPods : \E k \in DOMAIN Template(p).containers :
           RestartContainer(p, k)

\* Controllers and kubelets retry, and drain scripts end; pods need not be
\* deleted, nor probes fail, nor a grace period be short.  No step undoes
\* another without a deletion, so one condition serves all pods.
Spec ==
    /\ Init /\ [][Next]_vars
    /\ WF_vars(Operator)
    /\ WF_vars(\E p \in AllPods : RunPod(p) \/ RunHooks(p))

-----------------------------------------------------------------------------
(* Properties.                                                             *)

Phases == {"init", "started", "ready", "done", "terminating"}

\* What the template rendering containers of a pod may render.
Renderings(p) ==
    {Render(p, c.name[2]) : c \in {i \in ToSet(Template(p).init) :
                                      i.name[1] = "template-render"}}

\* The containers with a drain script.
Drainers(cs) ==
    {k \in DOMAIN cs : cs[k].preStop # Nil /\ cs[k].preStop[1].script # Nil}

PodOf(template, renderings) ==
    LET cs == template.containers
    IN [phase : Phases, step : 0..Len(template.init),
        instance : {Nil} \cup renderings,
        stamps : SUBSET {cs[k].preStop[1].script : k \in Drainers(cs)},
        hooks : {<<>>} \cup [DOMAIN cs -> {"draining", "waiting", "stopped"}],
        restarted : BOOLEAN]

PodType(p) == PodOf(Template(p), Renderings(p))

TypeOK ==
    /\ \E c \in Deployments :
           c.manifest = d.manifest /\ c.initial = d.initial /\ c.version = d.version
    /\ published \in BOOLEAN
    /\ converted \subseteq resolved /\ resolved \subseteq Groups
    /\ served \subseteq converted
    /\ DOMAIN pods \subseteq AllPods
    /\ \A p \in DOMAIN pods :
           /\ pods[p] \in PodType(p)
           /\ IF pods[p].phase = "terminating"
              THEN DOMAIN pods[p].hooks = DOMAIN Template(p).containers
              ELSE pods[p].hooks = <<>>
    /\ deletions \in 0..MaxDeletions /\ restarts \in 0..MaxRestarts

IndexIn(m, g) == SelectInSeq(m.groups, LAMBDA ig : ig.name = g)
Index(g) == IndexIn(desired, g)

\* update.serial: the containers of a serial group start only after every
\* serial group before it that has ports has had a ready pod, also when groups
\* without ports or parallel groups stand between them (apply_update_block.go,
\* the wait container of init_containers.go and cmd/internal/wait.go).
SerialOrder ==
    \A p \in DOMAIN pods : \A g \in Groups :
        /\ pods[p].phase # "init"
        /\ Index(g) < Index(p[1]) /\ Serial(Ig(g)) /\ Serial(Ig(p[1]))
        /\ ServicePorts(Ig(g)) # {}
        => g \in served

\* The links of a group's job that has consumers among the resolved groups:
\* <<consumer, job, link>>.
Told == UNION {UNION {
            LET links == output(g).manifest.jobs[k].links
            IN {<<g, k, links[n]>> : n \in DOMAIN links}
            : k \in DOMAIN output(g).manifest.jobs} : g \in resolved}

\* spec.index, spec.address and spec.bootstrap: the pods of a group that knows
\* its number of replicas render different instances, at most one of them
\* bootstraps, and each renders the instance the consumers of the group's
\* links were told of (instance_group.go, cmd_render_job_tmpls.go, as long as
\* resolver.go and init_containers.go agree on what an initial rollout is).
\* An errand has one pod, whatever its links say.
InstanceIdentity ==
    \A p \in DOMAIN pods :
        /\ pods[p].instance # Nil /\ Ig(p[1]).injectReplicas
        /\ object(p[1]).kind = "QuarksStatefulSet"
        => LET mine == pods[p].instance[1]
           IN /\ \A q \in DOMAIN pods \ {p} :
                     q[1] = p[1] /\ pods[q].instance # Nil =>
                         LET other == pods[q].instance[1]
                         IN /\ mine.index # other.index
                            /\ mine.address # other.address
                            /\ ~(mine.bootstrap /\ other.bootstrap)
              /\ d.initial = (d.version = 1) =>
                     \A t \in Told : t[3].group = p[1] =>
                         \E k \in DOMAIN t[3].instances : t[3].instances[k] = mine

\* No two jobs of the group have the same name.
JobsDiffer(ig) == \A k, l \in DOMAIN ig.jobs : ig.jobs[k].name = ig.jobs[l].name => k = l

\* Every address a link, a DNS alias or a wait container names for a group with
\* ports is a service of that group once it is converted, and the service of
\* an instance selects the very pod that renders the instance (resources.go,
\* instance_group.go, boshdns/corefile.go).  The BPM of a job hides that of an
\* earlier one of its name, with its ports.
PublishedAddressesServed ==
    \A g \in converted :
        /\ object(g).kind = "QuarksStatefulSet"
        /\ ServicePorts(Ig(g)) # {} /\ JobsDiffer(Ig(g))
        =>  LET services == applied(g).services
                serviceNames == {s.name : s \in services}
                aliases == {a \in Aliases(desired) : a.target.group = g}
            IN /\ \A t \in Told : t[3].group = g =>
                      /\ t[3].address \in serviceNames
                      /\ \A k \in DOMAIN t[3].instances :
                             t[3].instances[k].address \in serviceNames
               /\ \A a \in aliases : \A r \in Rewrites(desired, a) :
                      r.to \in serviceNames
               /\ ServiceName(g) \in serviceNames
               /\ \A p \in DOMAIN pods : \A s \in services :
                      p[1] = g /\ pods[p].instance # Nil /\ Ig(g).injectReplicas
                        /\ s.name = pods[p].instance[1].address
                      => s.az = <<p[2]>> /\ s.ordinal = <<p[3]>>

SpecOf(job) == Specs[<<job.release, job.name>>]

\* The positions <<group, job>> of the jobs of a manifest, in their order.
Positions(m) == UNION {{i} \X DOMAIN m.groups[i].jobs : i \in DOMAIN m.groups}
JobAt(m, j) == m.groups[j[1]].jobs[j[2]]
Before(j, l) == j[1] < l[1] \/ (j[1] = l[1] /\ j[2] < l[2])

\* The jobs that publish a link of the type under the name.
Published(m, type, name) ==
    {j \in Positions(m) : \E l \in ToSet(SpecOf(JobAt(m, j)).provides) :
        l.type = type /\ LinkName(JobAt(m, j), l) = name}

IsNative(m, type, name) == name \in DOMAIN m.links /\ m.links[name].type = type

\* What a job consumes: the links its spec names, under the names it gives them.
NameOf(job, n) == getProviderNameFromConsumer(job, SpecOf(job).consumes[n].name)

\* No later link of the job has the same name and replaces the n-th one.
Kept(job, n) ==
    \A o \in DOMAIN SpecOf(job).consumes : NameOf(job, o) = NameOf(job, n) => o = n

\* The link came from the job: an explicit property of the provider wins over
\* the default.
LinkedTo(link, ig, job) ==
    /\ link.group = ig.name
    /\ \A p \in DOMAIN link.properties \cap DOMAIN job.properties :
           link.properties[p] = job.properties[p]

\* A link of a type and name comes from a native provider or from the first
\* job that publishes one; whoever else publishes it is an addon.
Provided(m, type, name, link) ==
    LET providers == Published(m, type, name)
        native == IsNative(m, type, name)
        First(j) == ~native /\ \A l \in providers \ {j} : Before(j, l)
    IN /\ native \/ providers = {} => link.group = ""
       /\ \A j \in providers :
              IF First(j) THEN LinkedTo(link, m.groups[j[1]], JobAt(m, j))
              ELSE JobAt(m, j).isAddon

\* The links of the jobs of a resolved group are those of their providers
\* (job_provider_links.go, resolver.go), unless a later link of the job replaces
\* one.  "nil" marks a blocked link here and is no link's name.
LinksResolveToProvider ==
    \A g \in resolved : \A k \in DOMAIN Ig(g).jobs :
        LET job == Ig(g).jobs[k]
            consumes == SpecOf(job).consumes
            links == output(g).manifest.jobs[k].links
        IN \A n \in DOMAIN consumes :
               Kept(job, n) /\ consumes[n].name # "nil" =>
                   Provided(desired, consumes[n].type, consumes[n].name,
                            links[NameOf(job, n)])

\* "getProviderNameFromConsumer get the override of the provider to consume.
\* This should match the name defined in the provider's release spec or the
\* name defined by provider's as property": a consumer with a "from" key gets
\* the link of a job that publishes one under that name.
FromNamesProvider ==
    \A g \in resolved : \A k \in DOMAIN Ig(g).jobs :
        LET job == Ig(g).jobs[k]
            links == output(g).manifest.jobs[k].links
        IN \A n \in DOMAIN SpecOf(job).consumes :
               LET name == NameOf(job, n)
               IN links[name].group # "" =>
                      \E j \in Published(desired, SpecOf(job).consumes[n].type, name) :
                          desired.groups[j[1]].name = links[name].group

\* The two kinds of additional volumes that nothing declares: one that starts
\* with the store directory in a group without a persistent disk, and one that
\* starts with none of the known directories and gets no name.
Undeclared(ig, bpm) ==
    LET processes == UNION {ToSet(bpm[ig.jobs[k].name].processes) : k \in DOMAIN ig.jobs}
        paths == UNION {ToSet(AdditionalVolumes(p)) : p \in processes}
        Persistent == \E p \in processes : p.persistentDisk = <<TRUE>>
    IN {additionalVolumeName(ig, v) : v \in
           {w \in paths : \/ w[1] = "store" /\ ~Persistent
                          \/ w[1] \notin {"data", "store", "sys"}}}

\* The disks of the manifest's agent settings mount volumes they bring along.
DisksComplete(ig) ==
    \A k \in DOMAIN ig.disks : \A mount \in ToSet(ig.disks[k].mount) :
        mount.volume \in ToSet(ig.disks[k].volume) \cup ToSet(ig.disks[k].claim)

\* Every mount of a pod's containers, whichever of the default, BPM and agent
\* disks it comes from and through all the filters for jobs and processes,
\* names a volume or a claim of the pod (volume_factory.go,
\* container_factory.go), except those of the two kinds at Undeclared
\* (volume_factory.go:209, :227).
MountsHaveVolumes ==
    \A g \in converted : DisksComplete(Ig(g)) =>
        LET t == object(g).template
        IN MountedVolumes(t) \subseteq DeclaredVolumes(t) \cup Undeclared(Ig(g), output(g).bpm)

\* No process of a pod that is deleted stops while a drain script of the pod
\* still runs, unless a probe restarted a container before and left its stamp
\* (the hooks of containers.go).
DrainedBeforeStop ==
    \A p \in DOMAIN pods :
        /\ pods[p].phase = "terminating" /\ ~pods[p].restarted
        /\ \E k \in DOMAIN pods[p].hooks : pods[p].hooks[k] = "draining"
        => \A k \in DOMAIN pods[p].hooks :
               Template(p).containers[k].name # <<"logs">> =>
                   pods[p].hooks[k] # "stopped"

\* The hooks of a pod that is deleted end by themselves: no container waits
\* for a stamp nobody leaves (drainStampCount in containers.go).
DrainEnds ==
    LET Draining == \E p \in DOMAIN pods : pods[p].phase = "terminating"
    IN Draining ~> ~Draining

\* A manifest that fulfils this comes up: every pod of every group is created,
\* passes its wait container and becomes ready, and comes back when deleted.
\* Nobody waits for a service that never is (init_containers.go, wait.go).
EveryGroupStarts ==
    d.deployable =>
        <>[](/\ published
             /\ \A g \in d.qJob[1].containers :
                    /\ g \in converted
                    /\ \A p \in PodIds(g) :
                           p \in DOMAIN pods /\ pods[p].phase \in {"ready", "done"})

-----------------------------------------------------------------------------
(* Why they hold: what the documents promise, which the folds of the       *)
(* manifest and the concatenations of containers have computed, and the    *)
(* inductive invariants that the steps of the pods keep from it.           *)

ObjectOf(docs, g) == docs.applied[g][1].object

Converts(docs) == {g \in DOMAIN docs.output : docs.applied[g] # Nil}

\* Init containers are numbered from 1.
StepsCounted(docs) ==
    \A g \in Converts(docs) :
        LET init == ObjectOf(docs, g).template.init
        IN Len(init) \in Nat /\ DOMAIN init = 1..Len(init)

\* Every hook waits for as many stamps as there are drain scripts, and only
\* the log tailer has no hook.
HooksCounted(docs) ==
    \A g \in Converts(docs) : ObjectOf(docs, g).kind = "QuarksStatefulSet" =>
        LET cs == ObjectOf(docs, g).template.containers
        IN /\ IsFiniteSet(DOMAIN cs)
           /\ \A k \in DOMAIN cs :
                  IF cs[k].preStop = Nil THEN cs[k].name = <<"logs">>
                  ELSE cs[k].preStop[1].stamps = Cardinality(Drainers(cs))

\* The serial groups with ports that stand before a group.
Ahead(docs, g) ==
    {h \in DOMAIN docs.output :
        LET ig == InstanceGroupByName(docs.desired[1], h)[1]
        IN /\ IndexIn(docs.desired[1], h) < IndexIn(docs.desired[1], g)
           /\ Serial(ig) /\ ServicePorts(ig) # {}}

\* The k-th init container of g waits for the service of r, which no other
\* group has, and whatever g has to come after is r or comes before r.
WaitsFor(docs, g, k, r) ==
    /\ k \in DOMAIN ObjectOf(docs, g).template.init
    /\ ObjectOf(docs, g).template.init[k].name = <<"wait-for", ServiceName(r)>>
    /\ \A h \in Converts(docs) : \A s \in docs.applied[h][1].services :
           s.name = ServiceName(r) => h = r
    /\ Ahead(docs, g) \subseteq Ahead(docs, r) \cup {r}

\* The waits form a chain: also a parallel group, or one without ports, waits
\* for the group through which the ones ahead of it are waited for.
WaitsChained(docs) ==
    \A g \in Converts(docs) : Ahead(docs, g) # {} =>
        \E k \in DOMAIN ObjectOf(docs, g).template.init :
            \E r \in DOMAIN docs.output : WaitsFor(docs, g, k, r)

\* What SerialOrder rests on: whatever mix of serial and parallel groups, with
\* and without ports, a manifest has, each group waits for one service, and all
\* that it has to come after is behind that service (calculateRequiredServices in
\* apply_update_block.go, createWaitContainer in init_containers.go).
WaitsForAllAhead == StepsCounted(d) /\ WaitsChained(d)

\* What DrainedBeforeStop rests on: whatever jobs a group has, the number of
\* stamps its hooks wait for is the number of drain scripts that its containers
\* run (drainStampCount and JobsToContainers in containers.go).
HooksCountDrains == HooksCounted(d)

ConvertedApplied == \A g \in converted : d.applied[g] # Nil

\* What a hook does is what its container's template says.
HooksPlanned ==
    \A p \in DOMAIN pods : \A k \in DOMAIN pods[p].hooks :
        LET c == Template(p).containers[k]
        IN /\ object(p[1]).kind = "QuarksStatefulSet"
           /\ pods[p].hooks[k] = "draining" => k \in Drainers(Template(p).containers)
           /\ pods[p].hooks[k] = "waiting" => c.preStop # Nil

RolloutInv == TypeOK /\ ConvertedApplied /\ HooksPlanned

InitDone ==
    \A p \in DOMAIN pods :
        pods[p].phase # "init" => pods[p].step = Len(Template(p).init)

ReadyServes == \A p \in DOMAIN pods : pods[p].phase = "ready" => p[1] \in served

\* A pod that has passed its wait container comes after all that are ahead.
WaitedFor ==
    \A p \in DOMAIN pods : \A k \in 1..pods[p].step : \A r \in Groups :
        WaitsFor(d, p[1], k, r) => Ahead(d, p[1]) \subseteq served

ServedInOrder == \A g \in served : Ahead(d, g) \subseteq served

SerialInv == RolloutInv /\ InitDone /\ ReadyServes /\ WaitedFor /\ ServedInOrder

\* Without a restart the stamps are those of the drain scripts that have ended.
StampsLeft ==
    \A p \in DOMAIN pods : ~pods[p].restarted =>
        IF pods[p].phase = "terminating"
        THEN LET cs == Template(p).containers
             IN pods[p].stamps \subseteq
                    {cs[k].preStop[1].script :
                        k \in {j \in Drainers(cs) : pods[p].hooks[j] # "draining"}}
        ELSE pods[p].stamps = {}

DrainInv == RolloutInv /\ StampsLeft /\ DrainedBeforeStop

\* A group is resolved by a container of the QuarksJob that has written output.
ResolvedWritten == \A g \in resolved : g \in d.qJob[1].containers /\ d.output[g] # Nil

\* What InstanceIdentity and the properties of addresses, links and mounts
\* follow from, since all that pods and links say was computed from one manifest.
DocumentsInv ==
    /\ RolloutInv /\ ResolvedWritten
    /\ \E c \in Deployments : d = Documents(c)
=============================================================================
