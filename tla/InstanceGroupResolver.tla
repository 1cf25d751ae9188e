----------------------- MODULE InstanceGroupResolver -----------------------
(***************************************************************************)
(* The command of the instance group QuarksJob (cmd/internal/              *)
(* instance_group.go): it reads the desired manifest and the job specs of  *)
(* the releases, connects link consumers with their providers, renders the *)
(* BPM configuration of the jobs and writes the instance group's manifest, *)
(* its BPM information and the links it provides.  The template renderer   *)
(* of the instance group's pods (cmd/internal/trender.go) is here as well. *)
(*                                                                         *)
(* A resolver is a record [m, group, specs, links, provided, failed]; specs*)
(* are the releases whose job specs are in the base directory.             *)
(***************************************************************************)
EXTENDS BOSHManifest

CONSTANT
    Specs \* the job spec (job.MF) of every <<release, job>>

EmptyMap == <<>>

JobLink(group, address, instances, properties) ==
    [group |-> group, address |-> address, instances |-> instances,
     properties |-> properties]

EmptyLink == JobLink("", Nil, <<>>, EmptyMap)

NewInstanceGroupResolver(m, group, specs) ==
    [m |-> m, group |-> group, specs |-> specs, links |-> EmptyMap,
     provided |-> EmptyMap, failed |-> InstanceGroupByName(m, group) = Nil]

Group(r) == InstanceGroupByName(r.m, r.group)[1]

-----------------------------------------------------------------------------
(* The QuarksJob: a container for every instance group that has instances, *)
(* and a copy of the specs of every release these groups use.              *)

Running(m) == {i \in DOMAIN m.groups : m.groups[i].instances # 0}

\* The image of the first job of a release stands for the release.
releaseImageQJob(m) ==
    LET jobs == UNION {{<<i, k>> : k \in DOMAIN m.groups[i].jobs}
                       : i \in Running(m)}
        Release(j) == m.groups[j[1]].jobs[j[2]].release
        Earlier(j) == {l \in jobs : \/ l[1] < j[1]
                                    \/ l[1] = j[1] /\ l[2] < j[2]}
        firsts == {j \in jobs : \A l \in Earlier(j) : Release(l) # Release(j)}
        Image(j) == GetReleaseImage(m, m.groups[j[1]].name,
                                    m.groups[j[1]].jobs[j[2]].name)
    IN [specs |-> {Release(j) : j \in firsts},
        failed |-> \E j \in firsts : Image(j) = <<Error>>]

InstanceGroupManifestJob(m) ==
    LET qJob == releaseImageQJob(m)
    IN IF qJob.failed THEN Nil
       ELSE <<[containers |-> {m.groups[i].name : i \in Running(m)},
               specs |-> qJob.specs]>>

-----------------------------------------------------------------------------
(* Providers.                                                              *)

\* The links of native providers come first, one directory for each name.
CollectQuarksLinks(r, dirs) ==
    LET keys == {<<r.m.links[n].type, n>> : n \in dirs \cap DOMAIN r.m.links}
        External(k) == LET l == r.m.links[k[2]]
                       IN JobLink("", l.address, l.instances, l.properties)
    IN IF r.failed \/ ~(dirs \subseteq DOMAIN r.m.links)
       THEN [r EXCEPT !.failed = TRUE]
       ELSE [r EXCEPT !.links = [k \in keys \cup DOMAIN @ |->
                                    IF k \in keys THEN External(k) ELSE @[k]]]

\* A map with the value entered under the key.
With(map, key, value) ==
    [k \in DOMAIN map \cup {key} |-> IF k = key THEN value ELSE map[k]]

\* The manifest's value of a property, else the default of the spec.
LinkProperties(job, spec, provider) ==
    [p \in provider.properties |->
        IF p \in DOMAIN job.properties THEN job.properties[p]
        ELSE IF p \in DOMAIN spec.defaults THEN spec.defaults[p] ELSE ""]

LinkName(job, provider) ==
    IF provider.name \in DOMAIN job.provides THEN job.provides[provider.name]
    ELSE provider.name

\* Faulty variant: a second provider of a link replaces the first.
addOverwrites(r, ig, job, provider, instances) ==
    LET key == <<provider.type, LinkName(job, provider)>>
        link == JobLink(ig.name, ServiceName(ig.name), instances,
                        LinkProperties(job, Specs[<<job.release, job.name>>],
                                       provider))
    IN IF r.failed \/ key[2] = "nil" THEN r
       ELSE [r EXCEPT !.links = (key :> link) @@ @]

\* One provided link of a job: blocked, refused, or entered under its type
\* and name.  The second provider of a link is an error unless an addon
\* brought it.
add(r, ig, job, provider, instances) ==
    LET key == <<provider.type, LinkName(job, provider)>>
        link == JobLink(ig.name, ServiceName(ig.name), instances,
                        LinkProperties(job, Specs[<<job.release, job.name>>],
                                       provider))
    IN CASE r.failed \/ key[2] = "nil" -> r
         [] ~r.failed /\ key[2] = Error -> [r EXCEPT !.failed = TRUE]
         [] ~r.failed /\ key[2] \notin {"nil", Error} /\ key \in DOMAIN r.links ->
                [r EXCEPT !.failed = ~job.isAddon]
         [] OTHER ->
                [r EXCEPT !.links = With(@, key, link),
                          !.provided = IF ig.name # r.group THEN @
                                       ELSE With(@, key, link.properties)]

\* The links a job of a group provides, and those of all jobs of all groups, in
\* their order.
ProvidedBy(ig, job) ==
    LET provides == Specs[<<job.release, job.name>>].provides
    IN [p \in DOMAIN provides |-> [ig |-> ig, job |-> job, provider |-> provides[p]]]

AllProvided(m) ==
    FlattenSeq([i \in DOMAIN m.groups |->
        FlattenSeq([k \in DOMAIN m.groups[i].jobs |->
            ProvidedBy(m.groups[i], m.groups[i].jobs[k])])])

SpecsLoaded(r) ==
    \A i \in DOMAIN r.m.groups : \A k \in DOMAIN r.m.groups[i].jobs :
        r.m.groups[i].jobs[k].release \in r.specs

AddAll(r, provided, initialRollout) ==
    LET added[n \in 0..Len(provided)] ==
            IF n = 0 THEN r
            ELSE add(added[n - 1], provided[n].ig, provided[n].job,
                     provided[n].provider,
                     newJobInstances(provided[n].ig, initialRollout))
    IN added[Len(provided)]

\* Every job's spec has to be there.
collectReleaseSpecsAndProviderLinks(r, initialRollout) ==
    IF SpecsLoaded(r) THEN AddAll(r, AllProvided(r.m), initialRollout)
    ELSE [r EXCEPT !.failed = TRUE]

-----------------------------------------------------------------------------
(* Consumers.                                                              *)

getProviderNameFromConsumer(job, name) ==
    IF name \in DOMAIN job.consumes /\ job.consumes[name] \notin {"", "nil"}
    THEN job.consumes[name] ELSE name

lookup(r, provider) ==
    LET key == <<provider.type, provider.name>>
    IN IF key \in DOMAIN r.links THEN <<r.links[key]>> ELSE Nil

LinkOrEmpty(link) == IF link = Nil THEN EmptyLink ELSE link[1]

\* The link is looked up under the name of the job spec and stored under
\* the name of the manifest's "from" key; a later link replaces an earlier one.
generateJobConsumersData(r, job) ==
    LET consumes == Specs[<<job.release, job.name>>].consumes
        Name(c) == getProviderNameFromConsumer(job, consumes[c].name)
        LastOf(name) == Max({c \in DOMAIN consumes : Name(c) = name})
    IN [failed |-> \E c \in DOMAIN consumes :
                       lookup(r, consumes[c]) = Nil /\ ~consumes[c].optional,
        links |-> [name \in {Name(c) : c \in DOMAIN consumes} |->
                      LinkOrEmpty(lookup(r, consumes[LastOf(name)]))]]

\* The manifest's group is changed in place, as the code does.
UpdateJobs(r, jobs) ==
    [r EXCEPT !.m.groups = [i \in DOMAIN @ |->
        IF @[i].name = r.group THEN [@[i] EXCEPT !.jobs = jobs] ELSE @[i]]]

StoreLinks(r, jobs, data) ==
    IF \E k \in DOMAIN jobs : data[k].failed THEN [r EXCEPT !.failed = TRUE]
    ELSE UpdateJobs(r, [k \in DOMAIN jobs |->
                           [jobs[k] EXCEPT !.links = data[k].links]])

processConsumers(r) ==
    IF r.failed THEN r
    ELSE StoreLinks(r, Group(r).jobs,
                    [k \in DOMAIN Group(r).jobs |->
                        generateJobConsumersData(r, Group(r).jobs[k])])

-----------------------------------------------------------------------------
(* BPM.  A process's fields are sequences, empty if the process leaves them*)
(* out, and its environment is a function.                                 *)

\* External: the rendered bpm.yml, which may differ between instances.
ERBRender(spec, instance) ==
    IF spec.bootstrapOnly /\ ~instance.bootstrap THEN <<>> ELSE spec.processes

MergeProcess(rendered, preset) ==
    [f \in DOMAIN rendered |->
        CASE f = "name" -> rendered.name
          [] f = "env" -> preset.env @@ rendered.env
          [] OTHER -> IF preset[f] = Nil THEN rendered[f] ELSE preset[f]]

AddPreset(processes, preset) ==
    LET found == {k \in DOMAIN processes : processes[k].name = preset.name}
    IN IF found = {} THEN Append(processes, preset)
       ELSE [processes EXCEPT ![Min(found)] = MergeProcess(@, preset)]

MergeProcesses(rendered, presets) ==
    LET merged[n \in 0..Len(presets)] ==
            IF n = 0 THEN rendered ELSE AddPreset(merged[n - 1], presets[n])
    IN merged[Len(presets)]

UpdateEnv(process, overrides) == [process EXCEPT !.env = overrides @@ @]

ValidateProcesses(config) ==
    \A k \in DOMAIN config.processes : config.processes[k].executable # Nil

\* The jobs' specs name a template or the manifest holds the BPM.
findBPMTemplate(job) ==
    Specs[<<job.release, job.name>>].template \/ job.bpm # Nil

Presets(job) == IF job.bpm = Nil THEN <<>> ELSE job.bpm[1].processes

BPMConfig(job, processes) ==
    [processes |-> [k \in DOMAIN processes |-> UpdateEnv(processes[k], job.envs)],
     ports |-> job.ports, activePassive |-> job.activePassive,
     unsupported |-> FALSE]

\* The BPM of one instance.
RenderInstance(job, instance) ==
    LET spec == Specs[<<job.release, job.name>>]
    IN BPMConfig(job, MergeProcesses(IF spec.template THEN ERBRender(spec, instance)
                                     ELSE <<>>, Presets(job)))

\* The first instance's BPM stands for all.
FirstConfig(configs) ==
    <<[configs[1] EXCEPT !.unsupported =
           \E k \in DOMAIN configs : configs[k] # configs[1]]>>

renderJobBPM(job, instances) ==
    IF instances = <<>> THEN job.bpm
    ELSE FirstConfig([k \in DOMAIN instances |-> RenderInstance(job, instances[k])])

StoreBPM(r, jobs, bpms) ==
    IF \A k \in DOMAIN jobs : /\ findBPMTemplate(jobs[k])
                              /\ bpms[k] # Nil => ValidateProcesses(bpms[k][1])
    THEN UpdateJobs(r, [k \in DOMAIN jobs |-> [jobs[k] EXCEPT !.bpm = bpms[k]]])
    ELSE [r EXCEPT !.failed = TRUE]

renderBPM(r, initialRollout) ==
    IF r.failed THEN r
    ELSE StoreBPM(r, Group(r).jobs,
                  [k \in DOMAIN Group(r).jobs |->
                      renderJobBPM(Group(r).jobs[k],
                                   newJobInstances(Group(r), initialRollout))])

-----------------------------------------------------------------------------
\* A step of Resolve does nothing once one has failed.
Resolve(r, initialRollout) ==
    renderBPM(processConsumers(collectReleaseSpecsAndProviderLinks(r, initialRollout)),
              initialRollout)

\* The configurations by name of the job; a job without one is an error.
BPMInfo(ig) ==
    [name \in {ig.jobs[k].name : k \in DOMAIN ig.jobs} |->
        ig.jobs[Max({k \in DOMAIN ig.jobs : ig.jobs[k].name = name})].bpm[1]]

\* Only the name, the zones and the jobs with their links; no instances.
IGManifest(ig) ==
    [name |-> ig.name, azs |-> ig.azs,
     jobs |-> [k \in DOMAIN ig.jobs |->
                  [name |-> ig.jobs[k].name, release |-> ig.jobs[k].release,
                   links |-> ig.jobs[k].links]]]

\* What is written: nothing if a step has failed.  The pre-render operations of
\* a group are left out, as operations on documents are in general.
Written(r) ==
    IF r.failed \/ \E k \in DOMAIN Group(r).jobs : Group(r).jobs[k].bpm = Nil
    THEN Nil
    ELSE <<[manifest |-> IGManifest(Group(r)), bpm |-> BPMInfo(Group(r)),
            provides |-> r.provided]>>

InstanceGroupCmd(m, group, specs, dirs, initialRollout) ==
    Written(Resolve(CollectQuarksLinks(NewInstanceGroupResolver(m, group, specs), dirs),
                    initialRollout))

-----------------------------------------------------------------------------
(* util template-render, in every pod of the group.                        *)

\* An index of 0 or 1 does without zones.
validateAZ(azs, azIndex) ==
    IF azs = 0 THEN azIndex \in {0, 1} ELSE azIndex \in 1..azs

\* The instance the pod renders its templates for.  The pod was told the
\* number of replicas, or -1; the number is raised to hold the pod itself.
RenderJobTemplates(ig, azIndex, ordinal, replicas, initialRollout) ==
    LET told == IF replicas < 0 THEN 1 ELSE replicas
        instances == IF ordinal + 1 > told THEN ordinal + 1 ELSE told
        group == [name |-> ig.name, azs |-> ig.azs, instances |-> instances]
        zone == IF ig.azs = 0 /\ azIndex = 1 THEN 0 ELSE azIndex
    IN IF ~validateAZ(ig.azs, azIndex) THEN Nil
       ELSE jobInstance(group, newJobInstances(group, initialRollout),
                        SpecIndex(zone, ordinal))
=============================================================================
