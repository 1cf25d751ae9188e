---------------------------- MODULE BPMConverter ----------------------------
(***************************************************************************)
(* From an instance group and its BPM configurations to Kubernetes objects *)
(* (pkg/bosh/bpmconverter): the pod template with its init containers,     *)
(* containers and volumes, the services, and the DNS records that point at *)
(* them (pkg/kube/util/boshdns).                                           *)
(*                                                                         *)
(* Names of volumes are tuples.  A path is <<d>>, the directory d itself,  *)
(* or <<d, rest, listed>>: its string starts with d, and the last part     *)
(* tells whether AdditionalVolumesRegex matches it.  <<"data", x, TRUE>>   *)
(* is /var/vcap/data/x, <<"data", x, FALSE>> is /var/vcap/data-x and       *)
(* <<"sys", x, FALSE>> /var/vcap/sys/log/x; the pattern has no anchor, so  *)
(* <<"opt", x, TRUE>> is /opt/var/vcap/data/x.                             *)
(***************************************************************************)
EXTENDS InstanceGroupResolver

-----------------------------------------------------------------------------
(* Disks: a volume, a mount and a claim, each of which may be missing.     *)

RenderingData == <<"rendering-data">>
JobsDir == <<"jobs-dir">>
SysDir == <<"sys-dir">>
ResolvedProperties == <<"ig-resolved">>
DrainStamps == <<"drain-stamps">>
ephemeralPVCName(ig) == <<Sanitized[ig.name], "ephemeral">>
volumeDataDirName(ig) == ephemeralPVCName(ig)
generatePersistentVolumeClaimName(ig) == <<Sanitized[ig.name], "pvc">>
UnrestrictedVolumeName(job, process, i) == <<"unrestricted", job, process, i>>

Mount(volume, path) == <<[volume |-> volume, path |-> path]>>

Disk(volume, mount, claim, filters) ==
    [volume |-> volume, mount |-> mount, claim |-> claim, filters |-> filters]

Filter(disks, key, value) ==
    SelectAt(disks, {k \in DOMAIN disks : /\ key \in DOMAIN disks[k].filters
                                          /\ disks[k].filters[key] = value})

VolumeMounts(disks) == FlattenSeq([k \in DOMAIN disks |-> disks[k].mount])
Volumes(disks) == UNION {ToSet(disk.volume) : disk \in ToSet(disks)}
PVCs(disks) == UNION {ToSet(disk.claim) : disk \in ToSet(disks)}

\* The mount of the first ephemeral and of the first persistent disk.
BPMMounts(disks) ==
    LET First(key) == LET found == Filter(disks, key, "true")
                      IN IF found = <<>> THEN Nil ELSE found[1].mount
    IN First("ephemeral") \o First("persistent")

GenerateDefaultDisks(ig) ==
    LET data == volumeDataDirName(ig)
        Default(volume, dir) == Disk(<<volume>>, Mount(volume, dir), Nil, EmptyMap)
    IN << Default(RenderingData, <<"all-releases">>),
          Default(JobsDir, <<"jobs">>),
          Disk(<<data>>, Mount(data, <<"data">>),
               IF ig.ephemeralAsPVC THEN <<ephemeralPVCName(ig)>> ELSE Nil,
               EmptyMap),
          Default(SysDir, <<"sys">>),
          Disk(<<ResolvedProperties>>, Nil, Nil, EmptyMap),
          Default(DrainStamps, <<"drain-stamps">>) >>

\* Paths that start with the data, store or sys directory are additional
\* volumes even when they are declared unrestricted; the jobs directory is
\* ignored.
Below(path) == path[1] \in {"data", "store", "sys"} /\ Len(path) > 1
AdditionalVolumes(process) ==
    LET paths == process.unrestricted
    IN process.additional \o SelectAt(paths, {k \in DOMAIN paths : Below(paths[k])})
UnrestrictedVolumes(process) ==
    LET paths == process.unrestricted
    IN SelectAt(paths, {k \in DOMAIN paths : ~Below(paths[k]) /\ paths[k][1] # "jobs"})

\* AdditionalVolumesRegex, anywhere in the string.
additionalVolumeValid(path) == Len(path) > 1 /\ path[3]

\* The name stays empty when the string starts with none of the three.
NoName == <<>>
additionalVolumeName(ig, path) ==
    CASE path[1] = "data" -> volumeDataDirName(ig)
      [] path[1] = "store" -> generatePersistentVolumeClaimName(ig)
      [] path[1] = "sys" -> SysDir
      [] OTHER -> NoName

ProcessDisks(ig, job, process) ==
    LET filters == [job_name |-> job, process_name |-> process.name]
        additional == AdditionalVolumes(process)
        unrestricted == UnrestrictedVolumes(process)
        Unrestricted(i) == UnrestrictedVolumeName(job, process.name, i)
    IN [k \in DOMAIN additional |->
           Disk(Nil, Mount(additionalVolumeName(ig, additional[k]), additional[k]),
                Nil, filters)]
       \o [i \in DOMAIN unrestricted |->
              Disk(<<Unrestricted(i)>>, Mount(Unrestricted(i), unrestricted[i]),
                   Nil, filters)]

\* Faulty variant: the volume of the ephemeral disk has a name of its own.
ownEphemeralDisk(ig, job) ==
    Disk(IF ig.ephemeralAsPVC THEN <<ephemeralPVCName(ig)>> ELSE Nil,
         Mount(<<Sanitized[ig.name], job, "ephemeral">>, <<"data", job, TRUE>>),
         IF ig.ephemeralAsPVC THEN <<ephemeralPVCName(ig)>> ELSE Nil,
         [job_name |-> job, ephemeral |-> "true"])

ephemeralDisk(ig, job) ==
    LET claim == IF ig.ephemeralAsPVC THEN <<ephemeralPVCName(ig)>> ELSE Nil
    IN Disk(claim, Mount(volumeDataDirName(ig), <<"data", job, TRUE>>), claim,
            [job_name |-> job, ephemeral |-> "true"])

persistentDisk(ig, job) ==
    LET claim == generatePersistentVolumeClaimName(ig)
    IN Disk(<<claim>>, Mount(claim, <<"store", job, TRUE>>), <<claim>>,
            [job_name |-> job, persistent |-> "true"])

\* The disks of one job, or a failure: a path outside the known directories,
\* or a persistent disk the instance group does not declare.
JobDisks(ig, job, config) ==
    LET processes == config.processes
        Wants(field) == \E k \in DOMAIN processes : processes[k][field] = <<TRUE>>
        Valid(k) == \A p \in ToSet(AdditionalVolumes(processes[k])) :
                        additionalVolumeValid(p)
    IN [failed |-> \/ \E k \in DOMAIN processes : ~Valid(k)
                   \/ Wants("persistentDisk") /\ ig.persistentDisk <= 0,
        disks |-> FlattenSeq([k \in DOMAIN processes |->
                                 ProcessDisks(ig, job, processes[k])])
                  \o (IF Wants("ephemeralDisk") THEN <<ephemeralDisk(ig, job)>>
                      ELSE <<>>)
                  \o (IF Wants("persistentDisk") THEN <<persistentDisk(ig, job)>>
                      ELSE <<>>)]

GenerateBPMDisks(ig, bpm) ==
    LET jobs == [k \in DOMAIN ig.jobs |->
                    JobDisks(ig, ig.jobs[k].name, bpm[ig.jobs[k].name])]
    IN [failed |-> \E k \in DOMAIN jobs : jobs[k].failed,
        disks |-> FlattenSeq([k \in DOMAIN jobs |-> jobs[k].disks])]

\* The first mount of a path is kept.
deduplicateVolumeMounts(mounts) ==
    LET First(k) == \A l \in 1..(k - 1) : mounts[l].path # mounts[k].path
    IN {mounts[k] : k \in {l \in DOMAIN mounts : First(l)}}

proccessVolumentMounts(defaults, disks, job, process) ==
    LET jobDisks == Filter(disks, "job_name", job)
    IN deduplicateVolumeMounts(
           defaults \o VolumeMounts(Filter(jobDisks, "process_name", process))
                    \o BPMMounts(jobDisks))

-----------------------------------------------------------------------------
(* Init containers.                                                        *)

InitContainer(name, mounts) == [name |-> name, mounts |-> mounts]

JobSpecCopierContainer(release) ==
    InitContainer(<<"spec-copier", release>>, ToSet(Mount(RenderingData, <<"all-releases">>)))

containerRunCopier ==
    InitContainer(<<"container-run-copier">>,
                  ToSet(Mount(RenderingData, <<"all-releases">>)))

templateRenderingContainer(initialRollout) ==
    InitContainer(<<"template-render", initialRollout>>,
                  ToSet(Mount(RenderingData, <<"all-releases">>)
                        \o Mount(JobsDir, <<"jobs">>)
                        \o Mount(ResolvedProperties, <<"resolved">>)))

createDirContainer(ig) ==
    InitContainer(<<"create-dirs">>, ToSet(Mount(volumeDataDirName(ig), <<"data">>)
                                           \o Mount(SysDir, <<"sys">>)))

createWaitContainer(required) ==
    IF required = Nil THEN <<>> ELSE <<InitContainer(<<"wait-for", required>>, {})>>

boshPreStartInitContainer(job, mounts) ==
    InitContainer(<<"bosh-pre-start", job>>, deduplicateVolumeMounts(mounts))

bpmPreStartInitContainer(process, mounts) ==
    InitContainer(<<"bpm-pre-start", process>>, mounts)

DefaultMounts(ig) == VolumeMounts(GenerateDefaultDisks(ig))

\* One copier for each release, at its first job.
specCopiers(jobs) ==
    LET First(k) == \A l \in 1..(k - 1) : jobs[l].release # jobs[k].release
    IN FlattenSeq([k \in DOMAIN jobs |->
           IF First(k) THEN <<JobSpecCopierContainer(jobs[k].release)>> ELSE <<>>])

boshPreStarts(ig, disks) ==
    [k \in DOMAIN ig.jobs |->
        boshPreStartInitContainer(ig.jobs[k].name, DefaultMounts(ig) \o VolumeMounts(disks))]

\* The processes of a job that have a pre-start hook.
Hooked(processes) ==
    SelectAt(processes, {k \in DOMAIN processes : processes[k].preStart # Nil})

bpmPreStarts(ig, processes, disks, job) ==
    [k \in DOMAIN Hooked(processes) |->
        bpmPreStartInitContainer(Hooked(processes)[k].name,
            proccessVolumentMounts(DefaultMounts(ig), disks, job,
                                   Hooked(processes)[k].name))]

\* Copy the sources, render, create directories, wait for the required
\* service, and only then run the pre-start scripts.
JobsToInitContainers(ig, bpm, disks, version) ==
    (IF IsErrand(ig) THEN <<>> ELSE <<containerRunCopier>>)
    \o specCopiers(ig.jobs)
    \o <<templateRenderingContainer(version = 1), createDirContainer(ig)>>
    \o createWaitContainer(ig.required)
    \o boshPreStarts(ig, disks)
    \o FlattenSeq([k \in DOMAIN ig.jobs |->
           bpmPreStarts(ig, bpm[ig.jobs[k].name].processes, disks, ig.jobs[k].name)])

-----------------------------------------------------------------------------
(* Containers: one for each BPM process.                                   *)

\* Overridden by the manifest's variables; the pod's own come last.
NewEnvs(process, overrides) == overrides @@ process.env
defaultEnv(envs) ==
    envs @@ [v \in {"POD_ORDINAL", "REPLICAS", "AZ_INDEX"} |-> "from-pod"]

\* The pre-stop hook: run the job's drain script, or only wait for the others.
newDrainScript(job, stamps) == [script |-> <<job>>, stamps |-> stamps]
newDrainWait(stamps) == [script |-> Nil, stamps |-> stamps]

bpmProcessContainer(job, process, mounts, preStop) ==
    [name |-> <<job.name, process.name>>, mounts |-> mounts,
     env |-> defaultEnv(NewEnvs(process, job.envs)), preStop |-> preStop]

logsTailerContainer ==
    [name |-> <<"logs">>, mounts |-> ToSet(Mount(SysDir, <<"sys">>)),
     env |-> EmptyMap, preStop |-> Nil]

\* Faulty variant: jobs without a process are expected to leave a stamp.
stampOfEveryJob(ig, bpm) == Len(ig.jobs)

\* That many drain stamps have to appear.
drainStampCount(ig, bpm) ==
    Cardinality({k \in DOMAIN ig.jobs : bpm[ig.jobs[k].name].processes # <<>>})

\* The first container of a job runs its drain script, the other ones wait;
\* errands have no hooks.
PreStop(ig, job, k, stamps) ==
    IF IsErrand(ig) THEN Nil
    ELSE IF k = 1 THEN <<newDrainScript(job, stamps)>> ELSE <<newDrainWait(stamps)>>

ContainersOf(ig, job, processes, disks, stamps) ==
    [k \in DOMAIN processes |->
        bpmProcessContainer(job, processes[k],
            proccessVolumentMounts(DefaultMounts(ig), disks, job.name,
                                   processes[k].name),
            PreStop(ig, job.name, k, stamps))]

JobsToContainers(ig, bpm, disks) ==
    FlattenSeq([k \in DOMAIN ig.jobs |->
        ContainersOf(ig, ig.jobs[k], bpm[ig.jobs[k].name].processes, disks,
                     drainStampCount(ig, bpm))])
    \o (IF ig.disableLogSidecar THEN <<>> ELSE <<logsTailerContainer>>)

-----------------------------------------------------------------------------
(* Services.  A selector of Nil leaves that label out.                     *)

ServicesPorts(bpm) == \E job \in DOMAIN bpm : bpm[job].ports
IsActivePassiveModel(bpm) == \E job \in DOMAIN bpm : bpm[job].activePassive

Service(name, az, ordinal, active) ==
    [name |-> name, az |-> az, ordinal |-> ordinal, active |-> active]

\* Faulty variant: the zones of the names are counted from 1.
generateServicesFromOne(ig, azIndex, active) ==
    {Service(IndexedServiceName(ig, i, IF azIndex = -1 THEN -1 ELSE azIndex + 1),
             <<IF azIndex = -1 THEN 0 ELSE azIndex>>, <<i>>, active)
     : i \in 0..(ig.instances - 1)}

generateServices(ig, azIndex, active) ==
    {Service(IndexedServiceName(ig, i, azIndex),
             <<IF azIndex = -1 THEN 0 ELSE azIndex>>, <<i>>, active)
     : i \in 0..(ig.instances - 1)}

\* The zones in the names of a group's services.
NamedZones(ig) == IF ig.azs > 0 THEN 0..(ig.azs - 1) ELSE {-1}

\* One for each instance and the headless one; none without ports.
service(ig, bpm) ==
    LET active == IsActivePassiveModel(bpm)
    IN IF ~ServicesPorts(bpm) THEN {}
       ELSE (UNION {generateServices(ig, az, active) : az \in NamedZones(ig)})
            \cup {Service(ServiceName(ig.name), Nil, Nil, active)}

-----------------------------------------------------------------------------
(* BOSH DNS.                                                               *)

IsDNSJob(job) == job.release \in {BoshDNSAddOnName, BOSHDNSAliasesAddOnName}

HasBoshDNSAddOn(m) ==
    \E a \in DOMAIN m.addons : \E k \in DOMAIN m.addons[a].jobs :
        IsDNSJob(m.addons[a].jobs[k])

\* The pods need the address of the DNS service if there is one.
DNSSetting(m, ig, serviceIP) ==
    CASE ig.dns # "" -> ig.dns
      [] ig.dns = "" /\ HasBoshDNSAddOn(m) ->
             IF serviceIP = "" THEN Error ELSE serviceIP
      [] OTHER -> "cluster"

gatherRewritesForInstances(ig, domain, azIndex) ==
    {[from |-> <<domain, ig.name, azIndex, i>>, to |-> IndexedServiceName(ig, i, azIndex)]
     : i \in 0..(ig.instances - 1)}

gatherAllRewrites(ig, target, domain) ==
    IF target.query # "_" THEN {[from |-> <<domain>>, to |-> ServiceName(ig.name)]}
    ELSE UNION {gatherRewritesForInstances(ig, domain, az) : az \in NamedZones(ig)}

\* The target may be any service; it has no indexes.
gatherSimpleRewrites(target, domain) ==
    IF target.query = "_" THEN {}
    ELSE {[from |-> <<domain>>, to |-> <<target.group>>]}

\* All jobs of an addon with a DNS job count.
Aliases(m) ==
    LET addons == {a \in DOMAIN m.addons : \E k \in DOMAIN m.addons[a].jobs :
                       IsDNSJob(m.addons[a].jobs[k])}
    IN UNION {UNION {m.addons[a].jobs[k].aliases : k \in DOMAIN m.addons[a].jobs}
              : a \in addons}

\* The records of the Corefile for an alias.
Rewrites(m, alias) ==
    LET ig == InstanceGroupByName(m, alias.target.group)
    IN IF ig = Nil THEN gatherSimpleRewrites(alias.target, alias.domain)
       ELSE gatherAllRewrites(ig[1], alias.target, alias.domain)

-----------------------------------------------------------------------------
(* All together.                                                           *)

Malformed == <<0, 0, 0>>

\* A number, or the end of a range.
ExtractWatchTime(time) ==
    CASE time = Nil -> Nil
      [] Len(time) \in {1, 2} -> <<Last(time)>>
      [] OTHER -> Malformed

computeAnnotations(ig) ==
    IF ig.update = Nil THEN [canary |-> Nil, watch |-> Nil]
    ELSE [canary |-> ExtractWatchTime(ig.update[1].canary),
          watch |-> ExtractWatchTime(ig.update[1].watch)]

PodTemplate(m, ig, bpm, disks, version, serviceIP) ==
    LET all == GenerateDefaultDisks(ig) \o disks
    IN [init |-> JobsToInitContainers(ig, bpm, disks, version),
        containers |-> JobsToContainers(ig, bpm, disks),
        volumes |-> Volumes(all), claims |-> PVCs(all),
        dns |-> DNSSetting(m, ig, serviceIP)]

\* A StatefulSet for each zone, governed by the headless service.
quarksStatefulset(ig, template) ==
    [kind |-> "QuarksStatefulSet", zones |-> ig.azs, replicas |-> ig.instances,
     inject |-> ig.injectReplicas, annotations |-> computeAnnotations(ig),
     template |-> template]

quarksJob(ig, template) ==
    [kind |-> "QuarksJob",
     trigger |-> IF ig.lifecycle = "auto-errand" THEN "once" ELSE "manual",
     template |-> template]

Convertible(m, ig, bpm, serviceIP) ==
    /\ ig.jobs # <<>>
    /\ \A k \in DOMAIN ig.jobs : /\ ig.jobs[k].name \in DOMAIN bpm
                                 /\ GetReleaseImage(m, ig.name, ig.jobs[k].name) # <<Error>>
    /\ ~GenerateBPMDisks(ig, bpm).failed
    /\ DNSSetting(m, ig, serviceIP) # Error
    /\ IsErrand(ig) \/ Malformed \notin Range(computeAnnotations(ig))

Objects(ig, bpm, template) ==
    IF IsErrand(ig) THEN [object |-> quarksJob(ig, template), services |-> {}]
    ELSE [object |-> quarksStatefulset(ig, template), services |-> service(ig, bpm)]

\* Nil if the group cannot be converted.
Resources(m, ig, bpm, version, serviceIP) ==
    IF ~Convertible(m, ig, bpm, serviceIP) THEN Nil
    ELSE <<Objects(ig, bpm,
                   PodTemplate(m, ig, bpm, GenerateBPMDisks(ig, bpm).disks \o ig.disks,
                               version, serviceIP))>>
=============================================================================
