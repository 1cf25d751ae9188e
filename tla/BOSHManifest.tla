---------------------------- MODULE BOSHManifest ----------------------------
(***************************************************************************)
(* The BOSH deployment manifest and what the operator computes from it     *)
(* (pkg/bosh/manifest): which addons go where, which service an instance   *)
(* group waits for, which image runs a job, and which instances a group    *)
(* has.                                                                    *)
(*                                                                         *)
(* A manifest is a record [groups, addons, releases, stemcells, update,    *)
(* links, addonsApplied, failed].  A pointer of the code that may be nil   *)
(* is a sequence of at most one element.  What a job says of a link it     *)
(* provides is the name of its "as" key, "nil" for a blocked link or Error *)
(* for any other string.                                                   *)
(***************************************************************************)
EXTENDS Integers, Sequences, FiniteSets, SequencesExt

CONSTANTS
    Sanitized,       \* names.Sanitize on the names of the instance groups
    Indexed(_, _, _) \* the truncated name of a group, a zone or -1, and a number,
                     \* written as one string: "%s-z%d-%d" or "%s-%d"

Nil == <<>>
Error == "error"
BoshDNSAddOnName == "bosh-dns"
BOSHDNSAliasesAddOnName == "bosh-dns-aliases"

Failed(m) == [m EXCEPT !.failed = TRUE]

\* The elements of s at the positions in I, in their order.
SelectAt(s, I) == FlattenSeq([k \in DOMAIN s |-> IF k \in I THEN <<s[k]>> ELSE <<>>])

\* The first of these elements, Nil if there is none.
FirstAt(s, I) == IF I = {} THEN Nil ELSE <<s[Min(I)]>>

\* The first element of s with the given name, Nil if there is none.
FirstNamed(s, name) == FirstAt(s, {k \in DOMAIN s : s[k].name = name})

InstanceGroupByName(m, name) == FirstNamed(m.groups, name)

IsErrand(ig) == ig.lifecycle \in {"errand", "auto-errand"}

ServicePorts(ig) == {k \in DOMAIN ig.jobs : ig.jobs[k].ports}

ServiceName(name) == <<Sanitized[name]>>

IndexedServiceName(ig, index, azIndex) == <<Indexed(ig.name, azIndex, index)>>

-----------------------------------------------------------------------------
(* Images: a release brings its stemcell or takes the instance group's.    *)

JobOf(ig, jobName) == IF ig = Nil THEN Nil ELSE FirstNamed(ig[1].jobs, jobName)

ReleaseOf(m, job) ==
    IF job = Nil THEN Nil ELSE FirstNamed(m.releases, job[1].release)

StemcellsOf(m, ig) ==
    IF ig = Nil THEN Nil
    ELSE SelectSeq(m.stemcells, LAMBDA s : s.alias = ig[1].stemcell)

\* The loop over the stemcells has no break: the last alias wins.
ReleaseOS(release, stemcells) ==
    CASE release = Nil -> Error
      [] release # Nil /\ release[1].os # "" -> release[1].os
      [] release # Nil /\ release[1].os = "" /\ stemcells # <<>> ->
             Last(stemcells).os
      [] OTHER -> Error

GetJobOS(m, igName, jobName) ==
    ReleaseOS(ReleaseOf(m, JobOf(InstanceGroupByName(m, igName), jobName)),
              StemcellsOf(m, InstanceGroupByName(m, igName)))

ReleaseImage(job, os) == IF os = Error THEN <<Error>> ELSE <<job[1].release, os>>

GetReleaseImage(m, igName, jobName) ==
    ReleaseImage(JobOf(InstanceGroupByName(m, igName), jobName),
                 GetJobOS(m, igName, jobName))

-----------------------------------------------------------------------------
(* Addons.                                                                 *)

osMatch(osList, rules) ==
    CASE rules = Nil -> "no"
      [] rules # Nil /\ Error \in osList -> Error
      [] rules # Nil /\ Error \notin osList ->
             IF rules[1].stemcells \cap osList # {} THEN "yes" ELSE "no"

stemcellMatch(m, ig, rules) ==
    osMatch({GetJobOS(m, ig.name, ig.jobs[k].name) : k \in DOMAIN ig.jobs}, rules)

jobMatch(ig, rules) ==
    \E k \in DOMAIN ig.jobs :
        rules # Nil /\ <<ig.jobs[k].release, ig.jobs[k].name>> \in rules[1].jobs

instanceGroupMatch(ig, rules) == rules # Nil /\ ig.name \in rules[1].groups

lifecycleMatch(ig, rules) ==
    LET lifecycle == IF rules = Nil THEN "" ELSE rules[1].lifecycle
    IN IF IsErrand(ig) THEN lifecycle = "errand" ELSE lifecycle \in {"", "service"}

EitherMatch(stemcell, other) ==
    CASE stemcell = Error -> Error
      [] stemcell # Error /\ (stemcell = "yes" \/ other) -> "yes"
      [] OTHER -> "no"

\* The lifecycle has to match; then one matching rule is enough.
addOnPlacementMatch(m, ig, rules) ==
    IF ~lifecycleMatch(ig, rules) THEN "no"
    ELSE EitherMatch(stemcellMatch(m, ig, rules),
                     jobMatch(ig, rules) \/ instanceGroupMatch(ig, rules))

AddJobs(m, i, jobs, include, exclude) ==
    CASE m.failed -> m
      [] ~m.failed /\ Error \in {include, exclude} -> Failed(m)
      [] ~m.failed /\ include = "yes" /\ exclude = "no" ->
             [m EXCEPT !.groups[i].jobs = @ \o
                 [k \in DOMAIN jobs |-> [jobs[k] EXCEPT !.isAddon = TRUE]]]
      [] OTHER -> m

\* One addon and the i-th instance group.
PlaceAddon(m, addon, i) ==
    AddJobs(m, i, addon.jobs, addOnPlacementMatch(m, m.groups[i], addon.include),
            addOnPlacementMatch(m, m.groups[i], addon.exclude))

MarkApplied(m) == [m EXCEPT !.addonsApplied = ~m.failed]

\* One addon and all instance groups, in their order.
PlaceInGroups(m, addon) ==
    LET placed[i \in 0..Len(m.groups)] ==
            IF i = 0 THEN m ELSE PlaceAddon(placed[i - 1], addon, i)
    IN IF addon.name = BoshDNSAddOnName THEN m ELSE placed[Len(m.groups)]

ApplyAddons(m) ==
    LET placed[a \in 0..Len(m.addons)] ==
            IF a = 0 THEN m ELSE PlaceInGroups(placed[a - 1], m.addons[a])
    IN IF m.addonsApplied THEN m ELSE MarkApplied(placed[Len(m.addons)])

-----------------------------------------------------------------------------
(* The update blocks and the service an instance group waits for.          *)

\* A watch time is <<time>> or <<first, last>>; the serial flag is <<flag>>.
UpdateFields == {"canary", "watch", "serial"}

\* A group's own block keeps its fields and takes the missing ones from the
\* manifest's block, which is dereferenced without a check.
PropagateGlobalUpdateBlockToIGs(m) ==
    LET Panics(ig) == /\ ig.update # Nil /\ m.update = Nil
                      /\ \E f \in UpdateFields : ig.update[1][f] = Nil
        Merged(ig) ==
            IF ig.update = Nil THEN m.update
            ELSE <<[f \in UpdateFields |-> IF ig.update[1][f] = Nil
                                           THEN m.update[1][f]
                                           ELSE ig.update[1][f]]>>
    IN IF \E i \in DOMAIN m.groups : Panics(m.groups[i]) THEN Failed(m)
       ELSE [m EXCEPT !.groups = [i \in DOMAIN m.groups |->
                IF m.groups[i].update # Nil /\ m.update = Nil THEN m.groups[i]
                ELSE [m.groups[i] EXCEPT !.update = Merged(m.groups[i])]]]

Serial(ig) == ig.update = Nil \/ ig.update[1].serial # <<FALSE>>

\* Faulty variant: a group without ports resets the dependency.
RequiredIsPredecessor(m) ==
    LET Step(acc, ig) ==
            [groups |-> Append(acc.groups, [ig EXCEPT !.required = acc.service]),
             service |-> IF ServicePorts(ig) = {} THEN Nil
                         ELSE ServiceName(ig.name)]
    IN [m EXCEPT !.groups =
            FoldLeft(Step, [groups |-> <<>>, service |-> Nil], m.groups).groups]

\* Faulty variant: a group's own service is taken up before the group reads it.
RequiredIsOwnService(m) ==
    LET Step(acc, ig) ==
            LET service == IF ServicePorts(ig) = {} THEN acc.service
                           ELSE ServiceName(ig.name)
            IN [groups |-> Append(acc.groups, [ig EXCEPT !.required = service]),
                service |-> service]
    IN [m EXCEPT !.groups =
            FoldLeft(Step, [groups |-> <<>>, service |-> Nil], m.groups).groups]

\* The two variables of the loop after a group: the service a serial group has
\* to wait for and the one a parallel group has to wait for.
PassGroup(ig, before) ==
    LET service == IF ServicePorts(ig) = {} THEN before.service
                   ELSE ServiceName(ig.name)
    IN [service |-> service,
        lastUsed |-> IF Serial(ig) THEN service ELSE before.lastUsed]

RequiredService(ig, before) ==
    IF Serial(ig) THEN before.service ELSE before.lastUsed

calculateRequiredServices(m) ==
    LET after[i \in 0..Len(m.groups)] ==
            IF i = 0 THEN [service |-> Nil, lastUsed |-> Nil]
            ELSE PassGroup(m.groups[i], after[i - 1])
    IN [m EXCEPT !.groups = [i \in DOMAIN m.groups |->
            [m.groups[i] EXCEPT !.required =
                RequiredService(m.groups[i], after[i - 1])]]]

ApplyUpdateBlock(m) ==
    calculateRequiredServices(PropagateGlobalUpdateBlockToIGs(m))

-----------------------------------------------------------------------------
(* Links a native provider has to fill in.                                 *)

OverrideNames(m, key) ==
    UNION {UNION {{job[key][n] : n \in DOMAIN job[key]} \ {"nil", "", Error}
                  : job \in ToSet(m.groups[i].jobs)} : i \in DOMAIN m.groups}

ListMissingProviders(m) ==
    OverrideNames(m, "consumes") \ OverrideNames(m, "provides")

-----------------------------------------------------------------------------
(* The instances of a group.  An AZ index of -1 says there are no zones.   *)

Instance(ig, index, azIndex, i, bootstrap) ==
    [address |-> IndexedServiceName(ig, i, azIndex), az |-> azIndex,
     index |-> index, instance |-> i, bootstrap |-> index = bootstrap,
     id |-> <<Sanitized[ig.name], azIndex, i>>]

jobInstances(ig, initialRollout) ==
    [k \in 1..ig.instances |->
        Instance(ig, k - 1, -1, k - 1,
                 IF initialRollout THEN 0 ELSE ig.instances - 1)]

\* Faulty variant: the index starts again in every zone.
IndexPerZone(ig, initialRollout) ==
    [k \in 1..(ig.instances * ig.azs) |->
        Instance(ig, (k - 1) % ig.instances, (k - 1) \div ig.instances,
                 (k - 1) % ig.instances,
                 IF initialRollout THEN 0 ELSE ig.instances * ig.azs - 1)]

jobInstancesAZ(ig, initialRollout) ==
    [k \in 1..(ig.instances * ig.azs) |->
        Instance(ig, k - 1, (k - 1) \div ig.instances, (k - 1) % ig.instances,
                 IF initialRollout THEN 0 ELSE ig.instances * ig.azs - 1)]

newJobInstances(ig, initialRollout) ==
    IF ig.azs > 0 THEN jobInstancesAZ(ig, initialRollout)
    ELSE jobInstances(ig, initialRollout)

\* names.SpecIndex: a fixed number of indexes for each zone, counted from 1.
MaxReplicasPerAZ == 10000
SpecIndex(azIndex, ordinal) ==
    IF azIndex < 1 THEN ordinal ELSE (azIndex - 1) * MaxReplicasPerAZ + ordinal

\* The instance with the spec index, in the order of the instances.
jobInstance(ig, instances, specIndex) ==
    LET Matches(e) == IF ig.azs > 0 THEN SpecIndex(e.az + 1, e.instance) = specIndex
                      ELSE e.index = specIndex
    IN FirstAt(instances, {k \in DOMAIN instances : Matches(instances[k])})
=============================================================================
