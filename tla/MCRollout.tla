----------------------------- MODULE MCRollout -----------------------------
(***************************************************************************)
(* Small manifests for Rollout.tla.  Each has one feature at its centre.   *)
(***************************************************************************)
EXTENDS Rollout

MCSanitized == [n \in {"db", "api", "web", "task", "old"} |-> n]
MCIndexed(name, az, index) ==
    MCSanitized[name] \o (IF az > -1 THEN "-z" \o ToString(az) ELSE "")
                      \o "-" \o ToString(index)

Process(name) ==
    [name |-> name, executable |-> <<"bin">>, preStart |-> Nil, env |-> <<>>,
     ephemeralDisk |-> Nil, persistentDisk |-> Nil, additional |-> <<>>,
     unrestricted |-> <<>>]

Spec0 == [provides |-> <<>>, consumes |-> <<>>, defaults |-> <<>>,
          template |-> TRUE, bootstrapOnly |-> FALSE,
          processes |-> <<Process("run")>>]

Link(name, optional) == [name |-> name, type |-> name, optional |-> optional]
Provide(name) == [name |-> name, type |-> name, properties |-> {"port", "user"}]

\* The releases: a database with a link, a consumer of it, a job without a
\* process, one with several processes and disks, and an addon that provides
\* the database's link once more.
MCSpecs ==
    (<<"db", "sql">> :>
        [Spec0 EXCEPT !.provides = <<Provide("sql")>>,
                      !.defaults = [port |-> "3306", user |-> "root"],
                      !.processes = <<[Process("run") EXCEPT !.preStart = <<"hook">>,
                                          !.persistentDisk = <<TRUE>>]>>]) @@
    (<<"cf", "api">> :>
        [Spec0 EXCEPT !.consumes = <<Link("sql", FALSE), Link("cache", TRUE)>>]) @@
    (<<"cf", "conf">> :> [Spec0 EXCEPT !.processes = <<>>]) @@
    (<<"cf", "web">> :>
        [Spec0 EXCEPT !.processes =
            << [Process("main") EXCEPT !.ephemeralDisk = <<TRUE>>,
                    !.unrestricted = <<<<"jobs", "x", FALSE>>, <<"data", "x", TRUE>>, <<"dev">>>>],
               [Process("side") EXCEPT !.additional = <<<<"sys", "run/web", TRUE>>>>] >>]) @@
    (<<"cf", "log">> :>
        [Spec0 EXCEPT !.processes =
            <<[Process("run") EXCEPT !.unrestricted = <<<<"sys", "log/x", FALSE>>>>]>>]) @@
    (<<"cf", "tmp">> :>
        [Spec0 EXCEPT !.processes =
            <<[Process("run") EXCEPT !.additional = <<<<"store", "x", TRUE>>>>]>>]) @@
    (<<"cf", "opt">> :>
        [Spec0 EXCEPT !.processes =
            <<[Process("run") EXCEPT !.additional = <<<<"opt", "data/x", TRUE>>>>]>>]) @@
    (<<"cf", "lead">> :> [Spec0 EXCEPT !.bootstrapOnly = TRUE]) @@
    (<<"cf", "preset">> :> [Spec0 EXCEPT !.template = FALSE]) @@
    (<<"agent", "agent">> :>
        [Spec0 EXCEPT !.provides = <<Provide("sql")>>,
                      !.defaults = [port |-> "1", user |-> "agent"]]) @@
    (<<"bosh-dns-aliases", "aliases">> :> [Spec0 EXCEPT !.processes = <<>>])

Job(release, name) ==
    [name |-> name, release |-> release, ports |-> FALSE, provides |-> <<>>,
     consumes |-> <<>>, isAddon |-> FALSE, properties |-> <<>>, bpm |-> Nil,
     envs |-> <<>>, activePassive |-> FALSE, links |-> <<>>, aliases |-> {}]

Ported(job) == [job EXCEPT !.ports = TRUE]
Sql == Ported([Job("db", "sql") EXCEPT !.properties = [user |-> "admin"]])
Api == Ported(Job("cf", "api"))
Web == Job("cf", "web")
Conf == Job("cf", "conf")

IG(name, instances, jobs) ==
    [name |-> name, instances |-> instances, azs |-> 0, jobs |-> jobs,
     lifecycle |-> "service", update |-> Nil, required |-> Nil,
     stemcell |-> "default", persistentDisk |-> 10, ephemeralAsPVC |-> FALSE,
     injectReplicas |-> TRUE, disableLogSidecar |-> FALSE, dns |-> "",
     disks |-> <<>>]

Block(serial) == <<[canary |-> <<10, 30>>, watch |-> <<30>>, serial |-> serial]>>
Parallel(ig) == [ig EXCEPT !.update = <<[canary |-> Nil, watch |-> Nil,
                                         serial |-> <<FALSE>>]>>]
Errand(ig, lifecycle) == [ig EXCEPT !.lifecycle = lifecycle]

Manifest(groups) ==
    [groups |-> groups, addons |-> <<>>,
     releases |-> << [name |-> "db", os |-> "opensuse"], [name |-> "cf", os |-> ""],
                     [name |-> "agent", os |-> "opensuse"],
                     [name |-> "bosh-dns-aliases", os |-> "opensuse"] >>,
     stemcells |-> <<[alias |-> "default", os |-> "opensuse"]>>,
     update |-> Block(Nil), links |-> <<>>, addonsApplied |-> FALSE,
     failed |-> FALSE]

Addon(name, job, groups) ==
    [name |-> name, jobs |-> <<job>>, exclude |-> Nil,
     include |-> <<[stemcells |-> {}, jobs |-> {}, groups |-> groups,
                    lifecycle |-> ""]>>]

DNSAddon(domain, group, query) ==
    Addon("aliases",
          [Job("bosh-dns-aliases", "aliases") EXCEPT
              !.aliases = {[domain |-> domain,
                            target |-> [group |-> group, query |-> query]]}], {})

DB == IG("db", 1, <<Sql>>)

\* A group without ports between serial groups.
Unported == Manifest(<<DB, IG("task", 1, <<Conf, Web>>), IG("api", 1, <<Api>>)>>)

\* A parallel group between serial groups.
BetweenParallel ==
    Manifest(<<DB, Parallel(IG("web", 1, <<Ported(Web)>>)), IG("api", 1, <<Api>>)>>)

\* Two zones, an addon that provides the link again, and DNS aliases.
Zoned ==
    [Manifest(<<[IG("db", 1, <<Sql>>) EXCEPT !.azs = 2], IG("api", 2, <<Api>>)>>)
        EXCEPT !.addons = << Addon("agent", Job("agent", "agent"), {"api"}),
                             DNSAddon("db.internal", "db", "_"),
                             DNSAddon("api.internal", "api", "*") >>]

ZonedReplicas == Manifest(<<[IG("db", 2, <<Sql>>) EXCEPT !.azs = 2,
                                                       !.ephemeralAsPVC = TRUE]>>)

\* The same group without the number of replicas.
NotTold == Manifest(<<[IG("db", 2, <<Sql>>) EXCEPT !.azs = 2,
                                                 !.injectReplicas = FALSE]>>)

\* Several jobs, one of them without a process, and several processes.
Drains == Manifest(<<IG("web", 1, <<Conf, Web, Sql>>)>>)

\* An errand that runs by itself and one that does not.
Errands ==
    Manifest(<<DB, Errand(IG("task", 1, <<Job("cf", "api")>>), "auto-errand"),
               Errand(IG("web", 1, <<Job("cf", "web")>>), "errand")>>)

\* One active pod, and BPM from the manifest.
ActivePassive ==
    Manifest(<<IG("db", 2, <<[Sql EXCEPT !.activePassive = TRUE]>>),
               IG("web", 2, << Job("cf", "lead"),
                   [Job("cf", "preset") EXCEPT
                       !.bpm = <<[processes |-> <<Process("run")>>]>>] >>)>>)

\* The link of a native provider.
Native ==
    [Manifest(<<IG("api", 1, <<Api>>)>>) EXCEPT
        !.links = [sql |-> [type |-> "sql", address |-> <<"native">>,
                            instances |-> <<>>, properties |-> <<>>]]]

\* What cannot be deployed: a service that never is, a release that is not
\* copied, two providers, no provider, and disks nobody declares.
NoInstances == Manifest(<<IG("db", 0, <<Sql>>), IG("web", 1, <<Web, Sql>>)>>)
NotCopied == Manifest(<<IG("old", 0, <<Job("db", "sql")>>), IG("web", 1, <<Web>>)>>)
TwoProviders == Manifest(<<DB, IG("web", 1, <<Job("agent", "agent")>>)>>)
NoProvider == Manifest(<<IG("api", 1, <<Api>>)>>)
BadPath == Manifest(<<IG("web", 1, <<Job("cf", "log")>>)>>)
NoStore == Manifest(<<IG("web", 1, <<Job("cf", "tmp")>>)>>)
Elsewhere == Manifest(<<IG("web", 1, <<Job("cf", "opt")>>)>>)
NoUpdate == [Manifest(<<Parallel(DB)>>) EXCEPT !.update = Nil]
NoDisk == Manifest(<<[DB EXCEPT !.persistentDisk = 0]>>)

Deploy(manifests, initial, version) ==
    {[manifest |-> m, initial |-> initial, version |-> version] : m \in manifests}

\* First rollouts, later ones, and one whose two marks disagree.
MCDeployments ==
    Deploy({Unported, BetweenParallel, ZonedReplicas, Drains, Errands, Native,
            NoInstances, NotCopied, TwoProviders, NoProvider, BadPath, NoStore,
            Elsewhere, NoUpdate, NoDisk}, TRUE, 1)
    \cup Deploy({Zoned, ActivePassive}, FALSE, 2)
    \cup Deploy({NotTold, Native}, TRUE, 2)

\* Two providers under different names, and a consumer of the second.
From ==
    Manifest(<< DB,
                IG("web", 1, <<[Job("agent", "agent") EXCEPT
                                   !.provides = [sql |-> "other"]]>>),
                IG("api", 1, <<[Api EXCEPT !.consumes = [sql |-> "other"]]>>) >>)

FromDeployments == Deploy({From}, TRUE, 1)
=============================================================================
