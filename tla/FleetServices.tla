---------------------------- MODULE FleetServices -----------------------------
(***************************************************************************)
(* The services phase of `sdk-ops apply`: the fleet's etcd first, then     *)
(* host by host the removal of what the file no longer declares and the    *)
(* declared services one after the other.  A host remembers an apply only  *)
(* by the directories under /opt/sdk-ops/services and what runs.           *)
(* Source: src/cmd/sdk-ops/services.go, services_pg.go, services_nats.go,  *)
(* provision.go.                                                           *)
(***************************************************************************)
EXTENDS Integers, Sequences, FiniteSets

CONSTANTS
  Node,
  Service,                  \* the services of the instance, among those of Queue
  App,                      \* a service pushed by `sdk-ops deploy`
  Version, Absent, Partial, \* renderings of a template; none; an upload that broke off
  Plans,                    \* the fleet files an operator may have written
  Pushed,                   \* bound: the hosts it is pushed to
  Quota                     \* bound: faults in a behaviour

\* orderedServiceNames: what others depend on first, the rest by name.
Queue == <<"etcd", "etcd-bare", "etcd-cluster", "pgsql-cluster", "pgsql-cnpg", "nats",
           "nats-bare", "nats-cluster", "df", "df-bare", "df-cluster", "valkey-cluster",
           "crowdsec-bare", "crowdsec-dockerized", "crowdsec-cluster", "libsql",
           "df-dockerized", "libsql-dockerized", "pgsql-bare", "pgsql-docker",
           "yuga-bare", "yuga-cluster", "yuga-docker">>

\* Templates with a docker-compose.yml, and those of them without an init.sh.
Composed == {"etcd", "pgsql-cluster", "nats", "df", "df-dockerized", "crowdsec-dockerized",
             "libsql", "libsql-dockerized", "pgsql-docker", "yuga-docker"}
Plain    == {"etcd", "pgsql-cluster", "nats"}

\* One release for the whole k3s cluster.
Clustered == {"etcd-cluster", "pgsql-cnpg", "nats-cluster", "df-cluster", "valkey-cluster",
              "crowdsec-cluster", "yuga-cluster"}

\* wireService installs timers for these.
Timed == {"etcd", "pgsql-cluster", "nats", "nats-bare"}

\* cleanupStaleServices never removes these.
Kept == {"libsql", "libsql-dockerized"}

ServicePlan ==
  [order : Seq(Node),                                        \* the hosts, in the order of the file
   wants : [Node -> [Service -> Version \cup {Absent}]],     \* what each host declares
   recreate : BOOLEAN,                                       \* of pgsql-cluster, by any host
   admits : SUBSET Node] \* hosts whose ports have someone to be opened to, or no firewall

VARIABLES
  plan,   \* the file of the last apply
  \* On the hosts:
  conf,   \* the version in /opt/sdk-ops/services/<name>
  proc,   \* the version that runs
  timers, \* services whose systemd timers are enabled
  \* The apply:
  phase, turn, at, \* its phase, the position of the host, the step of the service
  stale, todo,     \* the names still to remove and to deploy on that host
  force,           \* whether containers are to be recreated
  wipes,           \* hosts whose postgres is still to be wiped
  \* Bound and history:
  quota, botched, given

svcHosts == <<conf, proc, timers>>
svcRun   == <<phase, turn, at, stale, todo, force, wipes>>
svcPast  == <<quota, botched, given>>
svcVars  == <<plan, svcHosts, svcRun, svcPast>>

Name == Service \cup {App}

-------------------------------------------------------------------------------
(* What the fleet file says                                                *)

Rank(n) == CHOOSE i \in DOMAIN Queue : Queue[i] = n

WantedBy(p, h) == {n \in Service : p.wants[h][n] # Absent}
Wanted(h)      == WantedBy(plan, h)

\* pgNodes, etcdNodes: the members of the two clusters.
PgNodes(p)   == {h \in Node : "pgsql-cluster" \in WantedBy(p, h)}
EtcdNodes(p) == {h \in Node : WantedBy(p, h) \cap {"etcd", "etcd-bare", "etcd-cluster"} # {}}

Place(p, h) == CHOOSE i \in DOMAIN p.order : p.order[i] = h

\* pgPrimaryNode: the first host that declares it.
IsPrimary(h) == /\ h \in PgNodes(plan)
                /\ \A g \in PgNodes(plan) : Place(plan, h) <= Place(plan, g)

\* buildRenderData finds a rendering for every service in Service; the hosts are all there.
ValidPlan(p) == /\ p \in ServicePlan
                /\ \A h \in Node : \E i \in DOMAIN p.order : p.order[i] = h
                /\ \A i, j \in DOMAIN p.order : p.order[i] = p.order[j] => i = j

ASSUME ServicesAssumption ==
  /\ \A p \in Plans : ValidPlan(p)
  /\ Service \subseteq {Queue[i] : i \in DOMAIN Queue} /\ App \notin Service
  /\ Absent \notin Version /\ Partial \notin Version /\ Absent # Partial
  /\ Pushed \subseteq Node /\ IsFiniteSet(Node)
  /\ Version # {} /\ Quota \in Nat

-------------------------------------------------------------------------------

ServicesTypeOK ==
  /\ plan \in Plans
  /\ conf \in [Node -> [Name -> Version \cup {Absent, Partial}]]
  /\ proc \in [Node -> [Name -> Version \cup {Absent}]]
  /\ timers \in [Node -> SUBSET Timed]
  /\ phase \in {"off", "etcd", "hosts", "ok"}
  /\ turn \in 1 .. Len(plan.order) + 1
  /\ at \in {"turn", "clean", "next", "wipe", "wire", "up", "await"}
  /\ stale \subseteq Name /\ todo \subseteq Service
  /\ at \in {"wipe", "wire", "up", "await"} => todo # {}
  /\ phase \in {"etcd", "hosts"} /\ at # "turn" => turn <= Len(plan.order)
  /\ force \in BOOLEAN /\ wipes \subseteq Node
  /\ quota \in 0 .. Quota /\ botched \subseteq Node \X Name /\ given \subseteq Clustered

ServicesInit ==
  /\ plan \in Plans
  /\ conf = [h \in Node |-> [n \in Name |-> Absent]] /\ proc = conf
  /\ timers = [h \in Node |-> {}]
  /\ phase = "off" /\ turn = 1 /\ at = "turn"
  /\ stale = {} /\ todo = {} /\ force = FALSE /\ wipes = {}
  /\ quota = Quota /\ botched = {} /\ given = {}

Running == phase \in {"etcd", "hosts"}
Fault   == quota > 0 /\ quota' = quota - 1

\* The host whose turn it is, and the service.
Here     == plan.order[turn]
First(n) == n \in todo /\ \A m \in todo : Rank(n) <= Rank(m)

Forgotten == /\ turn' = 1 /\ at' = "turn" /\ stale' = {} /\ todo' = {}
             /\ force' = FALSE /\ wipes' = {}

\* The first error of any step ends the apply.
ServicesFail == phase' = "off" /\ Forgotten

\* Of an apply, with whatever file.
StartServices(p) ==
  /\ ~Running
  /\ phase' = "etcd" /\ plan' = p /\ given' = {} /\ Forgotten
  /\ UNCHANGED <<svcHosts, quota, botched>>

\* `sdk-ops deploy` pushes an app, into a directory next to the services.
PushApp(h) ==
  /\ ~Running /\ h \in Pushed /\ conf[h][App] = Absent
  /\ LET v == CHOOSE v \in Version : TRUE
     IN conf' = [conf EXCEPT ![h][App] = v] /\ proc' = [proc EXCEPT ![h][App] = v]
  /\ phase' = "off"
  /\ UNCHANGED <<plan, timers, turn, at, stale, todo, force, wipes, svcPast>>

-------------------------------------------------------------------------------
(* The hosts in turn                                                        *)

\* Variant: the phase of the hosts alone.
EtcdWithTheRest(h) == {}

\* applyFleetEtcd: the service of that very name.
FleetEtcd(h) == Wanted(h) \cap {"etcd"}

\* Directories that the file does not declare, a pushed app's among them.
Leftover(h) == {n \in Name : conf[h][n] # Absent} \ (Wanted(h) \cup Kept)

\* applyPerHostPhases: applyFleetEtcd on every host, then applyServicesOn, which
\* does not even look at a host without services.
TakeTurn ==
  /\ Running /\ at = "turn" /\ turn <= Len(plan.order)
  /\ \/ /\ phase = "etcd"
        /\ at' = "next" /\ todo' = FleetEtcd(Here) /\ UNCHANGED <<turn, stale>>
     \/ /\ phase = "hosts" /\ Wanted(Here) # {}
        /\ at' = "clean" /\ todo' = Wanted(Here) /\ stale' = Leftover(Here) /\ UNCHANGED turn
     \/ /\ phase = "hosts" /\ Wanted(Here) = {}
        /\ turn' = turn + 1 /\ UNCHANGED <<at, todo, stale>>
  /\ UNCHANGED <<plan, svcHosts, phase, force, wipes, svcPast>>

EndTurn ==
  /\ Running /\ at = "next" /\ todo = {}
  /\ at' = "turn" /\ turn' = turn + 1
  /\ UNCHANGED <<plan, svcHosts, phase, stale, todo, force, wipes, svcPast>>

EtcdDone ==
  /\ phase = "etcd" /\ at = "turn" /\ turn > Len(plan.order)
  /\ phase' = "hosts" /\ Forgotten
  /\ UNCHANGED <<plan, svcHosts, svcPast>>

ServicesDone ==
  /\ phase = "hosts" /\ at = "turn" /\ turn > Len(plan.order)
  /\ phase' = "ok" /\ Forgotten
  /\ UNCHANGED <<plan, svcHosts, svcPast>>

\* Hosts that share what runs of the service.
Spread(h, n) == IF n \in Clustered THEN Node ELSE {h}

SetRunning(hs, n, v) ==
  proc' = [h \in Node |-> IF h \in hs THEN [proc[h] EXCEPT ![n] = v] ELSE proc[h]]

\* Variant: the directory is removed and nothing is stopped.
RemoveOnly(n) ==
  /\ Running /\ at = "clean" /\ n \in stale
  /\ stale' = stale \ {n} /\ conf' = [conf EXCEPT ![Here][n] = Absent]
  /\ given' = given \cup ({n} \cap Clustered)
  /\ UNCHANGED <<plan, proc, timers, phase, turn, at, todo, force, wipes, quota, botched>>

\* uninstallService: compose down, the units and scripts listed for the service,
\* and the directory, every error ignored.  Timers are only listed for nats, and
\* nothing stops a pushed app: its compose file is further down.  An upload that
\* broke off may have left a compose file that cannot be read.
Uninstall(n) ==
  /\ Running /\ at = "clean" /\ n \in stale
  /\ stale' = stale \ {n}
  /\ given' = given \cup ({n} \cap Clustered)
  /\ \/ /\ conf' = [conf EXCEPT ![Here][n] = Absent]
        /\ timers' = [timers EXCEPT ![Here] = @ \ ({n} \cap {"nats"})]
        /\ IF n = App THEN UNCHANGED proc ELSE SetRunning(Spread(Here, n), n, Absent)
        /\ botched' = botched \ {<<Here, n>>} /\ UNCHANGED quota
     \/ /\ Fault \/ (n \in Composed /\ conf[Here][n] = Partial /\ UNCHANGED quota)
        /\ botched' = botched \cup {<<Here, n>>}
        /\ conf' = [conf EXCEPT ![Here][n] = Absent] \/ UNCHANGED conf
        /\ UNCHANGED <<proc, timers>>
  /\ UNCHANGED <<plan, phase, turn, at, todo, force, wipes>>

Cleaned ==
  /\ Running /\ at = "clean" /\ stale = {} /\ at' = "next"
  /\ UNCHANGED <<plan, svcHosts, phase, turn, stale, todo, force, wipes, svcPast>>

-------------------------------------------------------------------------------
(* deployServiceOn                                                          *)

\* What serviceConfigChanged compares: a NATS configuration is never the same
\* twice, its passwords are salted anew.
Compared == {"etcd", "pgsql-cluster", "nats"}
Salted   == {"nats"}

\* Patroni's containers do not have the service in their names.
Unnamed == {"pgsql-cluster"}

\* Variant: a matching file is taken for a service that is up to date.
SameFileIsEnough(h, n) == IF n \in Compared THEN {conf[h][n] # plan.wants[h][n]} ELSE {FALSE}

\* The possible answers: of a broken upload, any file may be the old one.
Differs(h, n) ==
  IF n \notin Compared THEN {FALSE}
  ELSE IF n \in Salted \cup Unnamed \/ proc[h][n] = Absent THEN {TRUE}
  ELSE IF conf[h][n] = Partial THEN BOOLEAN
  ELSE {conf[h][n] # plan.wants[h][n]}

WipesFirst(n) == n = "pgsql-cluster" /\ plan.recreate /\ IsPrimary(Here)

\* Render, compare, then upload: the comparison must come before.
Upload(n) ==
  /\ Running /\ at = "next" /\ First(n)
  /\ force' \in Differs(Here, n)
  /\ conf' = [conf EXCEPT ![Here][n] = plan.wants[Here][n]]
  /\ at' = IF WipesFirst(n) THEN "wipe" ELSE "wire"
  /\ wipes' = IF WipesFirst(n) THEN Node ELSE {}
  /\ UNCHANGED <<plan, proc, timers, phase, turn, stale, todo, svcPast>>

\* tar dies on the way.
UploadBreaks(n) ==
  /\ Running /\ at = "next" /\ First(n) /\ Fault
  /\ conf' = [conf EXCEPT ![Here][n] = Partial]
  /\ ServicesFail /\ UNCHANGED <<plan, proc, timers, botched, given>>

\* cleanPGState: this host, then the others in the order of the file.  It stops
\* the containers; the data it removes is not where they keep theirs.
NextToWipe(h) == /\ h \in wipes
                 /\ h # Here => /\ Here \notin wipes
                                /\ \A g \in wipes : Place(plan, h) <= Place(plan, g)

Wipe(h) ==
  /\ Running /\ at = "wipe" /\ NextToWipe(h)
  /\ wipes' = wipes \ {h} /\ SetRunning({h}, "pgsql-cluster", Absent)
  /\ UNCHANGED <<plan, conf, timers, phase, turn, at, stale, todo, force, svcPast>>

Wiped ==
  /\ Running /\ at = "wipe" /\ wipes = {} /\ at' = "wire"
  /\ UNCHANGED <<plan, svcHosts, phase, turn, stale, todo, force, wipes, svcPast>>

\* wireService: certificates, secrets, timers.
WireService(n) ==
  /\ Running /\ at = "wire" /\ First(n) /\ at' = "up"
  /\ timers' = [timers EXCEPT ![Here] = @ \cup ({n} \cap Timed)]
  /\ UNCHANGED <<plan, conf, proc, phase, turn, stale, todo, force, wipes, svcPast>>

\* Configurations that are the compose file itself.
SeenByCompose == {"etcd"}

\* Templates whose init.sh may leave what runs already as it is: it sees that
\* it runs, or that a hash it noted before the restart is the same, or does not
\* have its containers recreated, or pipes `compose up` into tail, which hides
\* that it failed.
Latched == {"yuga-docker", "yuga-bare", "pgsql-bare", "pgsql-docker", "df", "df-dockerized",
            "df-bare", "libsql", "libsql-dockerized", "crowdsec-dockerized", "nats-bare",
            "etcd-bare"}

\* Those of them that do not mind when nothing has come up.
Careless == {"yuga-docker", "yuga-bare", "pgsql-bare"}

\* Whether the running service takes the uploaded configuration.
Takes(n) == \/ proc[Here][n] = Absent
            \/ n \in Plain /\ (force \/ n \in SeenByCompose)
            \/ n \notin Plain \cup Latched

\* deployFromRender: compose up, or the template's init.sh, which unless it is
\* careless waits for the service.
ComposeUp(n) ==
  /\ Running /\ at = "up" /\ First(n) /\ n # "yuga-cluster"
  /\ \/ /\ Takes(n) \/ n \in Latched
        /\ SetRunning(Spread(Here, n), n, plan.wants[Here][n])
     \/ /\ ~Takes(n) \/ n \in Careless
        /\ UNCHANGED proc
  /\ at' = "await" /\ given' = given \ {n}
  /\ UNCHANGED <<plan, conf, timers, phase, turn, stale, todo, force, wipes, quota, botched>>

\* The template of yuga-cluster has neither.
NothingToRun ==
  /\ Running /\ at = "up" /\ First("yuga-cluster")
  /\ ServicesFail /\ UNCHANGED <<plan, svcHosts, svcPast>>

EtcdRuns(h)  == \E n \in {"etcd", "etcd-bare", "etcd-cluster"} \cap Service : proc[h][n] # Absent
EtcdQuorum   == 2 * Cardinality({h \in EtcdNodes(plan) : EtcdRuns(h)}) > Cardinality(EtcdNodes(plan))

\* waitPGPrimaryReady asks the first host alone whether it leads: a postgres that
\* runs elsewhere, from an earlier apply, may lead instead.
LedElsewhere == /\ First("pgsql-cluster") /\ IsPrimary(Here)
                /\ \E h \in Node \ {Here} : proc[h]["pgsql-cluster"] # Absent

\* waitServiceUp: without a quorum of the etcd nobody leads; exposeServicePorts,
\* of compose services, needs an address to open them to.
Settles(n) == /\ n = "pgsql-cluster" /\ IsPrimary(Here) => EtcdQuorum
              /\ n \in Composed => Here \in plan.admits

AwaitService(n) ==
  /\ Running /\ at = "await" /\ First(n) /\ Settles(n)
  /\ todo' = todo \ {n} /\ at' = "next" /\ force' = FALSE
  /\ UNCHANGED <<plan, svcHosts, phase, turn, stale, wipes, svcPast>>

AwaitFails(n) ==
  /\ Running /\ at = "await" /\ First(n) /\ (~Settles(n) \/ LedElsewhere)
  /\ ServicesFail /\ UNCHANGED <<plan, svcHosts, svcPast>>

\* The apply is killed, or a command of any step fails.
BreakOff ==
  /\ Running /\ Fault
  /\ ServicesFail /\ UNCHANGED <<plan, svcHosts, botched, given>>

-------------------------------------------------------------------------------

ServiceStep(n) == \/ Uninstall(n) \/ Upload(n) \/ WireService(n)
                  \/ ComposeUp(n) \/ AwaitService(n) \/ AwaitFails(n)

ServicesStep == \/ TakeTurn \/ EndTurn \/ EtcdDone \/ ServicesDone \/ Cleaned \/ Wiped
                \/ NothingToRun
                \/ (\E n \in Name : ServiceStep(n))
                \/ (\E h \in Node : Wipe(h))

ServicesNext == \/ (\E p \in Plans : StartServices(p))
                \/ (\E h \in Node : PushApp(h))
                \/ ServicesStep \/ BreakOff
                \/ (\E n \in Service : UploadBreaks(n))

ServicesSpec == ServicesInit /\ [][ServicesNext]_svcVars

-------------------------------------------------------------------------------
(* Properties                                                               *)

\* No two hosts declare it differently.
Agreed(n) == \A g, h \in Node : n \in Wanted(g) \cap Wanted(h) => plan.wants[g][n] = plan.wants[h][n]

\* An apply that reports success leaves every declared service running what the
\* file declares, wherever earlier applies ended, although a file is replaced
\* before the service is and the next apply may find the two alike.  Two
\* exceptions: a service of the k3s cluster that a later host of the same run no
\* longer declares, and the templates that leave alone what runs already, which
\* run in some version then, unless they do not look at all.
ServedAsDeclared ==
  phase = "ok" => \A h \in Node : \A n \in Wanted(h) \ given :
    /\ n \notin Latched /\ (n \in Clustered => Agreed(n)) => proc[h][n] = plan.wants[h][n]
    /\ n \in Latched \ Careless => proc[h][n] # Absent

\* After an apply that reports success, a host that declares services runs no
\* other, has the directory of no other, and timers of no other, except libsql's,
\* those whose removal went wrong, a pushed app, which goes on without its
\* directory, and the timers that no uninstall disables.
UndeclaredGone ==
  phase = "ok" => \A h \in Node : Wanted(h) # {} =>
    /\ \A n \in Name \ (Wanted(h) \cup Kept) : <<h, n>> \notin botched =>
         /\ conf[h][n] = Absent
         /\ n \notin Clustered \cup {App} => proc[h][n] = Absent
    /\ \A n \in timers[h] \ (Wanted(h) \cup {"etcd", "pgsql-cluster", "nats-bare"}) :
         <<h, n>> \in botched

\* Postgres is started on no host before the etcd of every host that declares it
\* runs: its first leader election needs a quorum.
EtcdBeforePostgres ==
  [][\A h \in PgNodes(plan) :
       proc'[h]["pgsql-cluster"] \notin {Absent, proc[h]["pgsql-cluster"]} =>
         \A g \in Node : "etcd" \in Wanted(g) => proc[g]["etcd"] # Absent]_svcVars

\* What an apply needs when nothing fails.
Deployable ==
  /\ \A h \in Node : "yuga-cluster" \notin Wanted(h)
                     /\ (Wanted(h) \cap Composed # {} => h \in plan.admits)
  /\ PgNodes(plan) # {} => /\ EtcdNodes(plan) # {}
                           /\ \A h \in EtcdNodes(plan) : "etcd" \in Wanted(h)

\* Wherever earlier applies ended, and whatever they left on the hosts, an apply of
\* such a file ends in an error only by a fault of its own, or while it waits for
\* the first host to lead a postgres that another host was left running.
FailsOnlyByFault ==
  [][Running /\ phase' = "off" /\ quota' = quota =>
       ~Deployable \/ (at = "await" /\ LedElsewhere)]_svcVars

===============================================================================
