------------------------------ MODULE FleetApply ------------------------------
(***************************************************************************)
(* `sdk-ops apply` of a fleet file: the hosts are initialized in parallel  *)
(* waves, peer ports opened, the k3s cluster joined and the phases run;    *)
(* the operator applies again, to all hosts or some, after a run that      *)
(* ended anywhere.  A run keeps nothing between two applies: it decides    *)
(* from the init marker of each host and the node list of the cluster.     *)
(* Source: src/cmd/sdk-ops/provision.go, infra.go, src/k3s.                *)
(***************************************************************************)
EXTENDS Integers, Sequences, FiniteSets

CONSTANTS
  Host, NoHost,
  Fleets, \* the fleet files an operator may have written
  Budget, \* bound: faults in a behaviour
  Events  \* their kinds: subset of {"crash", "probe", "init", "config", "marker", "list", "join", "slow", "down"}

FleetFile ==
  [order : Seq(Host),             \* the hosts, in the order of the file
   waves : Seq(SUBSET Host),      \* deploy_order; one wave of all when there is none
   mode : {"k3s", "docker", "bare"},
   role : [Host -> {"", "server", "agent"}],
   ha : BOOLEAN,                  \* k3s_ha
   allow : BOOLEAN,               \* allow_mode_switch
   hardening : BOOLEAN,
   wall : BOOLEAN,                \* firewall_allowlist
   peers : SUBSET (Host \X Host), \* <<from, to>>
   parallel : Nat \ {0}]

VARIABLES
  fleet,  \* the fleet file of this behaviour
  \* On the hosts:
  marker, \* /opt/sdk-ops/.version: "none", "legacy" or a mode
  config, \* hosts whose k3s config.yaml says cluster-init
  k3s,    \* the host whose cluster the installed k3s belongs to, or NoHost
  etcd,   \* servers that booted with embedded etcd
  node,   \* in the node list of that cluster: "none", "NotReady", "Ready"
  open,   \* <<from, to>> peer rules in force on `to`
  walled, \* hosts whose provider allowlist is installed
  \* The run:
  pc, sel, step, \* its phase, the hosts selected by tags, the position of each host's init
  rules, ready, joins, \* peers still to open, nodes that were Ready, hosts still to join
  \* Bound and history:
  left, torn, blind, steady

hosts == <<marker, config, k3s, etcd, node, open, walled>>
run   == <<sel, step, rules, ready, joins>>
past  == <<left, torn, blind, steady>>
vars  == <<fleet, hosts, pc, run, past>>

\* A fault of this kind happens.
Happens(kind) == kind \in Events /\ left > 0 /\ left' = left - 1
NothingHappens == UNCHANGED left

-------------------------------------------------------------------------------
(* What the fleet file says                                                *)

Before(g, h) == \E i, j \in DOMAIN fleet.order :
                  i < j /\ fleet.order[i] = g /\ fleet.order[j] = h

\* The first step of deploy_order that names the host.
Wave(i) == fleet.waves[i] \ UNION {fleet.waves[j] : j \in 1 .. i - 1}
InWaves == UNION {fleet.waves[i] : i \in DOMAIN fleet.waves}

RolesDeclared == fleet.mode = "k3s" /\ \E h \in Host : fleet.role[h] # ""

K3sRoleOf(h) == IF ~RolesDeclared THEN ""
                ELSE IF fleet.role[h] = "" THEN "agent" ELSE fleet.role[h]

Servers == {h \in Host : fleet.role[h] = "server"}

FirstServer ==
  IF Servers # {} THEN CHOOSE h \in Servers : \A g \in Servers \ {h} : Before(h, g)
  ELSE IF fleet.mode = "k3s" /\ fleet.ha THEN fleet.order[1] ELSE NoHost

Boots(h) == h = FirstServer /\ K3sRoleOf(h) \in {"server", ""}

\* k3sClusterJoin has something to join.
OneK3sCluster == fleet.mode = "k3s" /\ (fleet.ha \/ RolesDeclared)

\* Variant: every server boots.
ModeByRole(h) == IF fleet.mode = "k3s" /\ K3sRoleOf(h) = "agent" THEN "docker" ELSE fleet.mode

\* applyK3sTopology: what the host is initialized as; the join installs k3s later.
InitMode(h) ==
  IF fleet.mode = "k3s" /\ ~Boots(h) /\ (K3sRoleOf(h) # "" \/ fleet.ha) THEN "docker"
  ELSE fleet.mode

\* validateProvision.
ValidFleet(f) ==
  /\ f \in FleetFile
  /\ \A h \in Host : \E i \in DOMAIN f.order : f.order[i] = h
  /\ \A i, j \in DOMAIN f.order : f.order[i] = f.order[j] => i = j
  /\ (\E h \in Host : f.role[h] # "") =>
       /\ f.mode = "k3s"
       /\ \E h \in Host : f.role[h] = "server"
       /\ f.ha \/ \A g, h \in Host : f.role[g] = "server" /\ f.role[h] = "server" => g = h

ASSUME FleetAssumption == /\ \A f \in Fleets : ValidFleet(f)
                          /\ NoHost \notin Host /\ Host # {} /\ IsFiniteSet(Host)
                          /\ Budget \in Nat

-------------------------------------------------------------------------------

Initializing == {"probe", "harden", "install", "stamp", "late"}
Ended        == {"out", "ok", "failed"}

TypeOK ==
  /\ fleet \in Fleets
  /\ marker \in [Host -> {"none", "legacy", "k3s", "docker", "bare"}]
  /\ k3s \in [Host -> Host \cup {NoHost}] /\ etcd \subseteq {h \in Host : k3s[h] = h}
  /\ node \in [Host -> {"none", "NotReady", "Ready"}]
  /\ open \subseteq fleet.peers
  /\ config \subseteq Host /\ walled \subseteq Host /\ sel \subseteq Host
  /\ torn \subseteq Host /\ blind \subseteq Host /\ steady \subseteq Host
  /\ pc \in {"idle", "hosts", "peers", "token", "join", "await", "phases", "done"}
  /\ step \in [Host -> {"todo"} \cup Initializing \cup Ended]
  /\ rules \subseteq fleet.peers
  /\ ready \subseteq Host /\ joins \subseteq Host
  /\ left \in 0 .. Budget

\* Hosts may have been initialized by an earlier fleet file, or by a version of
\* sdk-ops that left no mode in the marker.
Init ==
  /\ fleet \in Fleets
  /\ marker \in [Host -> {"none", "legacy", "docker"}]
  /\ config = {} /\ etcd = {} /\ open = {}
  /\ k3s = [h \in Host |-> NoHost] /\ node = [h \in Host |-> "none"]
  /\ walled = {h \in Host : fleet.wall /\ marker[h] # "none"}
  /\ pc = "idle" /\ sel = {} /\ step = [h \in Host |-> "out"]
  /\ rules = {} /\ ready = {} /\ joins = {}
  /\ left = Budget /\ torn = {} /\ blind = {} /\ steady = {}

\* runProvision, for the hosts that match the tags.
Start(chosen) ==
  /\ pc \in {"idle", "done"} /\ chosen # {}
  /\ pc' = "hosts" /\ sel' = chosen
  /\ step' = [h \in Host |-> IF h \in chosen \cap InWaves THEN "todo" ELSE "out"]
  /\ steady' = {h \in Host : node[h] = "Ready" /\ (InitMode(h) = "k3s" => marker[h] = "k3s")}
  /\ UNCHANGED <<fleet, hosts, rules, ready, joins, left, torn, blind>>

\* What the process kept in memory is gone.
Forgets == /\ step' = [h \in Host |-> "out"]
           /\ rules' = {} /\ ready' = {} /\ joins' = {}
           /\ blind' = {} /\ steady' = {}

EndsInError == pc' = "idle" /\ sel' = {} /\ Forgets

\* The run is killed, or ends with the first error of a sequential step.
Abort == /\ pc \notin {"idle", "done"} /\ Happens("crash")
         /\ EndsInError /\ UNCHANGED <<fleet, hosts, torn>>

-------------------------------------------------------------------------------
(* provisionHost, by one goroutine per host                                *)

\* provisionHosts waits for a wave, failed or not; provisionWave takes a slot
\* for each host in turn.
CanStart(h) ==
  /\ step[h] = "todo"
  /\ Cardinality({g \in Host : step[g] \in Initializing}) < fleet.parallel
  /\ \E i \in DOMAIN fleet.waves :
       /\ h \in Wave(i)
       /\ \A j \in 1 .. i - 1 : \A g \in Wave(j) : step[g] \in Ended
       /\ \A g \in Wave(i) : Before(g, h) => step[g] # "todo"

\* The booting server gets its config.yaml first; errors of that are ignored.
Launch(h) ==
  /\ pc = "hosts" /\ CanStart(h)
  /\ step' = [step EXCEPT ![h] = "probe"]
  /\ \/ /\ Boots(h) /\ NothingHappens
        /\ config' = IF fleet.ha THEN config \cup {h} ELSE config \ {h}
     \/ /\ ~Boots(h) /\ NothingHappens /\ UNCHANGED config
     \/ /\ Boots(h) /\ Happens("config") /\ UNCHANGED config
  /\ UNCHANGED <<fleet, marker, k3s, etcd, node, open, walled, pc, sel, rules, ready, joins,
                 torn, blind, steady>>

\* Variant: another mode is installed without being asked for.
SwitchAnyway(seen) == IF seen \in {"legacy", fleet.mode} THEN "ok" ELSE "harden"

\* Variant: the marker's mode is not compared.
AnyMarkerWillDo(seen) == IF seen = "none" THEN "harden" ELSE "ok"

\* hostInitState, modeSwitchDecision: a legacy marker passes for any mode.
Decision(seen) == IF seen = "none" THEN "harden"
                  ELSE IF seen \in {"legacy", fleet.mode} THEN "ok"
                  ELSE IF fleet.allow THEN "harden" ELSE "failed"

\* A marker that cannot be read passes for none.  The host may still fail, to be
\* reached for its init or to set its swap size.
Probe(h) ==
  /\ pc = "hosts" /\ step[h] = "probe"
  /\ \/ /\ step' = [step EXCEPT ![h] = Decision(marker[h])]
        /\ NothingHappens /\ UNCHANGED <<blind, steady>>
     \/ /\ step' = [step EXCEPT ![h] = Decision("none")]
        /\ Happens("probe")
        /\ blind' = blind \cup {h} /\ steady' = steady \ {h}
     \/ /\ step' = [step EXCEPT ![h] = "failed"]
        /\ Happens("init") /\ UNCHANGED <<blind, steady>>
  /\ UNCHANGED <<fleet, hosts, pc, sel, rules, ready, joins, torn>>

\* Hardening loads a fresh ruleset: the peer rules and the allowlist are gone.
\* Where it fails the init goes on.
Harden(h) ==
  /\ pc = "hosts" /\ step[h] = "harden"
  /\ step' = [step EXCEPT ![h] = "install"]
  /\ torn' = torn \cup {h}
  /\ \/ /\ fleet.hardening /\ NothingHappens
        /\ open' = {p \in open : p[2] # h} /\ walled' = walled \ {h}
     \/ /\ (~fleet.hardening /\ NothingHappens) \/ Happens("init")
        /\ UNCHANGED <<open, walled>>
  /\ UNCHANGED <<fleet, marker, config, k3s, etcd, node, pc, sel, rules, ready, joins,
                 blind, steady>>

\* k3s starts as a server of its own.
Booted(h) ==
  /\ k3s' = [k3s EXCEPT ![h] = h]
  /\ etcd' = IF h \in config THEN etcd \cup {h} ELSE etcd \ {h}
  /\ node' = [node EXCEPT ![h] = "NotReady"]

\* docker.Install, then k3s.Install in k3s mode: an error ends the host's init,
\* before or after k3s was started.
Install(h) ==
  /\ pc = "hosts" /\ step[h] = "install"
  /\ \/ step' = [step EXCEPT ![h] = "stamp"] /\ NothingHappens
     \/ step' = [step EXCEPT ![h] = "failed"] /\ Happens("init")
  /\ \/ InitMode(h) = "k3s" /\ Booted(h)
     \/ /\ InitMode(h) # "k3s" \/ step'[h] = "failed"
        /\ UNCHANGED <<k3s, etcd, node>>
  /\ UNCHANGED <<fleet, marker, config, open, walled, pc, sel, rules, ready, joins,
                 torn, blind, steady>>

\* createSDKOpsStructure: an error is only logged.
Stamp(h) ==
  /\ pc = "hosts" /\ step[h] = "stamp"
  /\ step' = [step EXCEPT ![h] = "late"]
  /\ \/ marker' = [marker EXCEPT ![h] = InitMode(h)] /\ NothingHappens
     \/ Happens("marker") /\ UNCHANGED marker
  /\ UNCHANGED <<fleet, config, k3s, etcd, node, open, walled, pc, sel, rules, ready, joins,
                 torn, blind, steady>>

\* The traefik and allowlist phases come after the marker, and the swap size last.
Late(h) ==
  /\ pc = "hosts" /\ step[h] = "late"
  /\ \/ step' = [step EXCEPT ![h] = "ok"] /\ NothingHappens
     \/ step' = [step EXCEPT ![h] = "failed"] /\ Happens("init")
  /\ \/ /\ torn' = torn \ {h}
        /\ walled' = IF fleet.wall /\ fleet.hardening THEN walled \cup {h} ELSE walled
     \/ step'[h] = "failed" /\ UNCHANGED <<torn, walled>>
  /\ UNCHANGED <<fleet, marker, config, k3s, etcd, node, open, pc, sel, rules, ready, joins,
                 blind, steady>>

\* Every wave is over: one failed host ends the run.
HostsFailed ==
  /\ pc = "hosts" /\ \A h \in Host : step[h] \in Ended
  /\ \E h \in Host : step[h] = "failed"
  /\ EndsInError /\ UNCHANGED <<fleet, hosts, left, torn>>

HostsDone ==
  /\ pc = "hosts" /\ \A h \in Host : step[h] \in {"ok", "out"}
  /\ pc' = IF fleet.mode = "k3s" THEN "peers" ELSE "phases"
  /\ rules' = fleet.peers
  /\ UNCHANGED <<fleet, hosts, sel, step, ready, joins, past>>

-------------------------------------------------------------------------------
(* Peers, cluster and phases, by the main goroutine                         *)

\* applyProvisionPeers, before the join and again with the phases: for every
\* host of the file, selected or not.  Without hardening nothing is closed.
OpenPeer ==
  /\ pc \in {"peers", "phases"}
  /\ \E p \in rules : rules' = rules \ {p} /\ open' = open \cup {p}
  /\ UNCHANGED <<fleet, marker, config, k3s, etcd, node, walled, pc, sel, step, ready, joins, past>>

\* Variant: the ports are opened with the phases, after the join.
PeersLater ==
  /\ pc = "peers" /\ pc' = IF OneK3sCluster THEN "token" ELSE "phases"
  /\ rules' = fleet.peers
  /\ UNCHANGED <<fleet, hosts, sel, step, ready, joins, past>>

PeersDone ==
  /\ pc = "peers" /\ rules = {}
  /\ pc' = IF OneK3sCluster THEN "token" ELSE "phases"
  /\ rules' = fleet.peers
  /\ UNCHANGED <<fleet, hosts, sel, step, ready, joins, past>>

ReadyNodes == {h \in Host : k3s[h] = FirstServer /\ node[h] = "Ready"}

\* There is no token: the first server runs no k3s.
NoToken ==
  /\ pc = "token" /\ k3s[FirstServer] # FirstServer
  /\ EndsInError /\ UNCHANGED <<fleet, hosts, left, torn>>

\* The token, config.yaml, and k3sReadyNodeIPs, which takes a list it could not
\* get for an empty one.
ReadServer ==
  /\ pc = "token" /\ k3s[FirstServer] = FirstServer
  /\ pc' = "join" /\ joins' = sel \ {FirstServer}
  /\ config' = IF fleet.ha THEN config \cup {FirstServer} ELSE config \ {FirstServer}
  /\ \/ ready' = ReadyNodes /\ NothingHappens /\ UNCHANGED steady
     \/ /\ (node[FirstServer] # "Ready" /\ NothingHappens) \/ Happens("list")
        /\ ready' = {} /\ steady' = steady \cap {FirstServer}
  /\ UNCHANGED <<fleet, marker, k3s, etcd, node, open, walled, sel, step, rules, torn, blind>>

\* A server joins over the etcd ports of the first, when that has an etcd.
Reaches(h) == K3sRoleOf(h) = "agent"
              \/ /\ FirstServer \in etcd
                 /\ fleet.hardening => <<h, FirstServer>> \in open

\* Variant: the address of the server does not reach the installer.
JoinedAlone(h) == Booted(h)

\* The installer rewrites the unit and restarts k3s.
Joined(h) ==
  /\ k3s' = [k3s EXCEPT ![h] = FirstServer]
  /\ etcd' = etcd \ {h}
  /\ node' = [node EXCEPT ![h] = IF k3s[h] = FirstServer /\ node[h] # "none" THEN "NotReady" ELSE "none"]

NextToJoin(h) == h \in joins /\ \A g \in joins : ~Before(g, h)

\* Variant: members are joined again.
SkipsNone(h) == FALSE

Skips(h) == h \in ready

\* k3sJoinFleetHost: Ready members are skipped.
SkipJoin(h) ==
  /\ pc = "join" /\ NextToJoin(h) /\ Skips(h)
  /\ joins' = joins \ {h}
  /\ UNCHANGED <<fleet, hosts, pc, sel, step, rules, ready, past>>

\* k3sJoinServer, k3sJoinAgent: one that succeeds has waited for the server.
Join(h) ==
  /\ pc = "join" /\ NextToJoin(h) /\ ~Skips(h)
  /\ Reaches(h) /\ node[FirstServer] = "Ready"
  /\ Joined(h) /\ joins' = joins \ {h}
  /\ UNCHANGED <<fleet, marker, config, open, walled, pc, sel, step, rules, ready, past>>

\* A join that failed may have installed k3s.
JoinFails(h) ==
  /\ pc = "join" /\ NextToJoin(h) /\ ~Skips(h)
  /\ (~Reaches(h) /\ NothingHappens) \/ Happens("join")
  /\ Joined(h) \/ UNCHANGED <<k3s, etcd, node>>
  /\ EndsInError
  /\ UNCHANGED <<fleet, marker, config, open, walled, torn>>

JoinsDone == /\ pc = "join" /\ joins = {} /\ pc' = "await"
             /\ UNCHANGED <<fleet, hosts, run, past>>

Members == {h \in Host : k3s[h] = FirstServer}
Listed  == {h \in Members : node[h] # "none"}

\* Variant: one node in the list is enough.
AwaitAny ==
  /\ pc = "await" /\ Listed # {}
  /\ pc' = "phases" /\ UNCHANGED <<fleet, hosts, run, past>>

\* waitForFleetReady counts the lines of the node list that contain Ready, which
\* those of NotReady nodes do,
AwaitFleet ==
  /\ pc = "await" /\ Cardinality(Listed) = Cardinality(sel)
  /\ pc' = "phases" /\ UNCHANGED <<fleet, hosts, run, past>>

\* and gives up after two minutes.
FleetIncomplete ==
  /\ pc = "await" /\ Cardinality(Listed) # Cardinality(sel)
  /\ (Listed = Members /\ NothingHappens) \/ Happens("slow")
  /\ EndsInError /\ UNCHANGED <<fleet, hosts, torn>>

\* applyProvisionPhases after the peers: watchdogs and services, on every host.
PhasesDone == /\ pc = "phases" /\ rules = {} /\ pc' = "done" /\ Forgets
              /\ UNCHANGED <<fleet, hosts, sel, left, torn>>

-------------------------------------------------------------------------------
(* The clusters                                                             *)

\* A joined node appears in the list, its kubelet answers, or stops answering.
Register(h) ==
  /\ k3s[h] # NoHost /\ node[h] = "none" /\ node[k3s[h]] = "Ready"
  /\ node' = [node EXCEPT ![h] = "NotReady"]
  /\ UNCHANGED <<fleet, marker, config, k3s, etcd, open, walled, pc, run, past>>

Recover(h) ==
  /\ node[h] = "NotReady"
  /\ node' = [node EXCEPT ![h] = "Ready"]
  /\ UNCHANGED <<fleet, marker, config, k3s, etcd, open, walled, pc, run, past>>

GoDown(h) ==
  /\ node[h] = "Ready" /\ Happens("down")
  /\ node' = [node EXCEPT ![h] = "NotReady"] /\ steady' = steady \ {h}
  /\ UNCHANGED <<fleet, marker, config, k3s, etcd, open, walled, pc, run, torn, blind>>

-------------------------------------------------------------------------------

ProvisionHost(h) == \/ Launch(h) \/ Probe(h) \/ Harden(h)
                    \/ Install(h) \/ Stamp(h) \/ Late(h)

Apply == \/ (\E h \in Host : ProvisionHost(h) \/ SkipJoin(h) \/ Join(h) \/ JoinFails(h))
         \/ HostsFailed \/ HostsDone \/ OpenPeer \/ PeersDone \/ NoToken \/ ReadServer
         \/ JoinsDone \/ AwaitFleet \/ FleetIncomplete \/ PhasesDone

Cluster == \E h \in Host : Register(h) \/ Recover(h)

Next == \/ (\E chosen \in SUBSET Host : Start(chosen))
        \/ Apply \/ Abort \/ Cluster
        \/ \E h \in Host : GoDown(h)

Spec == Init /\ [][Next]_vars

\* A run is one process; systemd restarts k3s.
FairSpec == Spec /\ WF_vars(Apply) /\ WF_vars(Cluster)

-------------------------------------------------------------------------------
(* Properties                                                               *)

\* A fleet that is to be one cluster is never split: whatever was selected,
\* failed or was applied again, no host runs k3s for another server than the first.
OneCluster == OneK3sCluster => \A h \in Host : k3s[h] \in {NoHost, FirstServer}

\* A fleet that is to be one cluster is formed as ClusterFormation says: whatever fails
\* and is applied again, a second cluster is never founded, hosts join only one whose
\* server runs, and a host that is in it stays, though its k3s is installed again.
Formed == INSTANCE ClusterFormation WITH cluster <- IF OneK3sCluster THEN k3s ELSE [h \in Host |-> NoHost]

ClusterFormed == Formed!Spec

\* A marker that says k3s is on a host where k3s is installed: later applies skip
\* the installation on its word.
MarkerTellsTruth == \A h \in Host : marker[h] = "k3s" => k3s[h] # NoHost

\* A host initialized in one mode gets another only when the fleet file allows
\* it, or in a run that could not read its marker.
NoSilentSwitch ==
  [][\A h \in Host : marker[h] \notin {"none", "legacy", marker'[h]}
       => fleet.allow \/ h \in blind]_vars

\* A host is joined only when every declared peer port is open, though the init
\* of any host in the same run closes that host's.
JoinsBehindPeers ==
  [][\A h \in Host : k3s'[h] # k3s[h] /\ k3s'[h] # h => fleet.peers \subseteq open]_vars

\* A run does not restart the k3s of a node that was Ready when it began, unless
\* it could not read its marker or the node list, or the node went down by itself.
SparesSteady == \A h \in steady : node[h] = "Ready"

\* An apply of every host that reports success leaves every node in the list, all
\* peer ports open, and the allowlist on every host it had a turn on, except
\* those where an earlier run ended between the init and the allowlist.
WholeOnDone ==
  pc = "done" /\ sel = Host =>
    /\ open = fleet.peers
    /\ OneK3sCluster => Listed = Host
    /\ fleet.wall /\ fleet.hardening => InWaves \ torn \subseteq walled

\* What a full apply needs when nothing fails any more: a step of deploy_order
\* for every host, leave to switch modes, a first server that runs k3s or will
\* be given it, and for more servers, etcd on the first and its port declared.
MaySucceed ==
  /\ sel = Host /\ InWaves = Host /\ fleet.allow
  /\ OneK3sCluster => marker[FirstServer] \in {"none", "docker", "k3s"}
  /\ OneK3sCluster /\ (\E h \in Host \ {FirstServer} : K3sRoleOf(h) # "agent")
       => /\ marker[FirstServer] = "k3s" => FirstServer \in etcd
          /\ fleet.hardening => \A h \in Host \ {FirstServer} :
               K3sRoleOf(h) = "agent" \/ <<h, FirstServer>> \in fleet.peers

\* Wherever earlier runs ended, a full apply after the last failure reports success.
Converges ==
  (pc = "hosts" /\ left = 0 /\ (\A h \in Host : step[h] = "todo") /\ MaySucceed)
    ~> pc = "done"

\* docs/commands.md: "Idempotent: re-applying an unchanged fleet is a no-op."  After
\* a full apply that reported success, another one is not refused by any host.
ReapplyIsNoOp == [](pc = "done" /\ sel = Host => []~(\E h \in Host : step[h] = "failed"))

===============================================================================
