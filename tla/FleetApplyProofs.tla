--------------------------- MODULE FleetApplyProofs ---------------------------
(* Theorems about FleetApply, for any fleet files, faults and selections,    *)
(* and about CloudHosts, for any vendors, failures and rules.                *)
EXTENDS FleetApply, CloudHosts, FiniteSetTheorems, WellFoundedInduction, TLAPS

-------------------------------------------------------------------------------
(* What holds of the fleet file                                              *)

LEMMA Least ==
  ASSUME NEW S \in SUBSET Nat, S # {}
  PROVE  \E m \in S : \A n \in S : m <= n
<1>1. \E x \in S : \A y \in S : <<y, x>> \notin OpToRel(<, Nat)
  BY WFMin, NatLessThanWellFounded, Zenon
<1>2. PICK m \in S : \A y \in S : <<y, m>> \notin OpToRel(<, Nat)
  BY <1>1, Zenon
<1>3. \A n \in S : ~(n < m)
  BY <1>2 DEF OpToRel
<1>. QED
  BY <1>3

LEMMA FleetFacts ==
  ASSUME fleet \in Fleets
  PROVE  /\ fleet.order \in Seq(Host) /\ fleet.mode \in {"k3s", "docker", "bare"}
         /\ fleet.role \in [Host -> {"", "server", "agent"}]
         /\ fleet.peers \subseteq Host \X Host /\ fleet.ha \in BOOLEAN
         /\ \A h \in Host : \E i \in DOMAIN fleet.order : fleet.order[i] = h
         /\ (\E h \in Host : fleet.role[h] # "") => \E h \in Host : fleet.role[h] = "server"
  BY FleetAssumption DEF ValidFleet, FleetFile

LEMMA SeqFacts ==
  ASSUME NEW S, NEW s \in Seq(S)
  PROVE  /\ Len(s) \in Nat /\ DOMAIN s = 1 .. Len(s)
         /\ \A i \in 1 .. Len(s) : s[i] \in S
  OBVIOUS

LEMMA OrderFacts ==
  ASSUME fleet \in Fleets
  PROVE  /\ Len(fleet.order) \in Nat /\ DOMAIN fleet.order = 1 .. Len(fleet.order)
         /\ \A i \in 1 .. Len(fleet.order) : fleet.order[i] \in Host
<1>1. fleet.order \in Seq(Host)
  BY FleetFacts
<1>. QED
  BY <1>1, SeqFacts

\* Whatever is to be one cluster has a first server among its hosts.
LEMMA FirstServerInHost ==
  ASSUME fleet \in Fleets, OneK3sCluster
  PROVE  FirstServer \in Host
<1>1. CASE Servers # {}
  <2>. DEFINE At == {i \in DOMAIN fleet.order : fleet.order[i] \in Servers}
  <2>1. At \in SUBSET Nat /\ At # {}
    <3>1. PICK g \in Servers : TRUE
      BY <1>1
    <3>2. PICK i \in DOMAIN fleet.order : fleet.order[i] = g
      BY FleetFacts DEF Servers
    <3>3. DOMAIN fleet.order \subseteq Nat
      BY OrderFacts
    <3>. QED
      BY <3>1, <3>2, <3>3
  <2>2. PICK m \in At : \A n \in At : m <= n
    BY <2>1, Least
  <2>3. fleet.order[m] \in Servers
    OBVIOUS
  <2>4. \A g \in Servers \ {fleet.order[m]} : Before(fleet.order[m], g)
    <3>. SUFFICES ASSUME NEW g \in Servers \ {fleet.order[m]}
                  PROVE  Before(fleet.order[m], g)
      OBVIOUS
    <3>1. PICK j \in DOMAIN fleet.order : fleet.order[j] = g
      BY FleetFacts DEF Servers
    <3>2. j \in At /\ j # m /\ m \in Nat /\ j \in Nat
      BY <2>1, <3>1
    <3>3. m < j
      BY <2>2, <3>2
    <3>. QED
      BY <3>1, <3>3 DEF Before
  <2>5. \E h \in Servers : \A g \in Servers \ {h} : Before(h, g)
    BY <2>3, <2>4, Zenon
  <2>6. (CHOOSE h \in Servers : \A g \in Servers \ {h} : Before(h, g)) \in Servers
    BY <2>5, Zenon
  <2>. QED
    BY <1>1, <2>6 DEF FirstServer, Servers
<1>2. CASE Servers = {}
  <2>1. fleet.mode = "k3s" /\ fleet.ha
    BY <1>2, FleetFacts DEF Servers, OneK3sCluster, RolesDeclared
  <2>2. PICK h \in Host : TRUE
    BY FleetAssumption
  <2>3. PICK i \in DOMAIN fleet.order : fleet.order[i] = h
    BY FleetFacts
  <2>4. fleet.order[1] \in Host
    <3>1. i \in 1 .. Len(fleet.order) /\ Len(fleet.order) \in Nat
      BY OrderFacts
    <3>2. 1 \in 1 .. Len(fleet.order)
      BY <3>1
    <3>. QED
      BY <3>2, OrderFacts
  <2>. QED
    BY <1>2, <2>1, <2>4 DEF FirstServer
<1>. QED
  BY <1>1, <1>2

\* In one cluster only the first server is initialized with k3s.
LEMMA OnlyFirstBoots ==
  ASSUME fleet \in Fleets, OneK3sCluster, NEW h \in Host, InitMode(h) = "k3s"
  PROVE  h = FirstServer
<1>1. RolesDeclared => K3sRoleOf(h) # ""
  BY FleetFacts DEF K3sRoleOf
<1>. QED
  BY <1>1 DEF OneK3sCluster, InitMode, Boots

LEMMA InitModes ==
  ASSUME fleet \in Fleets, NEW h \in Host
  PROVE  /\ InitMode(h) \in {"k3s", "docker", "bare"}
         /\ InitMode(h) = "k3s" => fleet.mode = "k3s"
  BY FleetFacts DEF InitMode

LEMMA SameFleet ==
  ASSUME fleet' = fleet
  PROVE  /\ FirstServer' = FirstServer /\ OneK3sCluster' = OneK3sCluster
         /\ InWaves' = InWaves /\ \A h \in Host : InitMode(h)' = InitMode(h)
<1>1. Servers' = Servers /\ RolesDeclared' = RolesDeclared /\ InWaves' = InWaves
  BY DEF Servers, RolesDeclared, InWaves
<1>3. FirstServer' = FirstServer
  BY DEF FirstServer, Servers, Before
<1>4. OneK3sCluster' = OneK3sCluster
  BY <1>1 DEF OneK3sCluster
<1>5. \A h \in Host : InitMode(h)' = InitMode(h)
  BY <1>1, <1>3 DEF InitMode, Boots, K3sRoleOf
<1>. QED
  BY <1>1, <1>3, <1>4, <1>5

-------------------------------------------------------------------------------
(* The inductive invariant                                                   *)

\* The cluster phases are only for one cluster, whose first server is a host.
Clustering == pc \in {"token", "join", "await"} => OneK3sCluster

TypeInv == TypeOK /\ Clustering

\* A host about to be stamped as k3s runs it.
StampTrue == \A h \in Host : step[h] = "stamp" /\ InitMode(h) = "k3s" => k3s[h] # NoHost

Markers == MarkerTellsTruth /\ StampTrue

\* Only a host that may be initialized is past the probe.
MayInit == \A h \in Host : step[h] \in {"harden", "install", "stamp"} =>
             marker[h] \in {"none", "legacy"} \/ fleet.allow \/ h \in blind

\* The rules still to open are the only ones that may be closed.
PeersOpen ==
  /\ pc \in {"peers", "phases"} => fleet.peers \ rules \subseteq open
  /\ pc \in {"token", "join", "await", "done"} => fleet.peers \subseteq open

\* A node in a list runs k3s.
NodesRun == \A h \in Host : node[h] # "none" => k3s[h] # NoHost

\* What keeps the run away from the nodes it found Ready: their markers, and the
\* list of the server.
SteadyKept ==
  /\ SparesSteady
  /\ \A h \in steady : InitMode(h) = "k3s" =>
       marker[h] = "k3s" /\ step[h] \notin {"harden", "install"}
  /\ pc = "join" => steady \cap joins \subseteq ready

\* A marked host has its allowlist, unless its init ended before that.
Walls ==
  /\ \A h \in Host : step[h] \in {"install", "stamp", "late"} => h \in torn
  /\ fleet.wall /\ fleet.hardening =>
       \A h \in Host \ torn : marker[h] # "none" \/ step[h] = "ok" => h \in walled

\* The init of every selected host is over when the main goroutine goes on.
Waves ==
  /\ pc = "hosts" => \A h \in sel \cap InWaves : step[h] # "out"
  /\ pc \in {"peers", "token", "join", "await", "phases"} =>
       \A h \in sel \cap InWaves : step[h] = "ok"

\* After the wait for the fleet every node stays in the list.
Whole ==
  /\ pc \in {"phases", "done"} /\ OneK3sCluster /\ sel = Host => Listed = Host
  /\ pc = "done" /\ sel = Host /\ fleet.wall /\ fleet.hardening => InWaves \ torn \subseteq walled

-------------------------------------------------------------------------------
(* The types                                                                 *)

LEMMA HappensType ==
  ASSUME TypeOK, NEW kind, Happens(kind) \/ NothingHappens
  PROVE  left' \in 0 .. Budget
  BY FleetAssumption DEF TypeOK, Happens, NothingHappens

LEMMA ForgetsType ==
  ASSUME Forgets
  PROVE  /\ step' \in [Host -> {"todo"} \cup Initializing \cup Ended]
         /\ rules' = {} /\ ready' = {} /\ joins' = {} /\ blind' = {} /\ steady' = {}
  BY DEF Forgets, Ended

\* The types of the hosts and of the run, apart.
HostsOK ==
  /\ marker \in [Host -> {"none", "legacy", "k3s", "docker", "bare"}]
  /\ k3s \in [Host -> Host \cup {NoHost}] /\ etcd \subseteq {h \in Host : k3s[h] = h}
  /\ node \in [Host -> {"none", "NotReady", "Ready"}]
  /\ open \subseteq fleet.peers
  /\ config \subseteq Host /\ walled \subseteq Host

RunOK ==
  /\ sel \subseteq Host
  /\ pc \in {"idle", "hosts", "peers", "token", "join", "await", "phases", "done"}
  /\ step \in [Host -> {"todo"} \cup Initializing \cup Ended]
  /\ rules \subseteq fleet.peers
  /\ ready \subseteq Host /\ joins \subseteq Host

PastOK == /\ left \in 0 .. Budget /\ torn \subseteq Host
          /\ blind \subseteq Host /\ steady \subseteq Host

LEMMA TypeParts == TypeOK <=> fleet \in Fleets /\ HostsOK /\ RunOK /\ PastOK
  BY DEF TypeOK, HostsOK, RunOK, PastOK

LEMMA EndsType ==
  ASSUME EndsInError, fleet' = fleet
  PROVE  RunOK' /\ Clustering' /\ blind' = {} /\ steady' = {}
<1>1. pc' = "idle" /\ sel' = {}
  BY DEF EndsInError
<1>2. Forgets
  BY DEF EndsInError
<1>. QED
  BY <1>1, <1>2, ForgetsType DEF RunOK, Clustering

THEOREM TypeInit == Init => TypeInv
  BY FleetAssumption DEF Init, TypeInv, TypeOK, Clustering, Ended

\* One host moves to another step of its init.
LEMMA StepType ==
  ASSUME RunOK, NEW h \in Host, UNCHANGED <<fleet, pc, sel, rules, ready, joins>>,
         NEW s \in {"todo"} \cup Initializing \cup Ended, step' = [step EXCEPT ![h] = s]
  PROVE  RunOK'
  BY DEF RunOK

LEMMA BootedType ==
  ASSUME HostsOK, NEW h \in Host, Booted(h), UNCHANGED <<fleet, marker, config, open, walled>>
  PROVE  HostsOK'
  BY DEF HostsOK, Booted

LEMMA JoinedType ==
  ASSUME HostsOK, NEW h \in Host, FirstServer \in Host, Joined(h),
         UNCHANGED <<fleet, marker, config, open, walled>>
  PROVE  HostsOK'
  BY DEF HostsOK, Joined

LEMMA TypeStep == TypeInv /\ [Next]_vars => TypeInv'
<1>. SUFFICES ASSUME TypeInv, [Next]_vars
              PROVE  TypeInv'
  OBVIOUS
<1>. USE DEF TypeInv
<1>t. fleet \in Fleets /\ HostsOK /\ RunOK /\ PastOK
  BY TypeParts
<1>w. ASSUME UNCHANGED fleet, HostsOK', RunOK', PastOK', Clustering'
      PROVE  TypeInv'
  BY <1>t, <1>w DEF TypeOK, HostsOK, RunOK, PastOK
<1>c. ASSUME UNCHANGED fleet, pc' \in {pc, "idle", "hosts"}
      PROVE  Clustering'
  BY <1>c, SameFleet DEF Clustering
<1>h. ASSUME UNCHANGED <<fleet, hosts>> PROVE HostsOK'
  BY <1>h, <1>t DEF HostsOK, hosts
<1>p. ASSUME UNCHANGED past PROVE PastOK'
  BY <1>p, <1>t DEF PastOK, past
<1>1. ASSUME NEW chosen \in SUBSET Host, Start(chosen) PROVE TypeInv'
  <2>1. RunOK' /\ pc' = "hosts"
    BY <1>1, <1>t DEF Start, RunOK, Ended
  <2>2. PastOK'
    BY <1>1, <1>t DEF Start, PastOK
  <2>. QED
    BY <1>1, <1>w, <1>c, <1>h, <2>1, <2>2 DEF Start
<1>2. CASE Abort
  <2>. QED
    BY <1>2, <1>t, <1>w, <1>h, EndsType, HappensType DEF Abort, PastOK
<1>3. ASSUME NEW h \in Host, Launch(h) PROVE TypeInv'
  <2>1. RunOK'
    BY <1>3, <1>t, StepType DEF Launch, Initializing
  <2>2. HostsOK'
    BY <1>3, <1>t DEF Launch, HostsOK
  <2>3. PastOK'
    BY <1>3, <1>t, HappensType DEF Launch, PastOK
  <2>. QED
    BY <1>3, <1>w, <1>c, <2>1, <2>2, <2>3 DEF Launch
<1>4. ASSUME NEW h \in Host, Probe(h) PROVE TypeInv'
  <2>1. \A seen : Decision(seen) \in {"todo"} \cup Initializing \cup Ended
    BY DEF Decision, Initializing, Ended
  <2>2. \E s \in {"todo"} \cup Initializing \cup Ended : step' = [step EXCEPT ![h] = s]
    BY <1>4, <2>1 DEF Probe, Ended
  <2>3. RunOK'
    BY <1>4, <1>t, <2>2, StepType DEF Probe
  <2>4. PastOK'
    BY <1>4, <1>t, HappensType DEF Probe, PastOK
  <2>. QED
    BY <1>4, <1>w, <1>c, <1>h, <2>3, <2>4 DEF Probe
<1>5. ASSUME NEW h \in Host, Harden(h) PROVE TypeInv'
  <2>1. RunOK'
    BY <1>5, <1>t, StepType DEF Harden, Initializing
  <2>2. HostsOK'
    BY <1>5, <1>t DEF Harden, HostsOK
  <2>3. PastOK'
    BY <1>5, <1>t, HappensType DEF Harden, PastOK
  <2>. QED
    BY <1>5, <1>w, <1>c, <2>1, <2>2, <2>3 DEF Harden
<1>6. ASSUME NEW h \in Host, Install(h) PROVE TypeInv'
  <2>1. RunOK'
    BY <1>6, <1>t, StepType DEF Install, Initializing, Ended
  <2>2. HostsOK'
    BY <1>6, <1>t, BootedType DEF Install, HostsOK
  <2>3. PastOK'
    BY <1>6, <1>t, HappensType DEF Install, PastOK
  <2>. QED
    BY <1>6, <1>w, <1>c, <2>1, <2>2, <2>3 DEF Install
<1>7. ASSUME NEW h \in Host, Stamp(h) PROVE TypeInv'
  <2>1. RunOK'
    BY <1>7, <1>t, StepType DEF Stamp, Initializing
  <2>2. HostsOK'
    BY <1>7, <1>t, InitModes DEF Stamp, HostsOK
  <2>3. PastOK'
    BY <1>7, <1>t, HappensType DEF Stamp, PastOK
  <2>. QED
    BY <1>7, <1>w, <1>c, <2>1, <2>2, <2>3 DEF Stamp
<1>8. ASSUME NEW h \in Host, Late(h) PROVE TypeInv'
  <2>1. RunOK'
    BY <1>8, <1>t, StepType DEF Late, Ended
  <2>2. HostsOK'
    BY <1>8, <1>t DEF Late, HostsOK
  <2>3. PastOK'
    BY <1>8, <1>t, HappensType DEF Late, PastOK
  <2>. QED
    BY <1>8, <1>w, <1>c, <2>1, <2>2, <2>3 DEF Late
<1>9. CASE HostsFailed
  BY <1>9, <1>t, <1>w, <1>h, EndsType DEF HostsFailed, PastOK
<1>10. CASE HostsDone
  <2>1. RunOK' /\ pc' \in {"peers", "phases"}
    BY <1>10, <1>t DEF HostsDone, RunOK
  <2>. QED
    BY <1>10, <1>w, <1>h, <1>p, <2>1 DEF HostsDone, Clustering
<1>11. CASE OpenPeer
  <2>1. RunOK' /\ HostsOK'
    BY <1>11, <1>t DEF OpenPeer, RunOK, HostsOK
  <2>. QED
    BY <1>11, <1>w, <1>c, <1>p, <2>1 DEF OpenPeer
<1>12. CASE PeersDone
  <2>1. RunOK' /\ (pc' = "token" => OneK3sCluster) /\ pc' \in {"token", "phases"}
    BY <1>12, <1>t DEF PeersDone, RunOK
  <2>. QED
    BY <1>12, <1>w, <1>h, <1>p, <2>1, SameFleet DEF PeersDone, Clustering
<1>13. CASE NoToken
  BY <1>13, <1>t, <1>w, <1>h, EndsType DEF NoToken, PastOK
<1>14. CASE ReadServer
  <2>1. OneK3sCluster /\ FirstServer \in Host
    BY <1>14, <1>t, FirstServerInHost DEF ReadServer, Clustering
  <2>2. RunOK'
    BY <1>14, <1>t DEF ReadServer, RunOK, ReadyNodes
  <2>3. HostsOK'
    BY <1>14, <1>t, <2>1 DEF ReadServer, HostsOK
  <2>4. PastOK'
    BY <1>14, <1>t, HappensType DEF ReadServer, PastOK
  <2>. QED
    BY <1>14, <1>w, <2>1, <2>2, <2>3, <2>4, SameFleet DEF ReadServer, Clustering
<1>15. ASSUME NEW h \in Host, SkipJoin(h) PROVE TypeInv'
  <2>1. RunOK'
    BY <1>15, <1>t DEF SkipJoin, RunOK
  <2>. QED
    BY <1>15, <1>w, <1>c, <1>h, <1>p, <2>1 DEF SkipJoin
<1>16. ASSUME NEW h \in Host, Join(h) PROVE TypeInv'
  <2>1. FirstServer \in Host
    BY <1>16, <1>t, FirstServerInHost DEF Join, Clustering
  <2>2. RunOK'
    BY <1>16, <1>t DEF Join, RunOK
  <2>3. HostsOK'
    BY <1>16, <1>t, <2>1, JoinedType DEF Join
  <2>. QED
    BY <1>16, <1>w, <1>c, <1>p, <2>2, <2>3 DEF Join
<1>17. ASSUME NEW h \in Host, JoinFails(h) PROVE TypeInv'
  <2>1. FirstServer \in Host
    BY <1>17, <1>t, FirstServerInHost DEF JoinFails, Clustering
  <2>2. HostsOK'
    BY <1>17, <1>t, <2>1, JoinedType DEF JoinFails, HostsOK
  <2>3. PastOK'
    BY <1>17, <1>t, EndsType, HappensType DEF JoinFails, PastOK
  <2>. QED
    BY <1>17, <1>w, <2>2, <2>3, EndsType DEF JoinFails
<1>18. CASE JoinsDone
  <2>1. RunOK' /\ OneK3sCluster
    BY <1>18, <1>t DEF JoinsDone, RunOK, run, Clustering
  <2>. QED
    BY <1>18, <1>w, <1>h, <1>p, <2>1, SameFleet DEF JoinsDone, Clustering
<1>19. CASE AwaitFleet
  <2>1. RunOK' /\ pc' = "phases"
    BY <1>19, <1>t DEF AwaitFleet, RunOK, run
  <2>. QED
    BY <1>19, <1>w, <1>h, <1>p, <2>1 DEF AwaitFleet, Clustering
<1>20. CASE FleetIncomplete
  BY <1>20, <1>t, <1>w, <1>h, EndsType, HappensType DEF FleetIncomplete, PastOK
<1>21. CASE PhasesDone
  <2>1. RunOK' /\ pc' = "done"
    BY <1>21, <1>t, ForgetsType DEF PhasesDone, RunOK
  <2>2. PastOK'
    BY <1>21, <1>t, ForgetsType DEF PhasesDone, PastOK
  <2>. QED
    BY <1>21, <1>w, <1>h, <2>1, <2>2 DEF PhasesDone, Clustering
<1>22. ASSUME NEW h \in Host, Register(h) \/ Recover(h) PROVE TypeInv'
  <2>1. HostsOK'
    BY <1>22, <1>t DEF Register, Recover, HostsOK
  <2>2. RunOK'
    BY <1>22, <1>t DEF Register, Recover, RunOK, run
  <2>. QED
    BY <1>22, <1>w, <1>c, <1>p, <2>1, <2>2 DEF Register, Recover
<1>23. ASSUME NEW h \in Host, GoDown(h) PROVE TypeInv'
  <2>1. HostsOK'
    BY <1>23, <1>t DEF GoDown, HostsOK
  <2>2. RunOK'
    BY <1>23, <1>t DEF GoDown, RunOK, run
  <2>3. PastOK'
    BY <1>23, <1>t, HappensType DEF GoDown, PastOK
  <2>. QED
    BY <1>23, <1>w, <1>c, <2>1, <2>2, <2>3 DEF GoDown
<1>24. CASE UNCHANGED vars
  <2>1. RunOK' /\ PastOK' /\ HostsOK'
    BY <1>24, <1>t, <1>h, <1>p DEF vars, RunOK, run
  <2>. QED
    BY <1>24, <1>w, <1>c, <2>1 DEF vars
<1>. QED
  BY <1>1, <1>2, <1>3, <1>4, <1>5, <1>6, <1>7, <1>8, <1>9, <1>10, <1>11, <1>12,
     <1>13, <1>14, <1>15, <1>16, <1>17, <1>18, <1>19, <1>20, <1>21, <1>22, <1>23, <1>24
     DEF Next, Apply, ProvisionHost, Cluster

\* The state of a fleet apply stays well-formed, and the cluster phases are
\* entered only with a first server among the hosts.
THEOREM TypeCorrect == Spec => [](TypeOK /\ Clustering)
BY TypeInit, TypeStep, PTL DEF Spec, TypeInv

-------------------------------------------------------------------------------
(* What changes what                                                         *)

LEMMA FleetKept ==
  ASSUME [Next]_vars PROVE fleet' = fleet
  BY DEF Next, vars, Start, Abort, Apply, Cluster, ProvisionHost, Launch, Probe, Harden,
     Install, Stamp, Late, HostsFailed, HostsDone, OpenPeer, PeersDone, NoToken, ReadServer,
     SkipJoin, Join, JoinFails, JoinsDone, AwaitFleet, FleetIncomplete, PhasesDone,
     Register, Recover, GoDown

LEMMA K3sChanges ==
  ASSUME [Next]_vars
  PROVE  \/ k3s' = k3s
         \/ \E h \in Host : Install(h) /\ InitMode(h) = "k3s" /\ Booted(h)
         \/ \E h \in Host : (Join(h) \/ JoinFails(h)) /\ Joined(h)
  BY DEF Next, vars, hosts, Start, Abort, Apply, Cluster, ProvisionHost, Launch, Probe, Harden,
     Install, Stamp, Late, HostsFailed, HostsDone, OpenPeer, PeersDone, NoToken, ReadServer,
     SkipJoin, Join, JoinFails, JoinsDone, AwaitFleet, FleetIncomplete, PhasesDone,
     Register, Recover, GoDown

LEMMA MarkerChanges ==
  ASSUME [Next]_vars
  PROVE  \/ marker' = marker
         \/ \E h \in Host : Stamp(h) /\ marker' = [marker EXCEPT ![h] = InitMode(h)]
  BY DEF Next, vars, hosts, Start, Abort, Apply, Cluster, ProvisionHost, Launch, Probe, Harden,
     Install, Stamp, Late, HostsFailed, HostsDone, OpenPeer, PeersDone, NoToken, ReadServer,
     SkipJoin, Join, JoinFails, JoinsDone, AwaitFleet, FleetIncomplete, PhasesDone,
     Register, Recover, GoDown

\* A step of a host's init, the end of the run, or a start changes step.
LEMMA StepChanges ==
  ASSUME [Next]_vars
  PROVE  \/ step' = step /\ blind' = blind
         \/ \E chosen \in SUBSET Host : Start(chosen)
         \/ Forgets
         \/ \E h \in Host : ProvisionHost(h)
  BY DEF Next, vars, hosts, past, run, Start, Abort, Apply, Cluster, HostsFailed, HostsDone,
     OpenPeer, PeersDone, NoToken, ReadServer, SkipJoin, Join, JoinFails, JoinsDone,
     AwaitFleet, FleetIncomplete, PhasesDone, EndsInError, Register, Recover, GoDown

LEMMA OpenChanges ==
  ASSUME [Next]_vars
  PROVE  \/ open' = open
         \/ OpenPeer
         \/ \E h \in Host : Harden(h)
  BY DEF Next, vars, hosts, Start, Abort, Apply, Cluster, ProvisionHost, Launch, Probe, Harden,
     Install, Stamp, Late, HostsFailed, HostsDone, OpenPeer, PeersDone, NoToken, ReadServer,
     SkipJoin, Join, JoinFails, JoinsDone, AwaitFleet, FleetIncomplete, PhasesDone,
     Register, Recover, GoDown

-------------------------------------------------------------------------------
(* One cluster, and what the markers say                                     *)

\* A boot gives the host a k3s of its own, a join one of the first server.
LEMMA K3sAfter ==
  ASSUME TypeInv, NEW h \in Host
  PROVE  /\ Booted(h) => k3s' = [k3s EXCEPT ![h] = h] /\ node' = [node EXCEPT ![h] = "NotReady"]
         /\ Joined(h) => k3s' = [k3s EXCEPT ![h] = FirstServer]
  BY DEF Booted, Joined

LEMMA Joining ==
  ASSUME TypeInv, NEW h \in Host, Join(h) \/ JoinFails(h)
  PROVE  OneK3sCluster /\ FirstServer \in Host /\ h \in joins
  BY FirstServerInHost DEF TypeInv, TypeOK, Clustering, Join, JoinFails, NextToJoin

LEMMA ClusterStep ==
  ASSUME TypeInv, OneCluster, [Next]_vars
  PROVE  OneCluster'
<1>. SUFFICES ASSUME OneK3sCluster, NEW g \in Host
              PROVE  k3s'[g] \in {NoHost, FirstServer}
  BY FleetKept, SameFleet DEF OneCluster
<1>. USE DEF TypeInv, TypeOK, OneCluster
<1>1. CASE k3s' = k3s
  BY <1>1
<1>2. ASSUME NEW h \in Host, InitMode(h) = "k3s", Booted(h)
      PROVE  k3s'[g] \in {NoHost, FirstServer}
  <2>1. h = FirstServer
    BY <1>2, OnlyFirstBoots
  <2>. QED
    BY <1>2, <2>1, K3sAfter
<1>3. ASSUME NEW h \in Host, Joined(h)
      PROVE  k3s'[g] \in {NoHost, FirstServer}
  BY <1>3, K3sAfter
<1>. QED
  BY <1>1, <1>2, <1>3, K3sChanges

\* No step takes k3s off a host.
LEMMA K3sStays ==
  ASSUME TypeInv, [Next]_vars, NEW g \in Host, k3s[g] # NoHost
  PROVE  k3s'[g] # NoHost
<1>. USE DEF TypeInv, TypeOK
<1>1. CASE k3s' = k3s
  BY <1>1
<1>2. ASSUME NEW h \in Host, Booted(h) PROVE k3s'[g] # NoHost
  BY <1>2, K3sAfter, FleetAssumption
<1>3. ASSUME NEW h \in Host, Join(h) \/ JoinFails(h), Joined(h) PROVE k3s'[g] # NoHost
  BY <1>3, K3sAfter, Joining, FleetAssumption
<1>. QED
  BY <1>1, <1>2, <1>3, K3sChanges

LEMMA StampTrueStep ==
  ASSUME TypeInv, Markers, [Next]_vars
  PROVE  StampTrue'
<1>. SUFFICES ASSUME NEW g \in Host, step'[g] = "stamp", InitMode(g) = "k3s"
              PROVE  k3s'[g] # NoHost
  BY FleetKept, SameFleet DEF StampTrue
<1>. USE DEF TypeInv, TypeOK
<1>1. CASE step[g] = "stamp"
  BY <1>1, K3sStays DEF Markers, StampTrue
<1>2. CASE step[g] # "stamp"
  <2>1. ~Forgets /\ \A chosen \in SUBSET Host : ~Start(chosen)
    BY DEF Forgets, Start
  <2>2. PICK h \in Host : ProvisionHost(h)
    BY <1>2, <2>1, StepChanges
  <2>3. Install(h) /\ h = g
    BY <1>2, <2>2 DEF ProvisionHost, Launch, Probe, Decision, Harden, Install, Stamp, Late
  <2>4. Booted(g)
    BY <2>3 DEF Install
  <2>. QED
    BY <2>4, K3sAfter, FleetAssumption
<1>. QED
  BY <1>1, <1>2

LEMMA MarkersStep ==
  ASSUME TypeInv, Markers, [Next]_vars
  PROVE  Markers'
<1>1. MarkerTellsTruth'
  <2>. SUFFICES ASSUME NEW g \in Host, marker'[g] = "k3s"
                PROVE  k3s'[g] # NoHost
    BY DEF MarkerTellsTruth
  <2>1. CASE marker[g] = "k3s"
    BY <2>1, K3sStays DEF Markers, MarkerTellsTruth
  <2>2. CASE marker[g] # "k3s"
    <3>1. PICK h \in Host : Stamp(h) /\ marker' = [marker EXCEPT ![h] = InitMode(h)]
      BY <2>2, MarkerChanges
    <3>2. g = h /\ InitMode(g) = "k3s" /\ step[g] = "stamp"
      BY <2>2, <3>1 DEF TypeInv, TypeOK, Stamp
    <3>. QED
      BY <3>2, K3sStays DEF Markers, StampTrue
  <2>. QED
    BY <2>1, <2>2
<1>. QED
  BY <1>1, StampTrueStep DEF Markers

\* A fleet that is to be one cluster is never split.
THEOREM OneClusterAlways == Spec => []OneCluster
<1>1. Init => OneCluster
  BY DEF Init, OneCluster
<1>. QED
  BY <1>1, TypeInit, TypeStep, ClusterStep, PTL DEF Spec

\* The marker of a host says k3s only when k3s is installed there.
THEOREM MarkerAlwaysTrue == Spec => []MarkerTellsTruth
<1>1. Init => Markers
  BY DEF Init, Markers, MarkerTellsTruth, StampTrue
<1>2. Markers => MarkerTellsTruth
  BY DEF Markers
<1>. QED
  BY <1>1, <1>2, TypeInit, TypeStep, MarkersStep, PTL DEF Spec

LEMMA MayInitStep ==
  ASSUME TypeInv, MayInit, [Next]_vars
  PROVE  MayInit'
<1>. SUFFICES ASSUME NEW g \in Host, step'[g] \in {"harden", "install", "stamp"}
              PROVE  marker'[g] \in {"none", "legacy"} \/ fleet.allow \/ g \in blind'
  BY FleetKept DEF MayInit
<1>. USE DEF TypeInv, TypeOK
<1>1. ~Forgets /\ \A chosen \in SUBSET Host : ~Start(chosen)
  BY DEF Forgets, Start
<1>2. CASE step' = step /\ blind' = blind
  <2>1. marker' = marker \/ \E h \in Host : Stamp(h)
    BY MarkerChanges
  <2>2. ~\E h \in Host : Stamp(h)
    BY <1>2 DEF Stamp
  <2>. QED
    BY <1>2, <2>1, <2>2 DEF MayInit
<1>3. ASSUME NEW h \in Host, ProvisionHost(h)
      PROVE  marker'[g] \in {"none", "legacy"} \/ fleet.allow \/ g \in blind'
  <2>1. CASE h = g
    <3>1. CASE Probe(g)
      BY <3>1 DEF Probe, Decision, hosts
    <3>2. CASE Harden(g) \/ Install(g)
      BY <3>2 DEF Harden, Install, MayInit
    <3>3. ~Launch(g) /\ ~Stamp(g) /\ ~Late(g)
      BY DEF Launch, Stamp, Late
    <3>. QED
      BY <1>3, <2>1, <3>1, <3>2, <3>3 DEF ProvisionHost
  <2>2. CASE h # g
    <3>1. step'[g] = step[g] /\ blind \subseteq blind'
      BY <1>3, <2>2 DEF ProvisionHost, Launch, Probe, Harden, Install, Stamp, Late
    <3>2. marker'[g] = marker[g]
      BY <1>3, <2>2 DEF ProvisionHost, Launch, Probe, Harden, Install, Stamp, Late, hosts
    <3>. QED
      BY <3>1, <3>2 DEF MayInit
  <2>. QED
    BY <2>1, <2>2
<1>. QED
  BY <1>1, <1>2, <1>3, StepChanges

\* A host that was initialized in one mode is stamped with another only if the
\* fleet file allows it or its marker could not be read.
THEOREM SwitchOnlyWhenAllowed == Spec => NoSilentSwitch
<1>1. Init => MayInit
  BY DEF Init, MayInit
<1>2. TypeInv /\ MayInit /\ [Next]_vars =>
        [\A h \in Host : marker[h] \notin {"none", "legacy", marker'[h]}
           => fleet.allow \/ h \in blind]_vars
  <2>. SUFFICES ASSUME TypeInv, MayInit, [Next]_vars, NEW g \in Host,
                       marker[g] \notin {"none", "legacy", marker'[g]}
                PROVE  fleet.allow \/ g \in blind
    OBVIOUS
  <2>1. PICK h \in Host : Stamp(h) /\ marker' = [marker EXCEPT ![h] = InitMode(h)]
    BY MarkerChanges
  <2>2. h = g
    BY <2>1 DEF TypeInv, TypeOK
  <2>. QED
    BY <2>1, <2>2 DEF Stamp, MayInit
<1>. QED
  BY <1>1, <1>2, TypeInit, TypeStep, MayInitStep, PTL DEF Spec, NoSilentSwitch

-------------------------------------------------------------------------------
(* The peers are open before a join                                          *)

LEMMA PeersOpenStep ==
  ASSUME TypeInv, PeersOpen, [Next]_vars
  PROVE  PeersOpen'
<1>. USE DEF TypeInv, TypeOK, PeersOpen
<1>f. fleet' = fleet
  BY FleetKept
<1>1. CASE OpenPeer
  BY <1>1 DEF OpenPeer
<1>2. ASSUME NEW h \in Host, Harden(h) PROVE PeersOpen'
  BY <1>2 DEF Harden
<1>3. CASE HostsDone
  BY <1>3 DEF HostsDone, hosts
<1>4. CASE PeersDone
  BY <1>4 DEF PeersDone, hosts
<1>5. CASE PhasesDone
  BY <1>5 DEF PhasesDone, hosts
<1>6. CASE pc' \in {"idle", "hosts"}
  BY <1>6
<1>7. CASE open' = open /\ UNCHANGED rules /\ pc' \in {pc, "join", "await", "phases"}
           /\ (pc' # pc => pc \in {"token", "join", "await"})
  BY <1>7, <1>f
<1>8. ASSUME ~OpenPeer, ~HostsDone, ~PeersDone, ~PhasesDone, pc' \notin {"idle", "hosts"}
      PROVE  /\ UNCHANGED rules /\ pc' \in {pc, "join", "await", "phases"}
             /\ pc' # pc => pc \in {"token", "join", "await"}
  BY <1>8 DEF Next, vars, run, Start, Abort, Apply, Cluster, ProvisionHost, Launch, Probe, Harden,
     Install, Stamp, Late, HostsFailed, NoToken, ReadServer, SkipJoin, Join, JoinFails, JoinsDone,
     AwaitFleet, FleetIncomplete, EndsInError, Register, Recover, GoDown
<1>. QED
  BY <1>1, <1>2, <1>3, <1>4, <1>5, <1>6, <1>7, <1>8, OpenChanges

\* A host joins the first server only when every declared peer port is open.
THEOREM JoinsAlwaysBehindPeers == Spec => JoinsBehindPeers
<1>1. Init => PeersOpen
  BY DEF Init, PeersOpen
<1>2. TypeInv /\ PeersOpen /\ [Next]_vars =>
        [\A h \in Host : k3s'[h] # k3s[h] /\ k3s'[h] # h => fleet.peers \subseteq open]_vars
  <2>. SUFFICES ASSUME TypeInv, PeersOpen, [Next]_vars,
                       NEW g \in Host, k3s'[g] # k3s[g], k3s'[g] # g
                PROVE  fleet.peers \subseteq open
    OBVIOUS
  <2>1. ASSUME NEW h \in Host, Booted(h) PROVE FALSE
    BY <2>1, K3sAfter DEF TypeInv, TypeOK
  <2>2. PICK h \in Host : Join(h) \/ JoinFails(h)
    BY <2>1, K3sChanges
  <2>. QED
    BY <2>2 DEF Join, JoinFails, PeersOpen
<1>. QED
  BY <1>1, <1>2, TypeInit, TypeStep, PeersOpenStep, PTL DEF Spec, JoinsBehindPeers

-------------------------------------------------------------------------------
(* Nodes found Ready are left alone                                          *)

LEMMA NodesRunStep ==
  ASSUME TypeInv, NodesRun, [Next]_vars
  PROVE  NodesRun'
<1>. SUFFICES ASSUME NEW g \in Host, k3s'[g] = NoHost
              PROVE  node'[g] = "none"
  BY DEF NodesRun
<1>. USE DEF TypeInv, TypeOK
<1>1. k3s[g] = NoHost /\ node[g] = "none"
  BY K3sStays DEF NodesRun
<1>2. ASSUME NEW h \in Host, Booted(h) \/ Joined(h) PROVE node'[g] = "none"
  <2>1. h # g \/ Joined(g)
    BY <1>2, K3sAfter, FleetAssumption
  <2>. QED
    BY <1>1, <1>2, <2>1 DEF Booted, Joined
<1>3. ASSUME NEW h \in Host, Register(h) \/ Recover(h) \/ GoDown(h) PROVE node'[g] = "none"
  BY <1>1, <1>3 DEF Register, Recover, GoDown
<1>4. ASSUME node' # node
      PROVE  \E h \in Host : Booted(h) \/ Joined(h) \/ Register(h) \/ Recover(h) \/ GoDown(h)
  BY <1>4 DEF Next, vars, hosts, Start, Abort, Apply, Cluster, ProvisionHost, Launch, Probe, Harden,
     Install, Stamp, Late, HostsFailed, HostsDone, OpenPeer, PeersDone, NoToken, ReadServer,
     SkipJoin, Join, JoinFails, JoinsDone, AwaitFleet, FleetIncomplete, PhasesDone
<1>. QED
  BY <1>1, <1>2, <1>3, <1>4

\* What SteadyKept says of one host.
Spared(g) ==
  /\ node[g] = "Ready"
  /\ InitMode(g) = "k3s" => marker[g] = "k3s" /\ step[g] \notin {"harden", "install"}
  /\ pc = "join" /\ g \in joins => g \in ready

LEMMA SparedAll ==
  ASSUME TypeInv
  PROVE  SteadyKept <=> \A g \in steady : Spared(g)
  BY DEF TypeInv, TypeOK, SteadyKept, SparesSteady, Spared

LEMMA SteadyStep ==
  ASSUME TypeInv, OneCluster, NodesRun, SteadyKept, [Next]_vars, NEW g \in steady'
  PROVE  Spared(g)'
<1>. USE DEF TypeInv, TypeOK
<1>f. fleet' = fleet /\ FirstServer' = FirstServer /\ g \in Host /\ InitMode(g)' = InitMode(g)
  <2>1. TypeInv' /\ fleet' = fleet
    BY TypeStep, FleetKept
  <2>. QED
    BY <2>1, SameFleet
<1>s. g \in steady => Spared(g)
  BY SparedAll
<1>e. steady' # {}
  OBVIOUS
<1>1. ASSUME NEW chosen \in SUBSET Host, Start(chosen) PROVE Spared(g)'
  <2>1. pc' = "hosts" /\ node' = node /\ marker' = marker /\ step'[g] \in {"todo", "out"}
    BY <1>1, <1>f DEF Start, hosts
  <2>2. node[g] = "Ready" /\ (InitMode(g) = "k3s" => marker[g] = "k3s")
    BY <1>1 DEF Start
  <2>. QED
    BY <1>f, <2>1, <2>2 DEF Spared
<1>2. ASSUME NEW h \in Host, Launch(h) \/ Harden(h) \/ Late(h) PROVE Spared(g)'
  <2>1. g \in steady /\ pc' = "hosts" /\ node' = node /\ marker' = marker
    BY <1>2 DEF Launch, Harden, Late
  <2>2. step'[g] \in {"harden", "install"} => step[g] \in {"harden", "install"}
    BY <1>2 DEF Launch, Harden, Late
  <2>. QED
    BY <1>f, <1>s, <2>1, <2>2 DEF Spared
<1>3. ASSUME NEW h \in Host, Probe(h) PROVE Spared(g)'
  <2>1. g \in steady /\ pc' = "hosts" /\ node' = node /\ marker' = marker
    BY <1>3 DEF Probe, hosts
  <2>2. InitMode(g) = "k3s" => Decision(marker[g]) = "ok"
    BY <1>s, <2>1, <1>f, InitModes DEF Spared, Decision
  <2>3. InitMode(g) = "k3s" /\ step'[g] \in {"harden", "install"} => step[g] \in {"harden", "install"}
    BY <1>3, <2>2 DEF Probe
  <2>. QED
    BY <1>f, <1>s, <2>1, <2>3 DEF Spared
<1>4. ASSUME NEW h \in Host, Install(h) PROVE Spared(g)'
  <2>1. g \in steady /\ pc' = "hosts" /\ marker' = marker
    BY <1>4 DEF Install
  <2>2. step'[g] \in {"harden", "install"} => step[g] \in {"harden", "install"}
    BY <1>4 DEF Install
  <2>3. node'[g] = node[g]
    BY <1>4, <1>s, <2>1 DEF Install, Booted, Spared
  <2>. QED
    BY <1>f, <1>s, <2>1, <2>2, <2>3 DEF Spared
<1>5. ASSUME NEW h \in Host, Stamp(h) PROVE Spared(g)'
  <2>1. g \in steady /\ pc' = "hosts" /\ node' = node
    BY <1>5 DEF Stamp
  <2>2. marker'[g] \in {marker[g], InitMode(g)}
    BY <1>5, <1>f DEF Stamp
  <2>3. step'[g] \in {"harden", "install"} => step[g] \in {"harden", "install"}
    BY <1>5 DEF Stamp
  <2>. QED
    BY <1>f, <1>s, <2>1, <2>2, <2>3 DEF Spared
<1>6. ~Abort /\ ~HostsFailed /\ ~NoToken /\ ~FleetIncomplete /\ ~PhasesDone
  BY <1>e DEF Abort, HostsFailed, NoToken, FleetIncomplete, PhasesDone, EndsInError, Forgets
<1>7. ASSUME NEW h \in Host PROVE ~JoinFails(h)
  BY <1>e DEF JoinFails, EndsInError, Forgets
<1>8. CASE HostsDone \/ OpenPeer \/ PeersDone \/ JoinsDone \/ AwaitFleet
  <2>1. g \in steady /\ node' = node /\ marker' = marker /\ step' = step /\ pc' # "join"
    BY <1>8 DEF HostsDone, OpenPeer, PeersDone, JoinsDone, AwaitFleet, hosts, past, run
  <2>. QED
    BY <1>f, <1>s, <2>1 DEF Spared
<1>9. CASE ReadServer
  <2>1. g \in steady /\ node' = node /\ marker' = marker /\ step' = step
    BY <1>9 DEF ReadServer
  <2>2. g \in joins' => g \in ready'
    <3>. SUFFICES ASSUME g \in joins' PROVE g \in ready'
      OBVIOUS
    <3>1. g # FirstServer
      BY <1>9 DEF ReadServer
    <3>2. node[g] = "Ready"
      BY <1>s, <2>1 DEF Spared
    <3>3. k3s[g] = FirstServer
      BY <1>9, <1>f, <3>1, <3>2 DEF ReadServer, NodesRun, OneCluster, Clustering
    <3>4. g \in ReadyNodes
      BY <1>f, <3>2, <3>3 DEF ReadyNodes
    <3>. QED
      BY <1>9, <3>1, <3>4 DEF ReadServer
  <2>. QED
    BY <1>f, <1>s, <2>1, <2>2 DEF Spared
<1>10. ASSUME NEW h \in Host, SkipJoin(h) PROVE Spared(g)'
  BY <1>10, <1>f, <1>s DEF SkipJoin, hosts, past, Spared
<1>11. ASSUME NEW h \in Host, Join(h) PROVE Spared(g)'
  <2>1. g \in steady /\ marker' = marker /\ step' = step /\ ready' = ready /\ joins' \subseteq joins
        /\ pc = "join" /\ h \in joins \ ready
    BY <1>11 DEF Join, NextToJoin, Skips, past
  <2>2. node'[g] = node[g]
    BY <1>11, <1>s, <2>1 DEF Join, Joined, Spared
  <2>. QED
    BY <1>f, <1>s, <2>1, <2>2 DEF Spared
<1>12. ASSUME NEW h \in Host, Register(h) \/ Recover(h) \/ GoDown(h) PROVE Spared(g)'
  <2>1. g \in steady /\ marker' = marker /\ UNCHANGED <<pc, step, ready, joins>>
    BY <1>12 DEF Register, Recover, GoDown, past, run
  <2>2. node'[g] = "Ready"
    BY <1>12, <1>s, <2>1 DEF Register, Recover, GoDown, Spared
  <2>. QED
    BY <1>f, <1>s, <2>1, <2>2 DEF Spared
<1>13. CASE UNCHANGED vars
  BY <1>13, <1>f, <1>s DEF vars, hosts, run, past, Spared
<1>. QED
  BY <1>1, <1>2, <1>3, <1>4, <1>5, <1>6, <1>7, <1>8, <1>9, <1>10, <1>11, <1>12, <1>13
     DEF Next, Apply, ProvisionHost, Cluster

\* A node that was Ready when the run began is not restarted by it, while the
\* run can read its marker and the node list and the node stays up.
THEOREM SteadySpared == Spec => []SparesSteady
<1>1. Init => TypeInv /\ OneCluster /\ NodesRun /\ SteadyKept
  <2>1. Init => OneCluster /\ NodesRun /\ SteadyKept
    BY DEF Init, OneCluster, NodesRun, SteadyKept, SparesSteady
  <2>. QED
    BY <2>1, TypeInit
<1>2. TypeInv /\ OneCluster /\ NodesRun /\ SteadyKept /\ [Next]_vars
        => (TypeInv /\ OneCluster /\ NodesRun /\ SteadyKept)'
  <2>. SUFFICES ASSUME TypeInv, OneCluster, NodesRun, SteadyKept, [Next]_vars
                PROVE  (TypeInv /\ OneCluster /\ NodesRun /\ SteadyKept)'
    OBVIOUS
  <2>1. TypeInv' /\ OneCluster' /\ NodesRun'
    BY TypeStep, ClusterStep, NodesRunStep
  <2>2. \A g \in steady' : Spared(g)'
    BY SteadyStep
  <2>3. SteadyKept'
    BY <2>1, <2>2 DEF TypeInv, TypeOK, SteadyKept, SparesSteady, Spared
  <2>. QED
    BY <2>1, <2>3
<1>3. SteadyKept => SparesSteady
  BY DEF SteadyKept
<1>. QED
  BY <1>1, <1>2, <1>3, PTL DEF Spec

-------------------------------------------------------------------------------
(* The cluster is formed as ClusterFormation says                            *)

\* Whoever runs k3s in one cluster runs it for a first server that does, and nobody
\* is joined before.
Headed ==
  OneK3sCluster =>
    /\ pc = "join" => k3s[FirstServer] = FirstServer
    /\ \A h \in Host : k3s[h] # NoHost => k3s[FirstServer] = FirstServer

LEMMA JoinsHeaded ==
  ASSUME TypeInv, OneCluster, [Next]_vars, OneK3sCluster, k3s[FirstServer] = FirstServer
  PROVE  k3s'[FirstServer] = FirstServer
<1>1. FirstServer \in Host /\ FirstServer # NoHost
  BY FirstServerInHost, FleetAssumption DEF TypeInv, TypeOK
<1>2. k3s'[FirstServer] # NoHost
  BY <1>1, K3sStays
<1>3. OneCluster' /\ OneK3sCluster' /\ FirstServer' = FirstServer
  BY ClusterStep, FleetKept, SameFleet
<1>. QED
  BY <1>1, <1>2, <1>3 DEF OneCluster

LEMMA HeadedStep ==
  ASSUME TypeInv, OneCluster, Headed, [Next]_vars
  PROVE  Headed'
<1>. SUFFICES ASSUME OneK3sCluster
              PROVE  /\ pc' = "join" => k3s'[FirstServer] = FirstServer
                     /\ \A h \in Host : k3s'[h] # NoHost => k3s'[FirstServer] = FirstServer
  BY FleetKept, SameFleet DEF Headed
<1>. USE DEF TypeInv, TypeOK
<1>0. FirstServer \in Host
  BY FirstServerInHost
<1>1. CASE k3s[FirstServer] = FirstServer
  BY <1>1, JoinsHeaded
<1>2. CASE k3s[FirstServer] # FirstServer
  <2>1. pc # "join" /\ \A h \in Host : k3s[h] = NoHost
    BY <1>2 DEF Headed
  <2>2. pc' # "join"
    <3>1. ~ReadServer
      BY <1>2 DEF ReadServer
    <3>. QED
      BY <2>1, <3>1 DEF Next, vars, Start, Abort, Apply, Cluster, ProvisionHost, Launch, Probe, Harden,
        Install, Stamp, Late, HostsFailed, HostsDone, OpenPeer, PeersDone, NoToken, EndsInError,
        SkipJoin, Join, JoinFails, JoinsDone, AwaitFleet, FleetIncomplete, PhasesDone,
        Register, Recover, GoDown
  <2>3. ASSUME NEW h \in Host, k3s'[h] # NoHost PROVE k3s'[FirstServer] = FirstServer
    <3>1. PICK g \in Host : Install(g) /\ InitMode(g) = "k3s" /\ Booted(g)
      BY <2>1, <2>3, K3sChanges DEF Join, JoinFails
    <3>2. g = FirstServer
      BY <3>1, OnlyFirstBoots
    <3>. QED
      BY <1>0, <3>1, <3>2, K3sAfter
  <2>. QED
    BY <2>2, <2>3
<1>. QED
  BY <1>1, <1>2

\* Every step of an apply founds the cluster, joins a host to it, or leaves it as it is.
LEMMA FormedStep ==
  ASSUME TypeInv, OneCluster, Headed, OneK3sCluster, [Next]_vars
  PROVE  k3s' = k3s \/ \E h \in Host :
           \/ k3s = [g \in Host |-> NoHost] /\ k3s' = [k3s EXCEPT ![h] = h]
           \/ \E g \in Host : k3s[g] = g /\ k3s[h] = NoHost /\ k3s' = [k3s EXCEPT ![h] = g]
<1>. USE DEF TypeInv, TypeOK
<1>0. FirstServer \in Host
  BY FirstServerInHost
<1>1. ASSUME NEW h \in Host, Install(h), InitMode(h) = "k3s", Booted(h)
      PROVE  k3s' = k3s \/ (k3s = [g \in Host |-> NoHost] /\ k3s' = [k3s EXCEPT ![h] = h])
  <2>1. h = FirstServer /\ k3s' = [k3s EXCEPT ![h] = h]
    BY <1>1, OnlyFirstBoots, K3sAfter
  <2>2. CASE k3s[h] = h
    BY <2>1, <2>2
  <2>3. CASE k3s[h] # h
    BY <2>1, <2>3 DEF Headed
  <2>. QED
    BY <2>2, <2>3
<1>2. ASSUME NEW h \in Host, Join(h) \/ JoinFails(h), Joined(h)
      PROVE  k3s' = k3s \/ (k3s[FirstServer] = FirstServer /\ k3s[h] = NoHost
                            /\ k3s' = [k3s EXCEPT ![h] = FirstServer])
  <2>1. k3s' = [k3s EXCEPT ![h] = FirstServer] /\ k3s[FirstServer] = FirstServer
    BY <1>2, K3sAfter DEF Join, JoinFails, Headed
  <2>2. k3s[h] \in {NoHost, FirstServer}
    BY DEF OneCluster
  <2>. QED
    BY <2>1, <2>2
<1>. QED
  BY <1>0, <1>1, <1>2, K3sChanges

\* FleetApply implements ClusterFormation, for any hosts, fleet files, selections and
\* faults: what a run that ended anywhere has left is never made a second cluster.
THEOREM ApplyFormsCluster == Spec => ClusterFormed
<1>. DEFINE C == IF OneK3sCluster THEN k3s ELSE [h \in Host |-> NoHost]
<1>1. Init => Headed /\ OneCluster /\ Formed!Init
  BY DEF Init, Headed, OneCluster, Formed!Init, Formed!Apart
<1>2. TypeInv /\ OneCluster /\ Headed /\ [Next]_vars => (OneCluster /\ Headed)' /\ [Formed!Next]_C
  <2>. SUFFICES ASSUME TypeInv, OneCluster, Headed, [Next]_vars
                PROVE  (OneCluster /\ Headed)' /\ [Formed!Next]_C
    OBVIOUS
  <2>1. OneK3sCluster' = OneK3sCluster
    BY FleetKept, SameFleet
  <2>2. CASE OneK3sCluster
    <3>1. C = k3s /\ C' = k3s'
      BY <2>1, <2>2
    <3>2. CASE k3s' = k3s
      BY <3>1, <3>2, ClusterStep, HeadedStep
    <3>3. CASE k3s' # k3s
      <4>1. PICK h \in Host :
              \/ k3s = [g \in Host |-> NoHost] /\ k3s' = [k3s EXCEPT ![h] = h]
              \/ \E g \in Host : k3s[g] = g /\ k3s[h] = NoHost /\ k3s' = [k3s EXCEPT ![h] = g]
        BY <2>2, <3>3, FormedStep
      <4>2. Formed!Found(h) \/ \E g \in Host : Formed!Join(h, g)
        BY <3>1, <4>1 DEF Formed!Found, Formed!Join, Formed!Apart
      <4>. QED
        BY <4>2, ClusterStep, HeadedStep DEF Formed!Next
    <3>. QED
      BY <3>2, <3>3
  <2>3. CASE ~OneK3sCluster
    BY <2>1, <2>3, ClusterStep, HeadedStep
  <2>. QED
    BY <2>2, <2>3
<1>. QED
  BY <1>1, <1>2, TypeInit, TypeStep, PTL DEF Spec, ClusterFormed, Formed!Spec

-------------------------------------------------------------------------------
(* An apply that reports success leaves the fleet whole                      *)

LEMMA WavesInHost ==
  ASSUME TypeInv
  PROVE  InWaves \subseteq Host
<1>. SUFFICES ASSUME NEW g \in InWaves PROVE g \in Host
  OBVIOUS
<1>1. fleet.waves \in Seq(SUBSET Host)
  BY FleetAssumption DEF TypeInv, TypeOK, ValidFleet, FleetFile
<1>2. \A i \in DOMAIN fleet.waves : fleet.waves[i] \subseteq Host
  BY <1>1, SeqFacts
<1>. QED
  BY <1>2 DEF InWaves

Wall == fleet.wall /\ fleet.hardening

\* What Walls says of one host.
WallOf(g) ==
  /\ step[g] \in {"install", "stamp", "late"} => g \in torn
  /\ Wall /\ g \notin torn /\ (marker[g] # "none" \/ step[g] = "ok") => g \in walled

LEMMA WallsAll == Walls <=> \A g \in Host : WallOf(g)
  BY DEF Walls, WallOf, Wall

LEMMA WallStep ==
  ASSUME TypeInv, Walls, [Next]_vars, NEW g \in Host
  PROVE  WallOf(g)'
<1>. USE DEF TypeInv, TypeOK
<1>f. fleet' = fleet /\ Wall' = Wall
  BY FleetKept DEF Wall
<1>s. WallOf(g)
  BY WallsAll
<1>1. ASSUME UNCHANGED <<marker, walled, torn>>, step'[g] \in {step[g], "todo", "out"}
      PROVE  WallOf(g)'
  BY <1>1, <1>f, <1>s DEF WallOf
<1>2. ASSUME NEW chosen \in SUBSET Host, Start(chosen) PROVE WallOf(g)'
  BY <1>1, <1>2 DEF Start, hosts
<1>3. ASSUME NEW h \in Host, Launch(h) PROVE WallOf(g)'
  BY <1>3, <1>f, <1>s DEF Launch, WallOf
<1>4. ASSUME NEW h \in Host, Probe(h) PROVE WallOf(g)'
  <2>1. UNCHANGED <<marker, walled, torn>>
    BY <1>4 DEF Probe, hosts
  <2>2. step'[g] \in {"harden", "failed", step[g]} \/ (step'[g] = "ok" /\ marker[g] # "none")
    BY <1>4 DEF Probe, Decision
  <2>. QED
    BY <2>1, <2>2, <1>f, <1>s DEF WallOf
<1>5. ASSUME NEW h \in Host, Harden(h) PROVE WallOf(g)'
  BY <1>5, <1>f, <1>s DEF Harden, WallOf
<1>6. ASSUME NEW h \in Host, Install(h) PROVE WallOf(g)'
  BY <1>6, <1>f, <1>s DEF Install, WallOf
<1>7. ASSUME NEW h \in Host, Stamp(h) PROVE WallOf(g)'
  <2>1. h = g => g \in torn
    BY <1>7, <1>s DEF Stamp, WallOf
  <2>. QED
    BY <1>7, <2>1, <1>f, <1>s DEF Stamp, WallOf
<1>8. ASSUME NEW h \in Host, Late(h) PROVE WallOf(g)'
  BY <1>8, <1>f, <1>s DEF Late, WallOf, Wall
<1>9. CASE Abort \/ HostsFailed \/ NoToken \/ FleetIncomplete \/ PhasesDone
  <2>1. UNCHANGED <<marker, walled, torn>> /\ step'[g] = "out"
    BY <1>9 DEF Abort, HostsFailed, NoToken, FleetIncomplete, PhasesDone, EndsInError, Forgets, hosts
  <2>. QED
    BY <1>1, <2>1
<1>10. ASSUME NEW h \in Host, JoinFails(h) PROVE WallOf(g)'
  <2>1. UNCHANGED <<marker, walled, torn>> /\ step'[g] = "out"
    BY <1>10 DEF JoinFails, EndsInError, Forgets
  <2>. QED
    BY <1>1, <2>1
<1>11. CASE HostsDone \/ OpenPeer \/ PeersDone \/ ReadServer \/ JoinsDone \/ AwaitFleet \/ UNCHANGED vars
  <2>1. UNCHANGED <<marker, walled, torn, step>>
    BY <1>11 DEF HostsDone, OpenPeer, PeersDone, ReadServer, JoinsDone, AwaitFleet, vars, hosts, run, past
  <2>. QED
    BY <1>1, <2>1
<1>12. ASSUME NEW h \in Host, SkipJoin(h) \/ Join(h) \/ Register(h) \/ Recover(h) \/ GoDown(h)
       PROVE  WallOf(g)'
  <2>1. UNCHANGED <<marker, walled, torn, step>>
    BY <1>12 DEF SkipJoin, Join, Register, Recover, GoDown, hosts, run, past
  <2>. QED
    BY <1>1, <2>1
<1>. QED
  BY <1>2, <1>3, <1>4, <1>5, <1>6, <1>7, <1>8, <1>9, <1>10, <1>11, <1>12
     DEF Next, Apply, ProvisionHost, Cluster

\* What the run keeps of the waves while it is past them.
LEMMA WavesStep ==
  ASSUME TypeInv, Waves, [Next]_vars
  PROVE  Waves'
<1>. USE DEF TypeInv, TypeOK
<1>f. fleet' = fleet /\ InWaves' = InWaves
  BY FleetKept, SameFleet
<1>1. ASSUME NEW chosen \in SUBSET Host, Start(chosen) PROVE Waves'
  BY <1>1, <1>f DEF Start, Waves
<1>2. ASSUME NEW h \in Host, ProvisionHost(h) PROVE Waves'
  <2>1. pc = "hosts" /\ pc' = "hosts" /\ sel' = sel
    BY <1>2 DEF ProvisionHost, Launch, Probe, Harden, Install, Stamp, Late
  <2>2. \A g \in Host : step'[g] = "out" => step[g] = "out"
    BY <1>2 DEF ProvisionHost, Launch, Probe, Decision, Harden, Install, Stamp, Late
  <2>. QED
    BY <2>1, <2>2, <1>f DEF Waves
<1>3. CASE HostsDone
  <2>1. pc = "hosts" /\ pc' \in {"peers", "phases"} /\ UNCHANGED <<sel, step>>
    BY <1>3 DEF HostsDone
  <2>2. \A g \in Host : step[g] \in {"ok", "out"}
    BY <1>3 DEF HostsDone
  <2>. QED
    BY <2>1, <2>2, <1>f DEF Waves
<1>4. CASE pc' \in {"idle", "done"}
  BY <1>4 DEF Waves
<1>5. ASSUME UNCHANGED <<sel, step>>, pc' = pc \/ (pc \in {"peers", "token", "join", "await"} /\ pc' # "hosts")
      PROVE  Waves'
  BY <1>5, <1>f DEF Waves
<1>6. CASE OpenPeer \/ PeersDone \/ ReadServer \/ JoinsDone \/ AwaitFleet \/ UNCHANGED vars
  <2>1. UNCHANGED <<sel, step>> /\ (pc' = pc \/ (pc \in {"peers", "token", "join", "await"} /\ pc' # "hosts"))
    BY <1>6 DEF OpenPeer, PeersDone, ReadServer, JoinsDone, AwaitFleet, vars, run
  <2>. QED
    BY <1>5, <2>1
<1>7. ASSUME NEW h \in Host, SkipJoin(h) \/ Join(h) \/ Register(h) \/ Recover(h) \/ GoDown(h)
      PROVE  Waves'
  <2>1. UNCHANGED <<sel, step, pc>>
    BY <1>7 DEF SkipJoin, Join, Register, Recover, GoDown, run
  <2>. QED
    BY <1>5, <2>1
<1>8. CASE Abort \/ HostsFailed \/ NoToken \/ FleetIncomplete \/ PhasesDone
  BY <1>4, <1>8 DEF Abort, HostsFailed, NoToken, FleetIncomplete, PhasesDone, EndsInError
<1>9. ASSUME NEW h \in Host, JoinFails(h) PROVE Waves'
  BY <1>4, <1>9 DEF JoinFails, EndsInError
<1>. QED
  BY <1>1, <1>2, <1>3, <1>6, <1>7, <1>8, <1>9 DEF Next, Apply, Cluster

\* As many nodes in the list as hosts are all of them.
LEMMA AllListed ==
  ASSUME TypeInv, Cardinality(Listed) = Cardinality(Host)
  PROVE  Listed = Host
<1>1. Listed \in SUBSET Host
  BY DEF Listed, Members
<1>. QED
  BY <1>1, FS_Subset, FleetAssumption

LEMMA WholeStep ==
  ASSUME TypeInv, Walls, Waves, Whole, [Next]_vars
  PROVE  Whole'
<1>. USE DEF TypeInv, TypeOK
<1>f. fleet' = fleet /\ InWaves' = InWaves /\ OneK3sCluster' = OneK3sCluster /\ FirstServer' = FirstServer
  BY FleetKept, SameFleet
<1>1. CASE pc' \notin {"phases", "done"}
  BY <1>1 DEF Whole
<1>2. CASE HostsDone
  BY <1>2, <1>f DEF HostsDone, Whole, OneK3sCluster
<1>3. CASE PeersDone
  BY <1>3, <1>f DEF PeersDone, Whole
<1>4. CASE AwaitFleet
  <2>1. UNCHANGED <<k3s, node, sel>> /\ pc' = "phases"
    BY <1>4 DEF AwaitFleet, hosts, run
  <2>2. Listed' = Listed
    BY <1>f, <2>1 DEF Listed, Members
  <2>3. sel = Host => Listed = Host
    BY <1>4, AllListed DEF AwaitFleet
  <2>. QED
    BY <1>f, <2>1, <2>2, <2>3 DEF Whole
<1>5. CASE OpenPeer
  <2>1. UNCHANGED <<k3s, node, sel, pc, walled, torn>> /\ pc # "done"
    BY <1>5 DEF OpenPeer, past
  <2>2. Listed' = Listed
    BY <1>f, <2>1 DEF Listed, Members
  <2>. QED
    BY <1>f, <2>1, <2>2 DEF Whole
<1>6. CASE PhasesDone
  <2>1. UNCHANGED <<k3s, node, sel, walled, torn>> /\ pc = "phases"
    BY <1>6 DEF PhasesDone, hosts
  <2>2. Listed' = Listed
    BY <1>f, <2>1 DEF Listed, Members
  <2>3. sel = Host => \A g \in InWaves \cap Host : step[g] = "ok"
    BY <2>1, Zenon DEF Waves
  <2>4. InWaves \subseteq Host
    BY WavesInHost
  <2>5. sel = Host /\ fleet.wall /\ fleet.hardening => InWaves \ torn \subseteq walled
    <3>. SUFFICES ASSUME sel = Host, fleet.wall, fleet.hardening, NEW g \in InWaves \ torn
                  PROVE  g \in walled
      OBVIOUS
    <3>1. g \in Host \ torn /\ step[g] = "ok"
      BY <2>3, <2>4
    <3>. QED
      BY <3>1 DEF Walls
  <2>. QED
    BY <1>f, <2>1, <2>2, <2>5 DEF Whole
<1>7. ASSUME NEW h \in Host, Register(h) \/ Recover(h) \/ GoDown(h) PROVE Whole'
  <2>1. UNCHANGED <<k3s, sel, pc, walled, torn>>
    BY <1>7 DEF Register, Recover, GoDown, past, run
  <2>2. \A g \in Host : node[g] # "none" => node'[g] # "none"
    BY <1>7 DEF Register, Recover, GoDown
  <2>3. Listed = Host => Listed' = Host
    BY <1>f, <2>1, <2>2 DEF Listed, Members
  <2>. QED
    BY <1>f, <2>1, <2>3 DEF Whole
<1>8. CASE UNCHANGED vars
  <2>1. UNCHANGED <<k3s, node, sel, pc, walled, torn>>
    BY <1>8 DEF vars, hosts, run, past
  <2>2. Listed' = Listed
    BY <1>f, <2>1 DEF Listed, Members
  <2>. QED
    BY <1>f, <2>1, <2>2 DEF Whole
<1>9. CASE Abort \/ HostsFailed \/ NoToken \/ FleetIncomplete \/ ReadServer \/ JoinsDone
  BY <1>1, <1>9 DEF Abort, HostsFailed, NoToken, FleetIncomplete, ReadServer, JoinsDone, EndsInError
<1>10. ASSUME NEW h \in Host, ProvisionHost(h) \/ SkipJoin(h) \/ Join(h) \/ JoinFails(h) PROVE Whole'
  BY <1>1, <1>10 DEF ProvisionHost, Launch, Probe, Harden, Install, Stamp, Late,
                     SkipJoin, Join, JoinFails, EndsInError
<1>11. ASSUME NEW chosen \in SUBSET Host, Start(chosen) PROVE Whole'
  BY <1>1, <1>11 DEF Start
<1>. QED
  BY <1>2, <1>3, <1>4, <1>5, <1>6, <1>7, <1>8, <1>9, <1>10, <1>11 DEF Next, Apply, Cluster

\* An apply of every host that reports success leaves every node in the list, all
\* peer ports open, and the allowlist on every host of a wave, except those where
\* an earlier run ended between the init and the allowlist.
THEOREM WholeWhenDone == Spec => []WholeOnDone
<1>1. Init => PeersOpen /\ Walls /\ Waves /\ Whole
  BY DEF Init, PeersOpen, Walls, Waves, Whole
<1>2. TypeInv /\ Walls /\ [Next]_vars => Walls'
  <2>. SUFFICES ASSUME TypeInv, Walls, [Next]_vars PROVE Walls'
    OBVIOUS
  <2>1. \A g \in Host : WallOf(g)'
    BY WallStep
  <2>. QED
    BY <2>1 DEF Walls, WallOf, Wall
<1>3. TypeInv /\ PeersOpen /\ Whole => WholeOnDone
  BY DEF TypeInv, TypeOK, PeersOpen, Whole, WholeOnDone
<1>. QED
  BY <1>1, <1>2, <1>3, TypeInit, TypeStep, PeersOpenStep, WavesStep, WholeStep, PTL DEF Spec

-------------------------------------------------------------------------------
(* Applying again where no host joins                                        *)

\* No host is initialized as anything but what the file says.
NoneJoins == \A f \in Fleets : f.mode = "k3s" => ~f.ha /\ \A h \in Host : f.role[h] = ""

\* The next probe of the host will not refuse it.
Passes(h) == Decision(marker[h]) # "failed"

\* A host past its probe will pass the next one; the main goroutine goes on when every
\* selected host of a wave is.
PassInv ==
  /\ \A h \in Host : step[h] \in {"harden", "install", "stamp", "late", "ok"} => Passes(h)
  /\ pc = "hosts" => \A h \in sel \cap InWaves : step[h] # "out"
  /\ pc \notin {"idle", "hosts"} => \A h \in sel \cap InWaves : Passes(h)
  /\ pc = "done" => \A h \in Host : step[h] = "out"
  /\ \A h \in Host \ InWaves : step[h] = "out"

\* After a full apply every host will pass, and goes on to.
AllPass == /\ \A h \in Host : step[h] # "failed"
           /\ \A h \in InWaves : Passes(h)

LEMMA PassKept ==
  ASSUME TypeInv, NoneJoins, [Next]_vars, NEW h \in Host, Passes(h)
  PROVE  Passes(h)'
<1>. USE DEF TypeInv, TypeOK
<1>0. fleet' = fleet
  BY FleetKept
<1>1. CASE marker' = marker
  BY <1>0, <1>1 DEF Passes, Decision
<1>2. ASSUME NEW g \in Host, marker' = [marker EXCEPT ![g] = InitMode(g)] PROVE Passes(h)'
  <2>1. InitMode(g) = fleet.mode
    BY FleetFacts DEF NoneJoins, InitMode, K3sRoleOf, RolesDeclared
  <2>2. CASE g = h
    <3>1. marker'[h] = fleet.mode
      BY <1>2, <2>1, <2>2
    <3>. QED
      BY <1>0, <3>1 DEF Passes, Decision
  <2>3. CASE g # h
    BY <1>0, <1>2, <2>3 DEF Passes, Decision
  <2>. QED
    BY <2>2, <2>3
<1>. QED
  BY <1>1, <1>2, MarkerChanges

\* Without faults of the probe, the init and the marker, a host's init fails only when
\* the probe refuses it.
LEMMA InitSteps ==
  ASSUME TypeInv, {"probe", "init", "marker"} \cap Events = {}, NEW h \in Host, ProvisionHost(h)
  PROVE  /\ pc = "hosts" /\ pc' = pc /\ sel' = sel
         /\ step[h] # "out" /\ step' = [step EXCEPT ![h] = step'[h]]
         /\ \/ step'[h] = "probe"
            \/ step[h] = "probe" /\ step'[h] = Decision(marker[h])
            \/ step[h] \in {"harden", "install", "stamp", "late"}
               /\ step'[h] \in {"install", "stamp", "late", "ok"}
<1>. USE DEF TypeInv, TypeOK
<1>1. CASE Launch(h)
  BY <1>1 DEF Launch, CanStart
<1>2. CASE Probe(h)
  BY <1>2 DEF Probe, Happens
<1>3. CASE Harden(h)
  BY <1>3 DEF Harden
<1>4. CASE Install(h)
  BY <1>4 DEF Install, Happens
<1>5. CASE Stamp(h)
  BY <1>5 DEF Stamp
<1>6. CASE Late(h)
  BY <1>6 DEF Late, Happens
<1>. QED
  BY <1>1, <1>2, <1>3, <1>4, <1>5, <1>6 DEF ProvisionHost

\* The other steps start a run, end it, or take the main goroutine on.
LEMMA OtherSteps ==
  ASSUME [Next]_vars, ~ \E h \in Host : ProvisionHost(h)
  PROVE  \/ \E chosen \in SUBSET Host : Start(chosen)
         \/ Forgets /\ (pc' = "idle" \/ (pc' = "done" /\ pc = "phases" /\ sel' = sel))
         \/ HostsDone
         \/ UNCHANGED <<step, pc, sel>>
         \/ step' = step /\ sel' = sel /\ {pc, pc'} \cap {"idle", "hosts", "done"} = {}
  BY DEF Next, vars, hosts, past, run, Start, Abort, Apply, Cluster, HostsFailed, HostsDone,
     OpenPeer, PeersDone, NoToken, ReadServer, SkipJoin, Join, JoinFails, JoinsDone,
     AwaitFleet, FleetIncomplete, PhasesDone, EndsInError, Register, Recover, GoDown

LEMMA PassStep ==
  ASSUME TypeInv, NoneJoins, {"probe", "init", "marker"} \cap Events = {}, PassInv, [Next]_vars
  PROVE  PassInv'
<1>. USE DEF TypeInv, TypeOK
<1>0. InWaves' = InWaves /\ \A h \in Host : Passes(h) => Passes(h)'
  BY FleetKept, SameFleet, PassKept
<1>1. ASSUME NEW h \in Host, ProvisionHost(h) PROVE PassInv'
  <2>1. /\ pc = "hosts" /\ pc' = pc /\ sel' = sel
        /\ step[h] # "out" /\ step' = [step EXCEPT ![h] = step'[h]]
        /\ \/ step'[h] = "probe"
           \/ step[h] = "probe" /\ step'[h] = Decision(marker[h])
           \/ step[h] \in {"harden", "install", "stamp", "late"}
              /\ step'[h] \in {"install", "stamp", "late", "ok"}
    BY <1>1, InitSteps
  <2>2. step'[h] \in {"harden", "install", "stamp", "late", "ok"} => Passes(h)
    BY <2>1 DEF PassInv, Passes
  <2>3. step'[h] # "out"
    BY <2>1 DEF Decision
  <2>4. \A g \in Host \ {h} : step'[g] = step[g]
    BY <2>1
  <2>. QED
    BY <1>0, <2>1, <2>2, <2>3, <2>4 DEF PassInv
<1>2. ASSUME NEW chosen \in SUBSET Host, Start(chosen) PROVE PassInv'
  BY <1>0, <1>2 DEF PassInv, Start
<1>3. CASE Forgets /\ (pc' = "idle" \/ (pc' = "done" /\ pc = "phases" /\ sel' = sel))
  BY <1>0, <1>3 DEF PassInv, Forgets
<1>4. CASE HostsDone
  BY <1>0, <1>4 DEF PassInv, HostsDone
<1>5. CASE UNCHANGED <<step, pc, sel>>
  BY <1>0, <1>5 DEF PassInv
<1>6. CASE step' = step /\ sel' = sel /\ {pc, pc'} \cap {"idle", "hosts", "done"} = {}
  BY <1>0, <1>6 DEF PassInv
<1>. QED
  BY <1>1, <1>2, <1>3, <1>4, <1>5, <1>6, OtherSteps

LEMMA AllPassStep ==
  ASSUME TypeInv, NoneJoins, {"probe", "init", "marker"} \cap Events = {}, PassInv, AllPass, [Next]_vars
  PROVE  AllPass'
<1>. USE DEF TypeInv, TypeOK
<1>0. InWaves' = InWaves /\ \A h \in InWaves \cap Host : Passes(h)'
  BY FleetKept, SameFleet, PassKept DEF AllPass
<1>1. InWaves \subseteq Host
  BY WavesInHost
<1>2. ASSUME NEW h \in Host, ProvisionHost(h) PROVE \A g \in Host : step'[g] # "failed"
  <2>1. h \in InWaves
    BY <1>2, InitSteps DEF PassInv
  <2>2. Decision(marker[h]) # "failed"
    BY <2>1 DEF AllPass, Passes
  <2>3. step'[h] # "failed" /\ step' = [step EXCEPT ![h] = step'[h]]
    BY <1>2, <2>2, InitSteps
  <2>. QED
    BY <2>3 DEF AllPass
<1>3. ASSUME ~ \E h \in Host : ProvisionHost(h) PROVE \A g \in Host : step'[g] # "failed"
  BY <1>3, OtherSteps DEF AllPass, Start, Forgets, HostsDone
<1>. QED
  BY <1>0, <1>1, <1>2, <1>3 DEF AllPass

\* docs/commands.md:182, that applying an unchanged fleet again is a no-op, holds of every
\* fleet where no host joins a cluster: after a full apply that reported success none
\* refuses a host, whatever was selected, killed or went down meanwhile.  Only a host that
\* joins is marked as other than the file says (provision.go:1520).
THEOREM ReappliesWhereNoneJoins ==
  ASSUME NoneJoins, {"probe", "init", "marker"} \cap Events = {}
  PROVE  Spec => ReapplyIsNoOp
<1>1. Init => PassInv
  BY DEF Init, PassInv
<1>2. TypeInv /\ PassInv /\ [Next]_vars => PassInv'
  BY PassStep
<1>3. TypeInv /\ PassInv /\ pc = "done" /\ sel = Host => AllPass
  BY WavesInHost DEF PassInv, AllPass, TypeInv, TypeOK
<1>4. TypeInv /\ PassInv /\ AllPass /\ [Next]_vars => AllPass'
  BY AllPassStep
<1>5. AllPass => ~ \E h \in Host : step[h] = "failed"
  BY DEF AllPass
<1>. QED
  BY <1>1, <1>2, <1>3, <1>4, <1>5, TypeInit, TypeStep, PTL DEF Spec, ReapplyIsNoOp

-------------------------------------------------------------------------------
(* The machines of a fleet file                                              *)

MachineType == [label : Entry \cup {Other}, vendor : DOMAIN Vendor, ip : Int,
                alive : BOOLEAN, late : BOOLEAN]
CommandType == [kind : {"idle", "create", "wait", "destroy"}, over : SUBSET Entry, at : Nat,
                how : {"none", "running", "failed", "killed", "applied", "destroyed"}]
SyncType    == [asked : SUBSET UNION Ranges, drop : SUBSET UNION Ranges, add : SUBSET UNION Ranges,
                unseen : SUBSET UNION Ranges, how : {"none", "running", "failed", "ok"}]

\* A vendor that does not wait for the address gives none at first.
LEMMA VendorFacts ==
  ASSUME NEW v \in DOMAIN Vendor
  PROVE  /\ Vendor[v].blank \in {Nowhere, Self} /\ Nowhere = -1 /\ Self = 0
         /\ ~Vendor[v].waits => Vendor[v].blank = Nowhere
  BY DEF Vendor, CubePath, Vultr, Civo, Hetzner, Aws, DigitalOcean, Nowhere, Self

LEMMA EntriesFacts ==
  /\ Len(Entries) \in Nat \ {0} /\ DOMAIN Entries = 1 .. Len(Entries)
  /\ \A i \in DOMAIN Entries : Entries[i] \in Entry
  /\ \A p \in Placements, e \in Entry : p[e] \in DOMAIN Vendor
<1>1. Entries \in Seq(Entry) /\ Entries # <<>>
  BY CloudConstants
<1>2. Len(Entries) # 0
  BY <1>1
<1> QED
  BY <1>1, <1>2, CloudConstants

LEMMA NextHostIsEntry == Addressless # {} => NextHost \in Entry
<1> SUFFICES ASSUME Addressless # {} PROVE NextHost \in Entry
  OBVIOUS
<1>1. Addressless \in SUBSET Nat /\ Addressless \subseteq DOMAIN Entries
  BY EntriesFacts DEF Addressless
<1>2. \E i \in Addressless : \A j \in Addressless : i <= j
  BY <1>1, Least
<1>3. (CHOOSE i \in Addressless : \A j \in Addressless : i <= j) \in Addressless
  BY <1>2
<1> QED
  BY <1>1, <1>3, EntriesFacts DEF NextHost

LEMMA IdleTyped ==
  \A how \in {"none", "failed", "killed", "applied", "destroyed"} : Idle(how) \in CommandType
  BY DEF Idle, CommandType

LEMMA CommandTyped ==
  ASSUME command \in CommandType
  PROVE  /\ \A n \in Nat : [command EXCEPT !.kind = "wait", !.at = n] \in CommandType
         /\ \A n \in Nat : [command EXCEPT !.kind = "wait", !.at = n].at = n
         /\ [command EXCEPT !.at = @ + 1] \in CommandType
         /\ [command EXCEPT !.at = @ + 1].kind = command.kind
<1>1. ASSUME NEW n \in Nat
      PROVE  /\ [command EXCEPT !.kind = "wait", !.at = n] \in CommandType
             /\ [command EXCEPT !.kind = "wait", !.at = n].at = n
  BY DEF CommandType
<1>2. [command EXCEPT !.at = @ + 1] =
        [kind |-> command.kind, over |-> command.over, at |-> command.at + 1, how |-> command.how]
  <2>1. ASSUME NEW n \in Nat
        PROVE  [command EXCEPT !.at = n] =
                 [kind |-> command.kind, over |-> command.over, at |-> n, how |-> command.how]
    BY DEF CommandType
  <2>2. [command EXCEPT !.at = @ + 1] = [command EXCEPT !.at = command.at + 1]
    BY Zenon
  <2>3. command.at + 1 \in Nat
    BY DEF CommandType
  <2> QED
    BY <2>1, <2>2, <2>3, Zenon
<1>3. command.over \subseteq Entry /\ command.at + 1 \in Nat
      /\ command.kind \in {"idle", "create", "wait", "destroy"}
      /\ command.how \in {"none", "running", "failed", "killed", "applied", "destroyed"}
  BY DEF CommandType
<1> QED
  BY <1>1, <1>2, <1>3 DEF CommandType

LEMMA FailureCounted ==
  ASSUME failures \in 0 .. Failures, Fails \/ UNCHANGED failures
  PROVE  failures' \in 0 .. Failures
  BY CloudConstants DEF Fails

\* What a step may do to the machines: give one more, an address, or an end.
LEMMA MachinesTyped ==
  ASSUME machines \in Seq(MachineType)
  PROVE  /\ Len(machines) \in Nat /\ DOMAIN machines = 1 .. Len(machines)
         /\ \A m \in DOMAIN machines : machines[m] \in MachineType
         /\ \A x \in MachineType : Append(machines, x) \in Seq(MachineType)
         /\ \A m \in DOMAIN machines, a \in Int : [machines EXCEPT ![m].ip = a] \in Seq(MachineType)
         /\ \A m \in DOMAIN machines : [machines EXCEPT ![m].alive = FALSE] \in Seq(MachineType)
         /\ \A m \in DOMAIN machines : [machines EXCEPT ![m].late = TRUE] \in Seq(MachineType)
<1>1. /\ Len(machines) \in Nat /\ DOMAIN machines = 1 .. Len(machines)
      /\ \A m \in DOMAIN machines : machines[m] \in MachineType
      /\ \A x \in MachineType : Append(machines, x) \in Seq(MachineType)
  OBVIOUS
<1>2. ASSUME NEW m \in DOMAIN machines, NEW x \in MachineType PROVE [machines EXCEPT ![m] = x] \in Seq(MachineType)
  OBVIOUS
<1>3. ASSUME NEW m \in DOMAIN machines, NEW a \in Int PROVE [machines EXCEPT ![m].ip = a] \in Seq(MachineType)
  <2>1. [machines[m] EXCEPT !.ip = a] \in MachineType
    BY <1>1 DEF MachineType
  <2>2. [machines EXCEPT ![m] = [machines[m] EXCEPT !.ip = a]] \in Seq(MachineType)
    BY <1>2, <2>1
  <2> QED
    BY <2>2
<1>4. ASSUME NEW m \in DOMAIN machines PROVE [machines EXCEPT ![m].alive = FALSE] \in Seq(MachineType)
  <2>1. [machines[m] EXCEPT !.alive = FALSE] \in MachineType
    BY <1>1 DEF MachineType
  <2>2. [machines EXCEPT ![m] = [machines[m] EXCEPT !.alive = FALSE]] \in Seq(MachineType)
    BY <1>2, <2>1
  <2> QED
    BY <2>2
<1>5. ASSUME NEW m \in DOMAIN machines PROVE [machines EXCEPT ![m].late = TRUE] \in Seq(MachineType)
  <2>1. [machines[m] EXCEPT !.late = TRUE] \in MachineType
    BY <1>1 DEF MachineType
  <2>2. [machines EXCEPT ![m] = [machines[m] EXCEPT !.late = TRUE]] \in Seq(MachineType)
    BY <1>2, <2>1
  <2> QED
    BY <2>2
<1> QED
  BY <1>1, <1>3, <1>4, <1>5

\* A list that shows none of the machines there are is a failure.
LEMMA BlindListFails ==
  ASSUME CloudTypeOK, NEW v \in DOMAIN Vendor, NEW l \in Lists(v), l = {}, Standing(v) # {}
  PROVE  failures < Failures
<1> DEFINE all == Standing(v)
<1>1. IsFiniteSet(all)
  <2>1. machines \in Seq(MachineType)
    BY DEF CloudTypeOK, MachineType
  <2>2. all \in SUBSET (1 .. Len(machines)) /\ Len(machines) \in Nat
    BY <2>1, MachinesTyped DEF Standing
  <2>3. IsFiniteSet(1 .. Len(machines))
    BY <2>2, FS_Interval
  <2> QED
    BY <2>2, <2>3, FS_Subset
<1>2. Cardinality(all) \in Nat /\ Cardinality(all) # 0 /\ Cardinality({}) = 0
  BY <1>1, FS_CardinalityType, FS_EmptySet
<1>3. CASE Vendor[v].shows = "all"
  BY <1>3 DEF Lists
<1>4. CASE Vendor[v].shows = "page"
  <2>1. Lists(v) = {k \in SUBSET all : Cardinality(k) = IF Cardinality(all) < Page THEN Cardinality(all) ELSE Page}
    BY <1>4 DEF Lists
  <2> QED
    BY <1>2, <2>1, CloudConstants
<1>5. CASE Vendor[v].shows \notin {"all", "page"}
  BY <1>5 DEF Lists
<1> QED
  BY <1>3, <1>4, <1>5

\* Types, and the machine a command waits for.
Awaited   == command.kind = "wait" => /\ command.at \in DOMAIN machines
                                      /\ machines[command.at].label \in Entry
CloudTyped == CloudTypeOK /\ Awaited

LEMMA HostsTyped ==
  ASSUME CloudTyped, HostsNext
  PROVE  CloudTyped'
<1> USE DEF CloudTyped, CloudTypeOK
<1>0. /\ machines \in Seq(MachineType) /\ command \in CommandType
      /\ \A e \in Entry : vendor[e] \in DOMAIN Vendor /\ Vendor[vendor[e]].blank \in Int
  BY EntriesFacts, VendorFacts DEF MachineType, CommandType, Nowhere, Self
<1>1. ASSUME NEW over \in SUBSET Entry, StartApply(over) PROVE CloudTyped'
  BY <1>1 DEF StartApply, Awaited
<1>2. CASE Create
  <2>1. NextHost \in Entry /\ NewMachine(NextHost) \in MachineType
    BY <1>0, <1>2, NextHostIsEntry DEF Create, NewMachine, MachineType
  <2>2. failures' \in 0 .. Failures
    BY <1>2, FailureCounted DEF Create
  <2>3. machines' \in {machines, Append(machines, NewMachine(NextHost))}
    BY <1>2 DEF Create
  <2>4. machines' \in Seq(MachineType)
    BY <1>0, <2>1, <2>3, MachinesTyped
  <2>5. CASE /\ machines' = Append(machines, NewMachine(NextHost))
             /\ command' = [command EXCEPT !.kind = "wait", !.at = Len(machines) + 1]
    <3>0. Len(machines) + 1 \in Nat
      BY <1>0, MachinesTyped
    <3>1. command' \in CommandType /\ command'.at = Len(machines) + 1
      BY <1>0, <2>5, <3>0, CommandTyped
    <3>2. command'.at \in DOMAIN machines' /\ machines'[command'.at].label \in Entry
      BY <1>0, <2>1, <2>5, <3>1, MachinesTyped DEF NewMachine
    <3> QED
      BY <1>2, <2>2, <2>4, <3>1, <3>2 DEF Create, Awaited, MachineType, CommandType
  <2>6. CASE command' = Idle("failed")
    <3>1. command' \in CommandType /\ command'.kind = "idle"
      BY <2>6, IdleTyped DEF Idle
    <3> QED
      BY <1>2, <2>2, <2>4, <3>1 DEF Create, Awaited, MachineType, CommandType
  <2> QED
    BY <1>2, <2>5, <2>6 DEF Create
<1>3. ASSUME NEW m \in DOMAIN machines, Assign(m) PROVE CloudTyped'
  <2>1. machines' = [machines EXCEPT ![m].ip = m] /\ m \in Int
    BY <1>0, <1>3, MachinesTyped DEF Assign
  <2>2. machines' \in Seq(MachineType)
    BY <1>0, <2>1, MachinesTyped
  <2>3. Awaited'
    BY <1>0, <1>3, <2>1, MachinesTyped DEF Awaited, Assign, MachineType
  <2> QED
    BY <1>3, <2>2, <2>3 DEF Assign, MachineType
<1>4. CASE Wait
  <2>1. command.at \in DOMAIN machines /\ machines[command.at] \in MachineType
    BY <1>0, <1>4, MachinesTyped DEF Wait, Awaited
  <2>2. failures' \in 0 .. Failures
    BY <1>4, FailureCounted DEF Wait
  <2>3. CASE /\ held' = [held EXCEPT ![machines[command.at].label] = machines[command.at].ip]
             /\ command' = [command EXCEPT !.kind = "create", !.at = 0]
    <3>1. command' \in CommandType /\ command'.kind = "create"
      BY <1>0, <2>3 DEF CommandType
    <3>2. held' \in [Entry -> Int]
      BY <2>1, <2>3 DEF MachineType
    <3> QED
      BY <1>4, <2>2, <3>1, <3>2 DEF Wait, Awaited, CommandType
  <2>4. CASE command' = Idle("failed") /\ UNCHANGED held
    <3>1. command' \in CommandType /\ command'.kind = "idle"
      BY <2>4, IdleTyped DEF Idle
    <3> QED
      BY <1>4, <2>2, <2>4, <3>1 DEF Wait, Awaited, CommandType
  <2> QED
    BY <1>4, <2>3, <2>4 DEF Wait
<1>5. CASE Provision
  <2>1. command' \in CommandType /\ command'.kind = "idle"
    <3>1. command' = Idle("applied") \/ command' = Idle("failed")
      BY <1>5 DEF Provision
    <3>2. CASE command' = Idle("applied")
      BY <3>2, IdleTyped DEF Idle
    <3>3. CASE command' = Idle("failed")
      BY <3>3, IdleTyped DEF Idle
    <3> QED
      BY <3>1, <3>2, <3>3
  <2>2. failures' \in 0 .. Failures
    BY <1>5, FailureCounted DEF Provision
  <2>3. inited' \in [Entry -> SUBSET Int]
    BY <1>5 DEF Provision
  <2> QED
    BY <1>5, <2>1, <2>2, <2>3 DEF Provision, Awaited, CommandType
<1>6. CASE Kill
  <2>1. command' \in CommandType /\ command'.kind = "idle" /\ failures' \in 0 .. Failures
    BY <1>6, IdleTyped, FailureCounted DEF Kill, Idle
  <2> QED
    BY <1>6, <2>1 DEF Kill, Awaited, CommandType
<1>7. ASSUME NEW e \in Entry, Copy(e) PROVE CloudTyped'
  <2>1. \A m \in DOMAIN machines : m \in Int
    BY <1>0, MachinesTyped
  <2>2. filed' \in [Entry -> Int]
    BY <1>7, <2>1 DEF Copy, Standing, Nowhere
  <2> QED
    BY <1>7, <2>2 DEF Copy, Awaited
<1>8. CASE StartDestroy
  BY <1>8 DEF StartDestroy, Awaited
<1>9. CASE Delete
  <2> DEFINE e == Entries[command.at]
  <2>0. e \in Entry /\ vendor[e] \in DOMAIN Vendor
    BY <1>0, <1>9, EntriesFacts DEF Delete
  <2>1. failures' \in 0 .. Failures
    <3>1. CASE Fails
      BY <3>1, FailureCounted
    <3>2. CASE UNCHANGED failures
      BY <3>2
    <3>3. ASSUME NEW l \in Lists(vendor[e]),
                 failures' = IF l = {} /\ Standing(vendor[e]) # {} THEN failures + 1 ELSE failures
          PROVE  failures' \in 0 .. Failures
      <4>1. CASE l = {} /\ Standing(vendor[e]) # {}
        <5>1. failures < Failures
          BY <2>0, <4>1, BlindListFails
        <5> QED
          BY <3>3, <4>1, <5>1, CloudConstants
      <4>2. CASE ~(l = {} /\ Standing(vendor[e]) # {})
        BY <3>3, <4>2
      <4> QED
        BY <4>1, <4>2
    <3> QED
      BY <1>9, <3>1, <3>2, <3>3 DEF Delete
  <2>2. machines' \in Seq(MachineType)
    <3>1. machines' = machines \/ \E m \in DOMAIN machines : machines' = [machines EXCEPT ![m].alive = FALSE]
      <4>1. \A l \in Lists(vendor[e]) : Match(l, e) \subseteq DOMAIN machines
        BY DEF Lists, Match, Standing
      <4> QED
        BY <1>9, <4>1 DEF Delete
    <3> QED
      BY <1>0, <3>1, MachinesTyped
  <2>3. command' \in CommandType /\ command'.kind # "wait"
    <3>1. command' = [command EXCEPT !.at = @ + 1] \/ command' = Idle("failed")
      BY <1>9 DEF Delete
    <3>2. CASE command' = [command EXCEPT !.at = @ + 1]
      BY <1>0, <1>9, <3>2, CommandTyped DEF Delete
    <3>3. CASE command' = Idle("failed")
      BY <3>3, IdleTyped DEF Idle
    <3> QED
      BY <3>1, <3>2, <3>3
  <2> QED
    BY <1>9, <2>1, <2>2, <2>3 DEF Delete, Awaited, MachineType, CommandType
<1>10. CASE Destroyed
  <2>1. command' \in CommandType /\ command'.kind = "idle"
    BY <1>10, IdleTyped DEF Destroyed, Idle
  <2> QED
    BY <1>10, <2>1 DEF Destroyed, Awaited, CommandType
<1>11. CASE GiveUp
  <2>1. command.at \in DOMAIN machines /\ failures' \in 0 .. Failures
    BY <1>11, FailureCounted DEF GiveUp, Awaited
  <2>2. machines' = [machines EXCEPT ![command.at].late = TRUE]
    BY <1>11 DEF GiveUp
  <2>3. machines' \in Seq(MachineType)
    BY <1>0, <2>1, <2>2, MachinesTyped
  <2>4. Awaited'
    BY <1>0, <1>11, <2>2, MachinesTyped DEF Awaited, GiveUp, MachineType
  <2> QED
    BY <1>11, <2>1, <2>3, <2>4 DEF GiveUp, MachineType
<1> QED
  BY <1>1, <1>2, <1>3, <1>4, <1>5, <1>6, <1>7, <1>8, <1>9, <1>10, <1>11 DEF HostsNext

LEMMA SyncTyped ==
  ASSUME CloudTyped, SyncNext
  PROVE  CloudTyped'
<1> USE DEF CloudTyped, CloudTypeOK
<1>1. UNCHANGED <<vendor, peering, filed, machines, command, held, inited>> /\ Awaited'
  BY DEF SyncNext, StartSync, Begun, DropRule, AddRule, SyncEnds, Awaited
<1>2. sync \in SyncType
  BY DEF SyncType
<1>3. ASSUME NEW r \in Ranges, StartSync(r) PROVE CloudTyped'
  <2>1. PICK shown \in Shown : Begun(r, shown, shown)
    BY <1>3 DEF StartSync
  <2>2. shown \subseteq group /\ r \in SUBSET UNION Ranges
    BY DEF Shown
  <2>3. sync' \in SyncType
    BY <2>1, <2>2 DEF Begun, SyncType
  <2> QED
    BY <1>1, <1>3, <2>3 DEF StartSync, SyncType
<1>4. CASE DropRule
  <2>1. sync' \in SyncType /\ group' \subseteq UNION Ranges
    <3>1. PICK r \in sync.drop : group' = group \ {r} /\ sync' = [sync EXCEPT !.drop = @ \ {r}]
      BY <1>4 DEF DropRule
    <3> QED
      BY <1>2, <3>1 DEF SyncType
  <2> QED
    BY <1>1, <1>4, <2>1 DEF DropRule, SyncType
<1>5. CASE AddRule
  <2>1. sync' \in SyncType /\ group' \subseteq UNION Ranges
    <3>1. PICK r \in sync.add : group' = group \cup {r} /\ sync' = [sync EXCEPT !.add = @ \ {r}]
      BY <1>5 DEF AddRule
    <3> QED
      BY <1>2, <3>1 DEF SyncType
  <2> QED
    BY <1>1, <1>5, <2>1 DEF AddRule, SyncType
<1>6. CASE SyncEnds
  <2>1. sync' \in SyncType
    <3>1. sync' = [sync EXCEPT !.how = "ok"] \/ sync' = Quiet("failed")
      BY <1>6 DEF SyncEnds
    <3>2. [sync EXCEPT !.how = "ok"] \in SyncType
      BY <1>2 DEF SyncType
    <3>3. Quiet("failed") \in SyncType
      BY DEF Quiet, SyncType
    <3> QED
      BY <3>1, <3>2, <3>3
  <2>2. failures' \in 0 .. Failures
    BY <1>6, FailureCounted DEF SyncEnds
  <2> QED
    BY <1>1, <1>6, <2>1, <2>2 DEF SyncEnds, SyncType
<1> QED
  BY <1>3, <1>4, <1>5, <1>6 DEF SyncNext

LEMMA CloudStarts == CloudInit => CloudTyped
<1> SUFFICES ASSUME CloudInit PROVE CloudTyped
  OBVIOUS
<1>1. 1 \in DOMAIN Entries /\ Entries[1] \in Entry /\ Head(Entries) = Entries[1]
  BY EntriesFacts, CloudConstants
<1>2. vendor \in Placements /\ vendor[Head(Entries)] \in DOMAIN Vendor
  BY <1>1, EntriesFacts DEF CloudInit
<1>3. [label |-> Other, vendor |-> vendor[Head(Entries)], ip |-> 1, alive |-> TRUE,
       late |-> FALSE] \in MachineType
  BY <1>2 DEF MachineType
<1>4. machines \in Seq(MachineType)
  BY <1>3 DEF CloudInit
<1>5. command \in CommandType /\ command.kind = "idle"
  BY IdleTyped DEF CloudInit, Idle
<1>6. sync \in SyncType
  BY DEF CloudInit, Quiet, SyncType
<1>7. /\ filed \in [Entry -> Int] /\ held \in [Entry -> Int] /\ inited \in [Entry -> SUBSET Int]
      /\ group \subseteq UNION Ranges /\ failures \in 0 .. Failures
  BY CloudConstants DEF CloudInit, Nowhere
<1> QED
  BY <1>2, <1>4, <1>5, <1>6, <1>7 DEF CloudInit, CloudTyped, CloudTypeOK, Awaited, MachineType, CommandType, SyncType

LEMMA CloudAlways == CloudSpec => []CloudTyped
<1>1. CloudTyped /\ [HostsNext \/ SyncNext]_cloudVars => CloudTyped'
  <2>1. CloudTyped /\ UNCHANGED cloudVars => CloudTyped'
    BY DEF CloudTyped, CloudTypeOK, Awaited, cloudVars
  <2> QED
    BY <2>1, HostsTyped, SyncTyped
<1> QED
  BY <1>1, CloudStarts, PTL DEF CloudSpec

\* The types of the commands on machines and of the cloud firewall's sync, for any
\* fleet file, vendors and failures.
THEOREM CloudTypes == CloudSpec => []CloudTypeOK
<1>1. CloudTyped => CloudTypeOK
  BY DEF CloudTyped
<1> QED
  BY <1>1, CloudAlways, PTL


-------------------------------------------------------------------------------
(* Whose machines an init runs on                                              *)

\* An address is of a machine created under the entry's name, or it is the 0.0.0.0
\* of one that CreateVPS gave up on.
Own(e, a)      == a \in DOMAIN machines /\ a > Self /\ machines[a].label = e
Mistaken(e, a) == a = Self /\ LateSelf(e)

OwnInv ==
  /\ \A m \in DOMAIN machines : machines[m].ip = m \/ machines[m].ip = Vendor[machines[m].vendor].blank
  /\ \A e \in Entry : filed[e] = Nowhere \/ Own(e, filed[e])
  /\ \A e \in Entry : held[e] = Nowhere \/ Own(e, held[e]) \/ Mistaken(e, held[e])
  /\ \A e \in Entry : \A a \in inited[e] : Own(e, a) \/ Mistaken(e, a)

\* The machines stay, at their vendors and under the names they were created under.
MachinesStay ==
  \A m \in DOMAIN machines :
    /\ m \in DOMAIN machines' /\ machines'[m].label = machines[m].label
    /\ machines'[m].vendor = machines[m].vendor /\ (machines[m].late => machines'[m].late)

\* Whose an address was it stays.
OwnKept == \A e \in Entry : \A a : (Own(e, a) => Own(e, a)') /\ (Mistaken(e, a) => Mistaken(e, a)')

LEMMA OwnStays == ASSUME MachinesStay PROVE OwnKept
<1>1. ASSUME NEW e, LateSelf(e) PROVE LateSelf(e)'
  <2>1. PICK m \in DOMAIN machines :
          machines[m].label = e /\ machines[m].late /\ Vendor[machines[m].vendor].blank = Self
    BY <1>1 DEF LateSelf
  <2>2. /\ m \in DOMAIN machines' /\ machines'[m].label = e /\ machines'[m].late
        /\ Vendor[machines'[m].vendor].blank = Self
    BY <2>1 DEF MachinesStay
  <2> QED
    BY <2>2 DEF LateSelf
<1>2. ASSUME NEW e, NEW a, Own(e, a) PROVE Own(e, a)'
  BY <1>2 DEF Own, MachinesStay
<1> QED
  BY <1>1, <1>2 DEF OwnKept, Mistaken

LEMMA HostsOwn ==
  ASSUME CloudTyped, OwnInv, HostsNext
  PROVE  OwnInv'
<1>0. /\ machines \in Seq(MachineType) /\ command \in CommandType
      /\ Len(machines) \in Nat /\ DOMAIN machines = 1 .. Len(machines)
      /\ held \in [Entry -> Int] /\ filed \in [Entry -> Int] /\ inited \in [Entry -> SUBSET Int]
  <2>1. machines \in Seq(MachineType) /\ command \in CommandType
        /\ held \in [Entry -> Int] /\ filed \in [Entry -> Int] /\ inited \in [Entry -> SUBSET Int]
    BY DEF CloudTyped, CloudTypeOK, MachineType, CommandType
  <2> QED
    BY <2>1, MachinesTyped
<1>a. ASSUME UNCHANGED machines PROVE MachinesStay
  BY <1>a DEF MachinesStay
<1>b. ASSUME UNCHANGED <<machines, filed, held, inited>> PROVE OwnInv'
  <2>1. MachinesStay
    BY <1>a, <1>b
  <2>2. OwnKept
    BY <2>1, OwnStays
  <2> QED
    BY <1>b, <2>2 DEF OwnInv, OwnKept
<1>1. ASSUME NEW over \in SUBSET Entry, StartApply(over) PROVE OwnInv'
  <2>1. OwnKept
    BY <1>a, <1>1, OwnStays DEF StartApply
  <2> QED
    BY <1>1, <2>1 DEF StartApply, OwnInv, OwnKept
<1>2. CASE Create
  <2>1. machines' = machines \/ machines' = Append(machines, NewMachine(NextHost))
    BY <1>2 DEF Create
  <2>2. CASE machines' = machines
    BY <1>2, <1>b, <2>2 DEF Create
  <2>3. CASE machines' = Append(machines, NewMachine(NextHost))
    <3>1. /\ DOMAIN machines' = 1 .. Len(machines) + 1
          /\ \A m \in DOMAIN machines : machines'[m] = machines[m]
          /\ machines'[Len(machines) + 1] = NewMachine(NextHost)
      BY <1>0, <2>3
    <3>2. MachinesStay
      BY <1>0, <3>1 DEF MachinesStay
    <3>3. OwnKept
      BY <3>2, OwnStays
    <3>4. \A m \in DOMAIN machines' : m \in DOMAIN machines \/ m = Len(machines) + 1
      BY <1>0, <3>1
    <3>5. NewMachine(NextHost).ip = Vendor[NewMachine(NextHost).vendor].blank
      BY DEF NewMachine
    <3>6. \A m \in DOMAIN machines' : machines'[m].ip = m \/ machines'[m].ip = Vendor[machines'[m].vendor].blank
      BY <3>1, <3>4, <3>5 DEF OwnInv
    <3> QED
      BY <1>2, <3>3, <3>6 DEF Create, OwnInv, OwnKept
  <2> QED
    BY <2>1, <2>2, <2>3
<1>3. ASSUME NEW m \in DOMAIN machines, Assign(m) PROVE OwnInv'
  <2>1. machines' = [machines EXCEPT ![m].ip = m]
    BY <1>3 DEF Assign
  <2>2. /\ DOMAIN machines' = DOMAIN machines
        /\ \A n \in DOMAIN machines : machines'[n].label = machines[n].label
                                      /\ machines'[n].vendor = machines[n].vendor
                                      /\ machines'[n].late = machines[n].late
                                      /\ machines'[n].ip = IF n = m THEN m ELSE machines[n].ip
    BY <1>0, <2>1 DEF MachineType
  <2>3. OwnKept
    BY <2>2, OwnStays DEF MachinesStay
  <2>4. \A n \in DOMAIN machines' : machines'[n].ip = n \/ machines'[n].ip = Vendor[machines'[n].vendor].blank
    BY <2>2 DEF OwnInv
  <2> QED
    BY <1>3, <2>3, <2>4 DEF Assign, OwnInv, OwnKept
<1>4. CASE Wait
  <2> DEFINE m == command.at
             x == machines[m].ip
  <2>1. MachinesStay
    BY <1>a, <1>4 DEF Wait
  <2>2. OwnKept
    BY <2>1, OwnStays
  <2>3. CASE UNCHANGED held
    BY <1>4, <1>b, <2>3 DEF Wait
  <2>4. CASE x # Nowhere /\ held' = [held EXCEPT ![machines[m].label] = x]
    <3>1. m \in DOMAIN machines /\ machines[m].label \in Entry
      BY <1>4 DEF Wait, CloudTyped, Awaited
    <3>2. machines[m].vendor \in DOMAIN Vendor
      BY <1>0, <3>1, MachinesTyped DEF MachineType
    <3>3. x = m \/ (x = Self /\ Vendor[machines[m].vendor].blank = Self)
      BY <2>4, <3>1, <3>2, VendorFacts DEF OwnInv
    <3>4. CASE x = m
      <4>1. m > Self
        BY <1>0, <3>1 DEF Self
      <4>2. Own(machines[m].label, x)
        BY <3>1, <3>4, <4>1 DEF Own
      <4> HIDE DEF m, x
      <4> QED
        BY <1>0, <1>4, <2>2, <2>4, <3>1, <4>2 DEF Wait, OwnInv, OwnKept
    <3>5. CASE x # m
      <4>1. Vendor[machines[m].vendor].waits
        BY <3>2, <3>3, <3>5, VendorFacts
      <4>2. machines[m].late
        BY <1>4, <3>3, <3>5, <4>1, VendorFacts, <3>2 DEF Wait, CreateReturned
      <4>3. Mistaken(machines[m].label, x)
        BY <3>1, <3>3, <3>5, <4>2 DEF Mistaken, LateSelf
      <4> HIDE DEF m, x
      <4> QED
        BY <1>0, <1>4, <2>2, <2>4, <3>1, <4>3 DEF Wait, OwnInv, OwnKept
    <3> QED
      BY <3>4, <3>5
  <2> QED
    BY <1>4, <2>3, <2>4 DEF Wait
<1>5. CASE Provision
  <2>1. OwnKept
    BY <1>a, <1>5, OwnStays DEF Provision
  <2>2. \A e \in Entry : \A a \in inited'[e] :
          a \in inited[e] \/ (a = held[e] /\ (Up(held[e]) \/ held[e] = Self))
    BY <1>5 DEF Provision
  <2>3. ~Up(Nowhere) /\ Nowhere # Self
    BY <1>0 DEF Up, Nowhere, Self
  <2>4. \A e \in Entry : \A a \in inited'[e] : Own(e, a) \/ Mistaken(e, a)
    BY <2>2, <2>3 DEF OwnInv
  <2> QED
    BY <1>5, <2>1, <2>4 DEF Provision, OwnInv, OwnKept
<1>6. CASE Kill
  BY <1>6, <1>b DEF Kill
<1>7. ASSUME NEW e \in Entry, Copy(e) PROVE OwnInv'
  <2>1. OwnKept
    BY <1>a, <1>7, OwnStays DEF Copy
  <2>2. PICK a \in {Nowhere} \cup {m \in Standing(vendor[e]) : machines[m].label = e /\ machines[m].ip > Self} :
          filed' = [filed EXCEPT ![e] = a]
    BY <1>7 DEF Copy
  <2>3. a = Nowhere \/ Own(e, a)
    BY <1>0, <2>2 DEF Standing, Own, Self
  <2>4. \A f \in Entry : filed'[f] = IF f = e THEN a ELSE filed[f]
    BY <1>0, <2>2
  <2> QED
    BY <1>7, <2>1, <2>3, <2>4 DEF Copy, OwnInv, OwnKept
<1>8. CASE StartDestroy
  BY <1>8, <1>b DEF StartDestroy
<1>9. CASE Delete
  <2>1. machines' = machines \/ \E m \in DOMAIN machines : machines' = [machines EXCEPT ![m].alive = FALSE]
    <3>1. \A v, e : \A l \in Lists(v) : Match(l, e) \subseteq DOMAIN machines
      BY DEF Lists, Match, Standing
    <3> QED
      BY <1>9, <3>1 DEF Delete
  <2>2. /\ DOMAIN machines' = DOMAIN machines
        /\ \A n \in DOMAIN machines : machines'[n].label = machines[n].label
                                      /\ machines'[n].vendor = machines[n].vendor
                                      /\ machines'[n].late = machines[n].late
                                      /\ machines'[n].ip = machines[n].ip
    <3>1. CASE machines' = machines
      BY <3>1
    <3>2. ASSUME NEW m \in DOMAIN machines, machines' = [machines EXCEPT ![m].alive = FALSE]
          PROVE  /\ DOMAIN machines' = DOMAIN machines
                 /\ \A n \in DOMAIN machines : machines'[n].label = machines[n].label
                                               /\ machines'[n].vendor = machines[n].vendor
                                               /\ machines'[n].late = machines[n].late
                                               /\ machines'[n].ip = machines[n].ip
      BY <1>0, <3>2 DEF MachineType
    <3> QED
      BY <2>1, <3>1, <3>2
  <2>3. OwnKept
    BY <2>2, OwnStays DEF MachinesStay
  <2>4. \A n \in DOMAIN machines' : machines'[n].ip = n \/ machines'[n].ip = Vendor[machines'[n].vendor].blank
    BY <2>2 DEF OwnInv
  <2> QED
    BY <1>9, <2>3, <2>4 DEF Delete, OwnInv, OwnKept
<1>10. CASE Destroyed
  BY <1>10, <1>b DEF Destroyed
<1>11. CASE GiveUp
  <2>1. command.at \in DOMAIN machines /\ machines' = [machines EXCEPT ![command.at].late = TRUE]
    BY <1>11 DEF GiveUp, CloudTyped, Awaited
  <2>2. /\ DOMAIN machines' = DOMAIN machines
        /\ \A n \in DOMAIN machines : machines'[n].label = machines[n].label
                                      /\ machines'[n].vendor = machines[n].vendor
                                      /\ (machines[n].late => machines'[n].late)
                                      /\ machines'[n].ip = machines[n].ip
    BY <1>0, <2>1 DEF MachineType
  <2>3. OwnKept
    BY <2>2, OwnStays DEF MachinesStay
  <2>4. \A n \in DOMAIN machines' : machines'[n].ip = n \/ machines'[n].ip = Vendor[machines'[n].vendor].blank
    BY <2>2 DEF OwnInv
  <2> QED
    BY <1>11, <2>3, <2>4 DEF GiveUp, OwnInv, OwnKept
<1> QED
  BY <1>1, <1>2, <1>3, <1>4, <1>5, <1>6, <1>7, <1>8, <1>9, <1>10, <1>11 DEF HostsNext

LEMMA OwnAlways == CloudSpec => []OwnInv
<1>1. CloudInit => OwnInv
  BY DEF CloudInit, OwnInv, Own, Nowhere
<1>2. CloudTyped /\ OwnInv /\ [HostsNext \/ SyncNext]_cloudVars => OwnInv'
  <2>1. OwnInv /\ UNCHANGED <<machines, filed, held, inited>> => OwnInv'
    BY DEF OwnInv, Own, Mistaken, LateSelf
  <2>2. SyncNext \/ UNCHANGED cloudVars => UNCHANGED <<machines, filed, held, inited>>
    BY DEF SyncNext, StartSync, DropRule, AddRule, SyncEnds, cloudVars
  <2> QED
    BY <2>1, <2>2, HostsOwn
<1> QED
  BY <1>1, <1>2, CloudAlways, PTL DEF CloudSpec

\* Whatever the vendors answer and whenever the commands are stopped, the address an
\* init runs on is that of a machine created under the host's name, or the 0.0.0.0 of
\* one that CreateVPS gave up on (src/cmd/sdk-ops/provision.go, ensureTopologyVPS): an
\* apply takes up where a killed one stopped, and the file may name machines that are
\* gone.
THEOREM InitsOwnMachines == CloudSpec => []OwnMachineOrLate
<1>1. OwnInv => OwnMachineOrLate
  BY DEF OwnInv, OwnMachineOrLate, Own, Mistaken
<1> QED
  BY <1>1, OwnAlways, PTL

-------------------------------------------------------------------------------
(* The rules a sync leaves                                                     *)

\* While a sync runs the group is what it was not shown, what is yet to go and what has
\* come already.
SyncInv ==
  /\ sync.how = "running" =>
       /\ sync.drop # {} => sync.add = sync.asked
       /\ sync.add \subseteq sync.asked
       /\ group = sync.unseen \cup sync.drop \cup (sync.asked \ sync.add)
       /\ sync.unseen \cap sync.drop = {}
  /\ SyncExact

LEMMA SyncKept ==
  ASSUME CloudTypeOK, SyncInv, SyncNext
  PROVE  SyncInv'
<1>0. /\ sync \in SyncType
      /\ \A X : [sync EXCEPT !.drop = X] = [asked |-> sync.asked, drop |-> X, add |-> sync.add, unseen |-> sync.unseen,
                                        how |-> sync.how]
      /\ \A X : [sync EXCEPT !.add = X] = [asked |-> sync.asked, drop |-> sync.drop, add |-> X, unseen |-> sync.unseen,
                                        how |-> sync.how]
      /\ \A X : [sync EXCEPT !.how = X] = [asked |-> sync.asked, drop |-> sync.drop, add |-> sync.add, unseen |-> sync.unseen,
                                       how |-> X]
  <2>1. sync \in SyncType
    BY DEF CloudTypeOK, SyncType
  <2>2. sync = [asked |-> sync.asked, drop |-> sync.drop, add |-> sync.add, unseen |-> sync.unseen,
                                        how |-> sync.how]
    BY <2>1 DEF SyncType
  <2> QED
    BY <2>1, <2>2
<1>1. ASSUME NEW r \in Ranges, StartSync(r) PROVE SyncInv'
  <2>1. PICK shown \in Shown : Begun(r, shown, shown)
    BY <1>1 DEF StartSync
  <2>2. shown \subseteq group
    BY DEF Shown
  <2> QED
    BY <1>1, <2>1, <2>2 DEF StartSync, Begun, SyncInv, SyncExact
<1>2. CASE DropRule
  <2>1. PICK r \in sync.drop : group' = group \ {r} /\ sync' = [sync EXCEPT !.drop = sync.drop \ {r}]
    BY <1>2 DEF DropRule
  <2>2. sync' = [asked |-> sync.asked, drop |-> sync.drop \ {r}, add |-> sync.add, unseen |-> sync.unseen,
                                        how |-> sync.how]
    BY <1>0, <2>1
  <2>3. sync.how = "running" /\ sync.drop # {} /\ sync.add = sync.asked
        /\ group = sync.unseen \cup sync.drop /\ sync.unseen \cap sync.drop = {}
    BY <1>2, <2>1 DEF DropRule, SyncInv
  <2> QED
    BY <2>1, <2>2, <2>3 DEF SyncInv, SyncExact
<1>3. CASE AddRule
  <2>1. PICK r \in sync.add : group' = group \cup {r} /\ sync' = [sync EXCEPT !.add = sync.add \ {r}]
    BY <1>3 DEF AddRule
  <2>2. sync' = [asked |-> sync.asked, drop |-> sync.drop, add |-> sync.add \ {r}, unseen |-> sync.unseen,
                                        how |-> sync.how]
    BY <1>0, <2>1
  <2>3. sync.how = "running" /\ sync.drop = {} /\ sync.add \subseteq sync.asked 
        /\ group = sync.unseen \cup (sync.asked \ sync.add)
    BY <1>3, <2>1 DEF AddRule, SyncInv
  <2> QED
    BY <2>1, <2>2, <2>3 DEF SyncInv, SyncExact
<1>4. CASE SyncEnds
  <2>1. CASE sync.drop = {} /\ sync.add = {} /\ sync' = [sync EXCEPT !.how = "ok"]
    <3>1. sync' = [asked |-> sync.asked, drop |-> {}, add |-> {}, unseen |-> sync.unseen, how |-> "ok"]
      BY <1>0, <2>1
    <3> QED
      BY <1>4, <2>1, <3>1 DEF SyncEnds, SyncInv, SyncExact
  <2>2. CASE sync' = Quiet("failed")
    BY <2>2 DEF SyncInv, SyncExact, Quiet
  <2> QED
    BY <1>4, <2>1, <2>2 DEF SyncEnds
<1> QED
  BY <1>1, <1>2, <1>3, <1>4 DEF SyncNext

\* A sync that answers ok leaves the rules it was asked for and those it was not shown
\* (src/providers/vultr/firewall.go, SyncFirewallAllowlist), whatever an earlier one has
\* left half done: the deletes all come before the first create.
THEOREM SyncLeavesAsked == CloudSpec => []SyncExact
<1>1. CloudInit => SyncInv
  BY DEF CloudInit, SyncInv, SyncExact, Quiet
<1>2. CloudTypeOK /\ SyncInv /\ [HostsNext \/ SyncNext]_cloudVars => SyncInv'
  <2>1. SyncInv /\ UNCHANGED <<group, sync>> => SyncInv'
    BY DEF SyncInv, SyncExact
  <2>2. HostsNext \/ UNCHANGED cloudVars => UNCHANGED <<group, sync>>
    BY DEF HostsNext, StartApply, Create, GiveUp, Wait, Provision, Kill, Assign, Copy, StartDestroy, Delete,
           Destroyed, cloudVars
  <2> QED
    BY <2>1, <2>2, SyncKept
<1>3. SyncInv => SyncExact
  BY DEF SyncInv
<1> QED
  BY <1>1, <1>2, <1>3, CloudTypes, PTL DEF CloudSpec

===============================================================================
