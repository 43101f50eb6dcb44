------------------------- MODULE FleetServicesProofs --------------------------
(* Theorems about FleetServices and NatsMesh, for any hosts, services and     *)
(* fleet files.                                                               *)
EXTENDS FleetServices, NatsMesh, FiniteSetTheorems, TLAPS

-------------------------------------------------------------------------------
(* The mesh of NATS nodes                                                    *)

\* The first host of the file is in the routes of every other, with any number of
\* seeds.
LEMMA HubInRoutes ==
  ASSUME NEW H, NEW m \in Mesh(H), NEW i \in DOMAIN m.order, i # 1
  PROVE  m.order[1] \in Routes(m, m.order[i])
<1>. DEFINE seeds   == IF m.seeds <= 0 THEN 3 ELSE m.seeds
            rank(j) == IF j < IndexOf(m, m.order[i]) THEN j ELSE j - 1
<1>1. /\ m.order \in Seq(H) /\ m.seeds \in Int /\ DOMAIN m.order = 1 .. Len(m.order)
      /\ Len(m.order) \in Nat
      /\ \A j, k \in DOMAIN m.order : m.order[j] = m.order[k] => j = k
  BY DEF Mesh
<1>2. IndexOf(m, m.order[i]) = i
  BY <1>1 DEF IndexOf
<1>3. 1 \in DOMAIN m.order /\ i > 1 /\ i \in Int
  BY <1>1
<1>4. m.order[1] # m.order[i] /\ rank(1) <= seeds
  BY <1>1, <1>2, <1>3
<1>. QED
  BY <1>3, <1>4 DEF Routes

\* Every mesh the fleet file can describe is connected by its routes: gossip, which
\* finds the other nodes from them, has somewhere to start from every node.
THEOREM MeshConnected ==
  ASSUME NEW H, NEW m \in Mesh(H)
  PROVE  Connected(m)
<1>. SUFFICES ASSUME NEW S \in SUBSET NatsNodes(m), S # {}, S # NatsNodes(m)
              PROVE  \E a \in S, b \in NatsNodes(m) \ S : b \in Routes(m, a) \/ a \in Routes(m, b)
  BY DEF Connected
<1>1. PICK x \in S, y \in NatsNodes(m) \ S : TRUE
  OBVIOUS
<1>2. PICK i \in DOMAIN m.order, j \in DOMAIN m.order : m.order[i] = x /\ m.order[j] = y
  BY <1>1 DEF NatsNodes
<1>3. DOMAIN m.order = 1 .. Len(m.order) /\ Len(m.order) \in Nat
  BY DEF Mesh
<1>4. 1 \in DOMAIN m.order /\ m.order[1] \in NatsNodes(m)
  BY <1>2, <1>3 DEF NatsNodes
<1>5. CASE m.order[1] \in S
  BY <1>1, <1>2, <1>5, HubInRoutes
<1>6. CASE m.order[1] \notin S
  BY <1>1, <1>2, <1>4, <1>6, HubInRoutes
<1>. QED
  BY <1>5, <1>6

\* A node that advertises its private address is reached by it from every node
\* whose routes name it: meshAdvertise and peerRouteIP agree.
THEOREM MeshReachable ==
  ASSUME NEW H, NEW m \in Mesh(H)
  PROVE  AdvertisedReachable(m)
<1>. SUFFICES ASSUME NEW a \in NatsNodes(m), NEW b \in NatsNodes(m),
                     Advertised(m, b) = "private"
              PROVE  RouteAddress(m, a, b) = "private"
  BY DEF AdvertisedReachable
<1>1. m.peerIP[a] = "private" /\ m.peerIP[b] = "private"
  BY DEF Advertised
<1>. QED
  BY <1>1 DEF RouteAddress

-------------------------------------------------------------------------------
(* The fleet file                                                            *)

LEMMA PlanFacts ==
  ASSUME NEW p \in Plans
  PROVE  /\ p.wants \in [Node -> [Service -> Version \cup {Absent}]]
         /\ Len(p.order) \in Nat /\ DOMAIN p.order = 1 .. Len(p.order)
         /\ \A i \in 1 .. Len(p.order) : p.order[i] \in Node
         /\ \A h \in Node : \E i \in 1 .. Len(p.order) : p.order[i] = h
         /\ \A i, j \in 1 .. Len(p.order) : p.order[i] = p.order[j] => i = j
<1>1. ValidPlan(p)
  BY ServicesAssumption
<1>2. p.order \in Seq(Node)
  BY <1>1 DEF ValidPlan, ServicePlan
<1>. QED
  BY <1>1, <1>2 DEF ValidPlan, ServicePlan

LEMMA PlaceIs ==
  ASSUME NEW p \in Plans, NEW i \in 1 .. Len(p.order)
  PROVE  Place(p, p.order[i]) = i
  BY PlanFacts DEF Place

LEMMA Wants ==
  ASSUME NEW p \in Plans, NEW h \in Node, NEW n \in WantedBy(p, h)
  PROVE  n \in Service /\ p.wants[h][n] \in Version /\ p.wants[h][n] # Absent
  BY PlanFacts DEF WantedBy

\* A step that changes what runs of one service.
LEMMA SetsRunning ==
  ASSUME proc \in [Node -> [Name -> Version \cup {Absent}]],
         NEW hs, NEW n \in Name, NEW v \in Version \cup {Absent}, SetRunning(hs, n, v)
  PROVE  /\ proc' \in [Node -> [Name -> Version \cup {Absent}]]
         /\ \A h \in Node, m \in Name :
              proc'[h][m] = IF h \in hs /\ m = n THEN v ELSE proc[h][m]
  BY DEF SetRunning

-------------------------------------------------------------------------------
(* Types                                                                     *)

USE DEF Running, svcHosts, svcRun, svcPast, svcVars

HostTypes == /\ conf \in [Node -> [Name -> Version \cup {Absent, Partial}]]
             /\ proc \in [Node -> [Name -> Version \cup {Absent}]]
             /\ timers \in [Node -> SUBSET Timed]
             /\ botched \subseteq Node \X Name

RunTypes ==
  /\ plan \in Plans
  /\ phase \in {"off", "etcd", "hosts", "ok"}
  /\ turn \in 1 .. Len(plan.order) + 1
  /\ at \in {"turn", "clean", "next", "wipe", "wire", "up", "await"}
  /\ stale \subseteq Name /\ todo \subseteq Service
  /\ phase \in {"etcd", "hosts"} /\ at # "turn" => turn <= Len(plan.order)
  /\ force \in BOOLEAN /\ wipes \subseteq Node
  /\ quota \in 0 .. Quota /\ given \subseteq Clustered

LEMMA HereIsNode ==
  ASSUME plan \in Plans, turn \in 1 .. Len(plan.order)
  PROVE  Here \in Node
  BY PlanFacts DEF Here

\* What else holds of the run: what is still to be removed and to be deployed.
RunInv ==
  /\ Running /\ at # "turn" => todo \subseteq Wanted(Here) /\ stale \cap Wanted(Here) = {}
  /\ at # "clean" => stale = {}
  /\ at = "turn" => todo = {}
  /\ at \in {"wipe", "wire", "up", "await"} => \E n \in todo : First(n)
  /\ phase = "etcd" => todo \subseteq {"etcd"} /\ at \notin {"clean", "wipe"}
  /\ at = "wipe" => First("pgsql-cluster") /\ IsPrimary(Here)
  /\ at # "turn" => Running

LEMMA Ends ==
  ASSUME RunTypes, plan' = plan \/ plan' \in Plans, Forgotten,
         phase' \in {"off", "etcd", "hosts", "ok"}, quota' \in 0 .. Quota, given' \subseteq Clustered
  PROVE  RunTypes' /\ RunInv'
<1>1. plan' \in Plans
  BY DEF RunTypes
<1>2. Len(plan'.order) \in Nat
  BY <1>1, PlanFacts
<1>3. turn' = 1 /\ at' = "turn" /\ stale' = {} /\ todo' = {} /\ force' = FALSE /\ wipes' = {}
  BY DEF Forgotten
<1>4. turn' \in 1 .. Len(plan'.order) + 1
  BY <1>2, <1>3
<1>5. RunTypes'
  BY <1>1, <1>3, <1>4 DEF RunTypes
<1>6. RunInv'
  BY <1>3 DEF RunInv
<1>. QED
  BY <1>5, <1>6

\* A fault is counted, or nothing is.
LEMMA QuotaHolds ==
  ASSUME quota \in 0 .. Quota, Fault \/ UNCHANGED quota
  PROVE  quota' \in 0 .. Quota
  BY ServicesAssumption DEF Fault

LEMMA RunHolds ==
  ASSUME RunTypes, RunInv, [ServicesNext]_svcVars
  PROVE  RunTypes' /\ RunInv'
<1>. DEFINE Still == UNCHANGED <<plan, turn>>
<1>1. Still => Here' = Here /\ Wanted(Here)' = Wanted(Here)
  BY DEF Here, Wanted
<1>2. Len(plan.order) \in Nat /\ quota \in 0 .. Quota /\ plan \in Plans /\ given \subseteq Clustered
  BY PlanFacts DEF RunTypes
<1>3. at # "turn" => Here \in Node
  BY HereIsNode DEF RunTypes, RunInv
<1>4. ASSUME Forgotten, UNCHANGED given, UNCHANGED plan, Fault \/ UNCHANGED quota,
             phase' \in {"off", "etcd", "hosts", "ok"}
      PROVE  RunTypes' /\ RunInv'
  BY <1>2, <1>4, QuotaHolds, Ends
<1>5. ASSUME NEW p \in Plans, StartServices(p) PROVE RunTypes' /\ RunInv'
  <2>1. Forgotten /\ plan' \in Plans /\ phase' = "etcd" /\ quota' = quota /\ given' = {}
    BY <1>5 DEF StartServices
  <2>. QED
    BY <1>2, <2>1, Ends
<1>6. ASSUME NEW h \in Node, PushApp(h) PROVE RunTypes' /\ RunInv'
  <2>1. phase' = "off" /\ UNCHANGED <<plan, turn, at, stale, todo, force, wipes, quota, given>> /\ ~Running
    BY <1>6 DEF PushApp
  <2>2. at = "turn"
    BY <2>1 DEF RunInv
  <2>. QED
    BY <2>1, <2>2 DEF RunTypes, RunInv
<1>7. CASE TakeTurn
  <2>1. turn \in 1 .. Len(plan.order) /\ at = "turn"
    BY <1>2, <1>7 DEF TakeTurn, RunTypes
  <2>2. Here \in Node
    BY <1>2, <2>1, HereIsNode
  <2>3. Wanted(Here) \subseteq Service /\ Leftover(Here) \subseteq Name /\ FleetEtcd(Here) \subseteq Service
        /\ FleetEtcd(Here) \subseteq {"etcd"} /\ FleetEtcd(Here) \subseteq Wanted(Here)
        /\ Leftover(Here) \cap Wanted(Here) = {}
    BY DEF Wanted, WantedBy, Leftover, FleetEtcd
  <2>4. UNCHANGED <<plan, phase, force, wipes, quota, given>> /\ Running
    BY <1>7 DEF TakeTurn
  <2>5. CASE phase = "etcd" /\ at' = "next" /\ todo' = FleetEtcd(Here) /\ UNCHANGED <<turn, stale>>
    <3>1. stale = {} /\ Wanted(Here)' = Wanted(Here)
      BY <1>1, <2>1, <2>4, <2>5 DEF RunInv
    <3>2. RunTypes'
      BY <1>2, <2>1, <2>3, <2>4, <2>5, <3>1 DEF RunTypes
    <3>3. RunInv'
      BY <2>1, <2>3, <2>4, <2>5, <3>1 DEF RunInv
    <3>. QED
      BY <3>2, <3>3
  <2>6. CASE phase = "hosts" /\ at' = "clean" /\ todo' = Wanted(Here) /\ stale' = Leftover(Here) /\ UNCHANGED turn
    <3>1. Wanted(Here)' = Wanted(Here)
      BY <1>1, <2>4, <2>6
    <3>2. RunTypes'
      BY <1>2, <2>1, <2>3, <2>4, <2>6 DEF RunTypes
    <3>3. RunInv'
      BY <2>1, <2>3, <2>4, <2>6, <3>1 DEF RunInv
    <3>. QED
      BY <3>2, <3>3
  <2>7. CASE phase = "hosts" /\ turn' = turn + 1 /\ UNCHANGED <<at, todo, stale>>
    <3>1. RunTypes'
      BY <1>2, <2>1, <2>4, <2>7 DEF RunTypes
    <3>2. RunInv'
      BY <2>1, <2>4, <2>7 DEF RunInv
    <3>. QED
      BY <3>1, <3>2
  <2>. QED
    BY <1>7, <2>5, <2>6, <2>7 DEF TakeTurn
<1>8. CASE EndTurn
  <2>1. UNCHANGED <<plan, phase, stale, todo, force, wipes, quota, given>> /\ at' = "turn" /\ turn' = turn + 1
        /\ todo = {} /\ at = "next" /\ Running
    BY <1>8 DEF EndTurn
  <2>2. RunTypes'
    BY <1>2, <2>1 DEF RunTypes
  <2>3. RunInv'
    BY <2>1 DEF RunInv
  <2>. QED
    BY <2>2, <2>3
<1>9. CASE EtcdDone
  BY <1>4, <1>9 DEF EtcdDone
<1>10. CASE ServicesDone
  BY <1>4, <1>10 DEF ServicesDone
<1>11. CASE Cleaned
  <2>1. UNCHANGED <<plan, phase, turn, stale, todo, force, wipes, quota, given>> /\ at' = "next" /\ at = "clean"
        /\ stale = {} /\ Running
    BY <1>11 DEF Cleaned
  <2>2. Wanted(Here)' = Wanted(Here)
    BY <1>1, <2>1
  <2>. QED
    BY <1>2, <2>1, <2>2 DEF RunTypes, RunInv
<1>12. CASE Wiped
  <2>1. UNCHANGED <<plan, phase, turn, stale, todo, force, wipes, quota, given>> /\ at' = "wire" /\ at = "wipe"
        /\ Running
    BY <1>12 DEF Wiped
  <2>2. Wanted(Here)' = Wanted(Here) /\ (\A n : First(n)' <=> First(n))
    BY <1>1, <2>1 DEF First
  <2>. QED
    BY <1>2, <2>1, <2>2 DEF RunTypes, RunInv, First
<1>13. CASE NothingToRun
  BY <1>4, <1>13 DEF NothingToRun, ServicesFail
<1>14. ASSUME NEW n \in Name, Uninstall(n) PROVE RunTypes' /\ RunInv'
  <2>1. UNCHANGED <<plan, phase, turn, at, todo, force, wipes>> /\ at = "clean" /\ stale' = stale \ {n}
        /\ given' \subseteq Clustered /\ Running
    BY <1>2, <1>14 DEF Uninstall
  <2>2. quota' \in 0 .. Quota
    BY <1>2, <1>14, QuotaHolds DEF Uninstall
  <2>3. Wanted(Here)' = Wanted(Here)
    BY <1>1, <2>1
  <2>. QED
    BY <2>1, <2>2, <2>3 DEF RunTypes, RunInv
<1>15. ASSUME NEW n \in Name, Upload(n) PROVE RunTypes' /\ RunInv'
  <2>1. UNCHANGED <<plan, phase, turn, stale, todo, quota, given>> /\ at = "next" /\ First(n) /\ Running
        /\ at' = (IF WipesFirst(n) THEN "wipe" ELSE "wire") /\ wipes' = (IF WipesFirst(n) THEN Node ELSE {})
    BY <1>15 DEF Upload
  <2>2. force' \in BOOLEAN
    BY <1>15 DEF Upload, Differs
  <2>3. phase = "etcd" => ~WipesFirst(n)
    BY <2>1 DEF RunInv, First, WipesFirst
  <2>4. Wanted(Here)' = Wanted(Here) /\ First(n)' /\ n \in todo'
    BY <1>1, <2>1 DEF First
  <2>5. WipesFirst(n) => n = "pgsql-cluster" /\ IsPrimary(Here)'
    BY <1>1, <2>1 DEF WipesFirst, IsPrimary, PgNodes
  <2>6. RunTypes'
    BY <2>1, <2>2 DEF RunTypes
  <2>7. RunInv'
    BY <2>1, <2>3, <2>4, <2>5 DEF RunInv
  <2>. QED
    BY <2>6, <2>7
<1>16. ASSUME NEW n \in Name, WireService(n) PROVE RunTypes' /\ RunInv'
  <2>1. UNCHANGED <<plan, phase, turn, stale, todo, force, wipes, quota, given>> /\ at = "wire" /\ First(n)
        /\ Running /\ at' = "up"
    BY <1>16 DEF WireService
  <2>2. Wanted(Here)' = Wanted(Here) /\ First(n)' /\ n \in todo'
    BY <1>1, <2>1 DEF First
  <2>. QED
    BY <2>1, <2>2 DEF RunTypes, RunInv
<1>17. ASSUME NEW n \in Name, ComposeUp(n) PROVE RunTypes' /\ RunInv'
  <2>1. UNCHANGED <<plan, phase, turn, stale, todo, force, wipes, quota>> /\ at = "up" /\ First(n)
        /\ Running /\ at' = "await" /\ given' \subseteq Clustered
    BY <1>2, <1>17 DEF ComposeUp
  <2>2. Wanted(Here)' = Wanted(Here) /\ First(n)' /\ n \in todo'
    BY <1>1, <2>1 DEF First
  <2>. QED
    BY <2>1, <2>2 DEF RunTypes, RunInv
<1>18. ASSUME NEW n \in Name, AwaitService(n) PROVE RunTypes' /\ RunInv'
  <2>1. UNCHANGED <<plan, phase, turn, stale, wipes, quota, given>> /\ at = "await" /\ Running /\ at' = "next"
        /\ todo' = todo \ {n} /\ force' = FALSE
    BY <1>18 DEF AwaitService
  <2>2. Wanted(Here)' = Wanted(Here)
    BY <1>1, <2>1
  <2>. QED
    BY <2>1, <2>2 DEF RunTypes, RunInv
<1>19. ASSUME NEW n \in Name, AwaitFails(n) PROVE RunTypes' /\ RunInv'
  BY <1>4, <1>19 DEF AwaitFails, ServicesFail
<1>20. ASSUME NEW h \in Node, Wipe(h) PROVE RunTypes' /\ RunInv'
  <2>1. UNCHANGED <<plan, phase, turn, at, stale, todo, force, quota, given>> /\ at = "wipe" /\ Running
        /\ wipes' = wipes \ {h}
    BY <1>20 DEF Wipe
  <2>2. Wanted(Here)' = Wanted(Here) /\ (IsPrimary(Here)' <=> IsPrimary(Here))
    BY <1>1, <2>1 DEF IsPrimary, PgNodes
  <2>. QED
    BY <2>1, <2>2 DEF RunTypes, RunInv, First
<1>21. CASE BreakOff
  BY <1>4, <1>21 DEF BreakOff, ServicesFail
<1>22. ASSUME NEW n \in Service, UploadBreaks(n) PROVE RunTypes' /\ RunInv'
  BY <1>4, <1>22 DEF UploadBreaks, ServicesFail
<1>23. CASE UNCHANGED svcVars
  <2>1. UNCHANGED <<plan, phase, turn, at, stale, todo, force, wipes, quota, given>>
    BY <1>23
  <2>2. Wanted(Here)' = Wanted(Here) /\ (IsPrimary(Here)' <=> IsPrimary(Here))
    BY <1>1, <2>1 DEF IsPrimary, PgNodes
  <2>. QED
    BY <2>1, <2>2 DEF RunTypes, RunInv, First
<1>. QED
  BY <1>5, <1>6, <1>7, <1>8, <1>9, <1>10, <1>11, <1>12, <1>13, <1>14, <1>15, <1>16, <1>17, <1>18,
     <1>19, <1>20, <1>21, <1>22, <1>23
     DEF ServicesNext, ServicesStep, ServiceStep

LEMMA HostsHold ==
  ASSUME HostTypes, RunTypes, RunInv, [ServicesNext]_svcVars
  PROVE  HostTypes'
<1>1. at # "turn" => Here \in Node
  BY HereIsNode DEF RunTypes, RunInv
<1>2. ASSUME NEW n \in todo, Here \in Node
      PROVE  n \in Service /\ plan.wants[Here][n] \in Version \cup {Absent}
  BY <1>2, PlanFacts DEF RunTypes
<1>3. \A hs : \A n \in Name : \A v \in Version \cup {Absent} :
        SetRunning(hs, n, v) => proc' \in [Node -> [Name -> Version \cup {Absent}]]
  BY SetsRunning DEF HostTypes
<1>4. ASSUME NEW h \in Node, PushApp(h) PROVE HostTypes'
  <2>1. (CHOOSE v \in Version : TRUE) \in Version
    BY ServicesAssumption
  <2>. QED
    BY <1>4, <2>1 DEF PushApp, Name, HostTypes
<1>5. ASSUME NEW n \in Name, Uninstall(n) PROVE HostTypes'
  <2>1. Here \in Node
    BY <1>1, <1>5 DEF Uninstall
  <2>2. proc' \in [Node -> [Name -> Version \cup {Absent}]]
    <3>1. UNCHANGED proc \/ SetRunning(Spread(Here, n), n, Absent)
      BY <1>5 DEF Uninstall
    <3>. QED
      BY <1>3, <3>1 DEF HostTypes
  <2>3. conf' \in [Node -> [Name -> Version \cup {Absent, Partial}]]
    <3>1. conf' = [conf EXCEPT ![Here][n] = Absent] \/ conf' = conf
      BY <1>5 DEF Uninstall
    <3>2. conf \in [Node -> [Name -> Version \cup {Absent, Partial}]]
      BY DEF HostTypes
    <3>3. [conf EXCEPT ![Here][n] = Absent] \in [Node -> [Name -> Version \cup {Absent, Partial}]]
      BY <1>5, <2>1, <3>2
    <3>. QED
      BY <3>1, <3>2, <3>3
  <2>4. timers' \in [Node -> SUBSET Timed]
    <3>1. timers' = [timers EXCEPT ![Here] = @ \ ({n} \cap {"nats"})] \/ timers' = timers
      BY <1>5 DEF Uninstall
    <3>. QED
      BY <2>1, <3>1 DEF HostTypes
  <2>5. botched' \subseteq Node \X Name
    <3>1. botched' = botched \ {<<Here, n>>} \/ botched' = botched \cup {<<Here, n>>}
      BY <1>5 DEF Uninstall
    <3>. QED
      BY <2>1, <3>1 DEF HostTypes
  <2>. QED
    BY <2>2, <2>3, <2>4, <2>5 DEF HostTypes
<1>6. ASSUME NEW n \in Name, Upload(n) PROVE HostTypes'
  <2>1. Here \in Node
    BY <1>1, <1>6 DEF Upload
  <2>2. plan.wants[Here][n] \in Version \cup {Absent}
    BY <1>2, <1>6, <2>1 DEF Upload, First
  <2>. QED
    BY <1>6, <2>1, <2>2 DEF Upload, HostTypes
<1>7. ASSUME NEW n \in Name, WireService(n) PROVE HostTypes'
  <2>1. Here \in Node
    BY <1>1, <1>7 DEF WireService
  <2>. QED
    BY <1>7, <2>1 DEF WireService, HostTypes
<1>8. ASSUME NEW n \in Name, ComposeUp(n) PROVE HostTypes'
  <2>1. Here \in Node
    BY <1>1, <1>8 DEF ComposeUp
  <2>2. plan.wants[Here][n] \in Version \cup {Absent}
    BY <1>2, <1>8, <2>1 DEF ComposeUp, First
  <2>. QED
    BY <1>3, <1>8, <2>2 DEF ComposeUp, HostTypes
<1>9. ASSUME NEW h \in Node, Wipe(h) PROVE HostTypes'
  <2>1. "pgsql-cluster" \in Name
    BY <1>9 DEF Wipe, RunInv, RunTypes, First, Name
  <2>. QED
    BY <1>3, <1>9, <2>1 DEF Wipe, HostTypes
<1>10. ASSUME NEW n \in Service, UploadBreaks(n) PROVE HostTypes'
  <2>1. Here \in Node /\ n \in Name
    BY <1>1, <1>10 DEF UploadBreaks, Name
  <2>. QED
    BY <1>10, <2>1 DEF UploadBreaks, HostTypes
<1>11. ASSUME UNCHANGED <<conf, proc, timers, botched>> PROVE HostTypes'
  BY <1>11 DEF HostTypes
<1>12. ASSUME (\E p \in Plans : StartServices(p)) \/ TakeTurn \/ EndTurn \/ EtcdDone \/ ServicesDone \/ Cleaned
              \/ Wiped \/ NothingToRun \/ (\E n \in Name : AwaitService(n) \/ AwaitFails(n)) \/ BreakOff
              \/ UNCHANGED svcVars
       PROVE  HostTypes'
  BY <1>11, <1>12 DEF StartServices, TakeTurn, EndTurn, EtcdDone, ServicesDone, Cleaned, Wiped, NothingToRun,
       AwaitService, AwaitFails, BreakOff
<1>. QED
  BY <1>4, <1>5, <1>6, <1>7, <1>8, <1>9, <1>10, <1>12 DEF ServicesNext, ServicesStep, ServiceStep

LEMMA RunStarts == ServicesInit => HostTypes /\ RunTypes /\ RunInv
<1>. SUFFICES ASSUME ServicesInit PROVE HostTypes /\ RunTypes /\ RunInv
  OBVIOUS
<1>1. plan \in Plans /\ Len(plan.order) \in Nat /\ Quota \in Nat
  BY PlanFacts, ServicesAssumption DEF ServicesInit
<1>2. HostTypes
  BY DEF ServicesInit, HostTypes
<1>3. RunTypes
  <2>1. /\ phase = "off" /\ turn = 1 /\ at = "turn" /\ stale = {} /\ todo = {} /\ force = FALSE
        /\ wipes = {} /\ quota = Quota /\ given = {}
    BY DEF ServicesInit
  <2>2. turn \in 1 .. Len(plan.order) + 1 /\ quota \in 0 .. Quota
    BY <1>1, <2>1
  <2>. QED
    BY <1>1, <2>1, <2>2 DEF RunTypes
<1>4. RunInv
  BY DEF ServicesInit, RunInv
<1>. QED
  BY <1>2, <1>3, <1>4

LEMMA RunAlways == ServicesSpec => [](HostTypes /\ RunTypes /\ RunInv)
<1>1. HostTypes /\ RunTypes /\ RunInv /\ [ServicesNext]_svcVars => (HostTypes /\ RunTypes /\ RunInv)'
  BY RunHolds, HostsHold
<1>. QED
  BY <1>1, RunStarts, PTL DEF ServicesSpec

\* Every variable of the services phase keeps its type, for any hosts, services,
\* fleet files and faults.
THEOREM ServicesTypes == ServicesSpec => []ServicesTypeOK
<1>1. HostTypes /\ RunTypes /\ RunInv => ServicesTypeOK
  BY DEF HostTypes, RunTypes, RunInv, ServicesTypeOK, First
<1>. QED
  BY <1>1, RunAlways, PTL

-------------------------------------------------------------------------------
(* The etcd first                                                            *)

EtcdUp(h) == "etcd" \in Wanted(h) => proc[h]["etcd"] # Absent

\* The hosts behind the turn of the first pass have theirs, and all hosts in the second.
EtcdInv ==
  /\ phase = "hosts" => \A h \in Node : EtcdUp(h)
  /\ phase = "etcd" => \A i \in 1 .. turn - 1 : EtcdUp(plan.order[i])
  /\ phase = "etcd" /\ (at = "await" \/ (at = "next" /\ todo = {})) => EtcdUp(Here)

\* During an apply nothing takes the etcd of a host that declares it.
LEMMA EtcdStays ==
  ASSUME HostTypes, RunTypes, RunInv, ServicesStep, Running, NEW h \in Node, "etcd" \in Wanted(h),
         proc[h]["etcd"] # Absent
  PROVE  proc'[h]["etcd"] # Absent
<1>1. "etcd" \in Name /\ "etcd" \in Service /\ "etcd" \notin Clustered
  BY DEF Wanted, WantedBy, Name, Clustered
<1>2. at # "turn" => Here \in Node
  BY HereIsNode DEF RunTypes, RunInv
<1>3. ASSUME NEW n \in Name, Uninstall(n) PROVE proc'[h]["etcd"] # Absent
  <2>1. Here \in Node /\ n \in stale /\ n \notin Wanted(Here)
    BY <1>2, <1>3 DEF Uninstall, RunInv
  <2>2. UNCHANGED proc \/ SetRunning(Spread(Here, n), n, Absent)
    BY <1>3 DEF Uninstall
  <2>3. n = "etcd" => h \notin Spread(Here, n)
    BY <1>1, <2>1 DEF Spread
  <2>. QED
    BY <1>1, <2>2, <2>3 DEF HostTypes, SetRunning
<1>4. ASSUME NEW n \in Name, ComposeUp(n) PROVE proc'[h]["etcd"] # Absent
  <2>1. Here \in Node /\ n \in Wanted(Here)
    BY <1>2, <1>4 DEF ComposeUp, First, RunInv
  <2>2. plan.wants[Here][n] \in Version /\ plan.wants[Here][n] # Absent
    BY <2>1, Wants DEF Wanted, RunTypes
  <2>3. UNCHANGED proc \/ SetRunning(Spread(Here, n), n, plan.wants[Here][n])
    BY <1>4 DEF ComposeUp
  <2>. QED
    BY <1>1, <2>2, <2>3 DEF HostTypes, SetRunning
<1>5. ASSUME NEW g \in Node, Wipe(g) PROVE proc'[h]["etcd"] # Absent
  <2>1. SetRunning({g}, "pgsql-cluster", Absent) /\ "pgsql-cluster" \in Name
    BY <1>5 DEF Wipe, RunInv, RunTypes, First, Name
  <2>. QED
    BY <1>1, <2>1 DEF HostTypes, SetRunning
<1>6. ASSUME UNCHANGED proc PROVE proc'[h]["etcd"] # Absent
  BY <1>6
<1>. QED
  BY <1>3, <1>4, <1>5, <1>6 DEF ServicesStep, ServiceStep, TakeTurn, EndTurn, EtcdDone, ServicesDone, Cleaned,
       Wiped, NothingToRun, Upload, WireService, AwaitService, AwaitFails

LEMMA EtcdHolds ==
  ASSUME HostTypes, RunTypes, RunInv, EtcdInv, [ServicesNext]_svcVars
  PROVE  EtcdInv'
<1>1. Len(plan.order) \in Nat /\ plan \in Plans /\ turn \in Nat
  BY PlanFacts DEF RunTypes
<1>2. ASSUME ServicesStep, Running, UNCHANGED plan, NEW h \in Node, EtcdUp(h) PROVE EtcdUp(h)'
  BY <1>2, EtcdStays DEF EtcdUp, Wanted
<1>3. ASSUME phase' \notin {"etcd", "hosts"} PROVE EtcdInv'
  BY <1>3 DEF EtcdInv
<1>4. ASSUME NEW p \in Plans, StartServices(p) PROVE EtcdInv'
  BY <1>4 DEF StartServices, Forgotten, EtcdInv
<1>5. ASSUME ServicesStep, Running, UNCHANGED <<plan, phase, turn>>,
             phase = "etcd" /\ (at' = "await" \/ (at' = "next" /\ todo' = {})) => EtcdUp(Here)'
      PROVE  EtcdInv'
  <2>1. \A i \in 1 .. turn - 1 : plan.order[i] \in Node
    BY <1>1, PlanFacts DEF RunTypes
  <2>. QED
    BY <1>2, <1>5, <2>1 DEF EtcdInv
<1>6. CASE TakeTurn
  <2>0. ServicesStep /\ Running /\ UNCHANGED <<plan, phase>>
    BY <1>6 DEF TakeTurn, ServicesStep
  <2>1. CASE phase = "etcd"
    <3>1. at' = "next" /\ todo' = FleetEtcd(Here) /\ UNCHANGED <<turn, proc>>
      BY <1>6, <2>1 DEF TakeTurn
    <3>2. todo' = {} => EtcdUp(Here)'
      BY <2>0, <3>1 DEF FleetEtcd, EtcdUp, Here, Wanted
    <3>. QED
      BY <1>5, <2>0, <3>1, <3>2
  <2>2. CASE phase = "hosts"
    BY <1>2, <2>0, <2>2 DEF EtcdInv
  <2>. QED
    BY <2>0, <2>1, <2>2
<1>7. CASE EndTurn
  <2>1. Running /\ at = "next" /\ todo = {} /\ turn' = turn + 1 /\ at' = "turn" /\ UNCHANGED <<plan, phase, proc>>
    BY <1>7 DEF EndTurn
  <2>2. phase = "etcd" => \A i \in 1 .. turn : EtcdUp(plan.order[i])
    BY <1>1, <2>1 DEF EtcdInv, Here
  <2>3. \A h : EtcdUp(h)' <=> EtcdUp(h)
    BY <2>1 DEF EtcdUp, Wanted
  <2>. QED
    BY <1>1, <2>1, <2>2, <2>3 DEF EtcdInv
<1>8. CASE EtcdDone
  <2>1. phase = "etcd" /\ turn = Len(plan.order) + 1 /\ UNCHANGED <<plan, proc>> /\ phase' = "hosts"
    BY <1>1, <1>8 DEF EtcdDone, RunTypes
  <2>2. \A h \in Node : EtcdUp(h)
    BY <1>1, <2>1, PlanFacts DEF EtcdInv
  <2>. QED
    BY <2>1, <2>2 DEF EtcdInv, EtcdUp, Wanted
<1>9. CASE Cleaned \/ Wiped \/ (\E n \in Name : Uninstall(n) \/ Upload(n) \/ WireService(n))
  <2>1. ServicesStep /\ Running /\ UNCHANGED <<plan, phase, turn>>
    BY <1>9 DEF ServicesStep, ServiceStep, Cleaned, Wiped, Uninstall, Upload, WireService
  <2>2. at' = "await" \/ at' = "next" => phase # "etcd"
    BY <1>9 DEF Cleaned, Wiped, Uninstall, Upload, WireService, RunInv
  <2>. QED
    BY <1>5, <2>1, <2>2
<1>10. ASSUME NEW n \in Name, ComposeUp(n) PROVE EtcdInv'
  <2>1. ServicesStep /\ Running /\ UNCHANGED <<plan, phase, turn, todo>> /\ at = "up" /\ First(n) /\ at' = "await"
    BY <1>10 DEF ServicesStep, ServiceStep, ComposeUp
  <2>2. ASSUME phase = "etcd" PROVE EtcdUp(Here)'
    <3>1. n = "etcd" /\ n \in Wanted(Here) /\ Here \in Node
      BY <2>1, <2>2, HereIsNode DEF RunInv, RunTypes, First
    <3>2. plan.wants[Here][n] \in Version /\ plan.wants[Here][n] # Absent
      BY <1>1, <3>1, Wants DEF Wanted
    <3>3. Takes(n)
      BY <3>1 DEF Takes, Plain, SeenByCompose, Latched
    <3>4. SetRunning(Spread(Here, n), n, plan.wants[Here][n]) /\ Here \in Spread(Here, n)
      BY <1>10, <3>1, <3>3 DEF ComposeUp, Spread, Careless
    <3>5. proc'[Here][n] = plan.wants[Here][n]
      BY <3>1, <3>2, <3>4 DEF HostTypes, Name, SetRunning
    <3>. QED
      BY <2>1, <3>1, <3>2, <3>5 DEF EtcdUp, Here
  <2>. QED
    BY <1>5, <2>1, <2>2
<1>11. ASSUME NEW n \in Name, AwaitService(n) PROVE EtcdInv'
  <2>1. ServicesStep /\ Running /\ UNCHANGED <<plan, phase, turn, proc>> /\ at = "await"
    BY <1>11 DEF ServicesStep, ServiceStep, AwaitService
  <2>2. phase = "etcd" => EtcdUp(Here)'
    BY <2>1 DEF EtcdInv, EtcdUp, Here, Wanted
  <2>. QED
    BY <1>5, <2>1, <2>2
<1>12. ASSUME NEW h \in Node, Wipe(h) PROVE EtcdInv'
  <2>1. ServicesStep /\ Running /\ UNCHANGED <<plan, phase, turn>> /\ at' = "wipe"
    BY <1>12 DEF ServicesStep, Wipe
  <2>. QED
    BY <1>5, <2>1
<1>13. CASE UNCHANGED svcVars
  <2>1. UNCHANGED <<plan, phase, turn, at, todo, proc>>
    BY <1>13
  <2>2. \A h : EtcdUp(h)' <=> EtcdUp(h)
    BY <2>1 DEF EtcdUp, Wanted
  <2>. QED
    BY <2>1, <2>2 DEF EtcdInv, Here
<1>14. CASE \/ ServicesDone \/ NothingToRun \/ BreakOff
            \/ (\E n \in Name : AwaitFails(n)) \/ (\E n \in Service : UploadBreaks(n))
            \/ (\E h \in Node : PushApp(h))
  BY <1>3, <1>14 DEF ServicesDone, NothingToRun, BreakOff, AwaitFails, UploadBreaks, PushApp, ServicesFail
<1>. QED
  BY <1>4, <1>6, <1>7, <1>8, <1>9, <1>10, <1>11, <1>12, <1>13, <1>14
     DEF ServicesNext, ServicesStep, ServiceStep

LEMMA EtcdAlways == ServicesSpec => [](HostTypes /\ RunTypes /\ RunInv /\ EtcdInv)
<1>1. ServicesInit => EtcdInv
  BY DEF ServicesInit, EtcdInv
<1>2. HostTypes /\ RunTypes /\ RunInv /\ EtcdInv /\ [ServicesNext]_svcVars => EtcdInv'
  BY EtcdHolds
<1>. QED
  BY <1>1, <1>2, RunAlways, PTL DEF ServicesSpec

\* Postgres is started on no host before the etcd of every host that declares it
\* runs, for any fleet file, whatever earlier applies left.
THEOREM EtcdComesFirst == ServicesSpec => EtcdBeforePostgres
<1>1. ASSUME HostTypes, RunTypes, RunInv, EtcdInv, [ServicesNext]_svcVars, NEW h \in PgNodes(plan),
             proc'[h]["pgsql-cluster"] \notin {Absent, proc[h]["pgsql-cluster"]}
      PROVE  \A g \in Node : "etcd" \in Wanted(g) => proc[g]["etcd"] # Absent
  <2>1. h \in Node /\ "pgsql-cluster" \in Service /\ "pgsql-cluster" \in Name
    BY <1>1 DEF PgNodes, WantedBy, Name
  <2>2. PICK n \in Name : \/ Uninstall(n) \/ ComposeUp(n)
                         \/ (\E g \in Node : PushApp(g)) \/ (\E g \in Node : Wipe(g))
    BY <1>1, <2>1 DEF ServicesNext, ServicesStep, ServiceStep, StartServices, TakeTurn, EndTurn, EtcdDone,
         ServicesDone, Cleaned, Wiped, NothingToRun, Upload, WireService, AwaitService, AwaitFails, BreakOff,
         UploadBreaks
  <2>3. CASE Uninstall(n)
    <3>1. UNCHANGED proc \/ SetRunning(Spread(Here, n), n, Absent)
      BY <2>3 DEF Uninstall
    <3>. QED
      BY <1>1, <2>1, <3>1 DEF HostTypes, SetRunning
  <2>4. CASE \E g \in Node : PushApp(g)
    BY <1>1, <2>1, <2>4, ServicesAssumption DEF PushApp, HostTypes
  <2>5. CASE \E g \in Node : Wipe(g)
    BY <1>1, <2>1, <2>5 DEF Wipe, HostTypes, SetRunning
  <2>6. CASE ComposeUp(n)
    <3>1. Running /\ n \in todo
      BY <2>6 DEF ComposeUp, First
    <3>2. n \in Wanted(Here) /\ Here \in Node
      BY <1>1, <2>6, <3>1, HereIsNode DEF RunInv, RunTypes, ComposeUp
    <3>3. plan.wants[Here][n] \in Version
      BY <1>1, <3>2, Wants DEF Wanted, RunTypes
    <3>4. UNCHANGED proc \/ SetRunning(Spread(Here, n), n, plan.wants[Here][n])
      BY <2>6 DEF ComposeUp
    <3>5. n = "pgsql-cluster"
      BY <1>1, <2>1, <3>3, <3>4 DEF HostTypes, SetRunning
    <3>6. phase = "hosts"
      BY <1>1, <3>1, <3>5 DEF RunInv
    <3>. QED
      BY <1>1, <3>6 DEF EtcdInv, EtcdUp
  <2>. QED
    BY <2>2, <2>3, <2>4, <2>5, <2>6
<1>2. HostTypes /\ RunTypes /\ RunInv /\ EtcdInv /\ [ServicesNext]_svcVars =>
        [\A h \in PgNodes(plan) :
           proc'[h]["pgsql-cluster"] \notin {Absent, proc[h]["pgsql-cluster"]} =>
             \A g \in Node : "etcd" \in Wanted(g) => proc[g]["etcd"] # Absent]_svcVars
  BY <1>1
<1>. QED
  BY <1>2, EtcdAlways, PTL DEF ServicesSpec, EtcdBeforePostgres

\* An apply of a file that can be deployed ends in an error only by a fault of its
\* own, or for a postgres of an earlier apply that leads elsewhere: the quorum that
\* the primary waits for is there, the etcd of every member having been started first.
THEOREM ApplyFailsOnlyByFault == ServicesSpec => FailsOnlyByFault
<1>1. ASSUME HostTypes, RunTypes, RunInv, EtcdInv, [ServicesNext]_svcVars,
             Running, phase' = "off", quota' = quota, Deployable, ~(at = "await" /\ LedElsewhere)
      PROVE  FALSE
  <2>1. quota \in Int
    BY <1>1 DEF RunTypes
  <2>2. NothingToRun \/ (\E n \in Name : AwaitFails(n))
    <3>1. ~(phase' \in {"etcd", "hosts", "ok"}) /\ phase' # phase /\ Running
      BY <1>1
    <3>2. ~BreakOff /\ ~(\E n \in Service : UploadBreaks(n))
      BY <1>1, <2>1 DEF BreakOff, UploadBreaks, Fault
    <3>3. ~TakeTurn /\ ~EndTurn /\ ~EtcdDone /\ ~ServicesDone /\ ~Cleaned /\ ~Wiped
      BY <3>1 DEF TakeTurn, EndTurn, EtcdDone, ServicesDone, Cleaned, Wiped
    <3>4. \A n : ~(Uninstall(n) \/ Upload(n) \/ WireService(n) \/ ComposeUp(n) \/ AwaitService(n) \/ Wipe(n))
      BY <3>1 DEF Uninstall, Upload, WireService, ComposeUp, AwaitService, Wipe
    <3>5. ~(\E p \in Plans : StartServices(p)) /\ ~(\E h \in Node : PushApp(h))
      BY <3>1 DEF StartServices, PushApp
    <3>6. ~UNCHANGED svcVars
      BY <3>1
    <3>. QED
      BY <1>1, <3>2, <3>3, <3>4, <3>5, <3>6 DEF ServicesNext, ServicesStep, ServiceStep
  <2>3. CASE NothingToRun
    <3>1. "yuga-cluster" \in Wanted(Here) /\ Here \in Node
      BY <1>1, <2>3, HereIsNode DEF NothingToRun, First, RunInv, RunTypes
    <3>. QED
      BY <1>1, <3>1 DEF Deployable
  <2>4. ASSUME NEW n \in Name, AwaitFails(n) PROVE FALSE
    <3>1. at = "await" /\ n \in todo /\ ~Settles(n) /\ n \in Wanted(Here) /\ Here \in Node
      BY <1>1, <2>4, HereIsNode DEF AwaitFails, First, RunInv, RunTypes
    <3>2. n \in Composed => Here \in plan.admits
      BY <1>1, <3>1 DEF Deployable
    <3>3. n = "pgsql-cluster" /\ ~EtcdQuorum
      BY <3>1, <3>2 DEF Settles
    <3>4. Here \in PgNodes(plan) /\ phase = "hosts"
      BY <1>1, <3>1, <3>3 DEF PgNodes, Wanted, RunInv
    <3>5. EtcdNodes(plan) # {} /\ \A h \in EtcdNodes(plan) : h \in Node /\ "etcd" \in Wanted(h)
      BY <1>1, <3>4 DEF Deployable, EtcdNodes
    <3>6. \A h \in EtcdNodes(plan) : EtcdRuns(h)
      BY <1>1, <3>4, <3>5 DEF EtcdInv, EtcdUp, EtcdRuns, Wanted, WantedBy
    <3>7. {h \in EtcdNodes(plan) : EtcdRuns(h)} = EtcdNodes(plan)
      BY <3>6
    <3>8. IsFiniteSet(EtcdNodes(plan))
      BY ServicesAssumption, FS_Subset DEF EtcdNodes
    <3>9. Cardinality(EtcdNodes(plan)) \in Nat /\ Cardinality(EtcdNodes(plan)) # 0
      BY <3>5, <3>8, FS_CardinalityType, FS_EmptySet
    <3>. QED
      BY <3>3, <3>7, <3>9 DEF EtcdQuorum
  <2>. QED
    BY <2>2, <2>3, <2>4
<1>. QED
  BY <1>1, EtcdAlways, PTL DEF ServicesSpec, FailsOnlyByFault

-------------------------------------------------------------------------------
(* What an apply leaves                                                      *)

LEMMA FirstIsOne ==
  ASSUME todo \subseteq Service, NEW n, NEW m, First(n), First(m)
  PROVE  n = m
<1>1. \A k \in Service : \E i \in DOMAIN Queue : Queue[i] = k
  BY ServicesAssumption
<1>2. \A k \in Service : Rank(k) \in DOMAIN Queue /\ Queue[Rank(k)] = k
  BY <1>1 DEF Rank
<1>3. DOMAIN Queue \subseteq Int
  BY DEF Queue
<1>4. Rank(n) <= Rank(m) /\ Rank(m) <= Rank(n) /\ n \in Service /\ m \in Service
  BY DEF First
<1>. QED
  BY <1>2, <1>3, <1>4

\* A host behind the turn, and the one whose turn it is for what has been deployed
\* there, runs what the file declares, but for the exceptions of ServedAsDeclared.
AsDeclared(h, n) == \/ n \in given
                    \/ n \in Latched /\ (n \in Careless \/ proc[h][n] # Absent)
                    \/ n \in Clustered /\ ~Agreed(n)
                    \/ proc[h][n] = plan.wants[h][n]

Deployed(n) == /\ at \notin {"turn", "clean"}
               /\ n \notin todo \/ (at = "await" /\ First(n))

Served == phase = "hosts" => \A i \in 1 .. Len(plan.order) : \A n \in Wanted(plan.order[i]) :
            i < turn \/ (i = turn /\ Deployed(n)) => AsDeclared(plan.order[i], n)

\* Nothing is deployed on a host before its leftovers are gone; the containers whose
\* configuration cannot be compared are recreated.
Recreated == /\ at = "clean" => Wanted(Here) \subseteq todo
             /\ at \in {"wipe", "wire", "up"} => \A n \in Salted \cup Unnamed : First(n) => force

ServedInv == Served /\ Recreated

\* What a step must show when the turn stays where it is.
LEMMA ServedStays ==
  ASSUME RunTypes, Served, UNCHANGED <<plan, phase, turn>>, phase = "hosts" => at # "turn",
         \A n \in Wanted(Here) : Deployed(n)' => Deployed(n) \/ AsDeclared(Here, n)',
         \A h \in Node : \A n \in Wanted(h) : AsDeclared(h, n) => AsDeclared(h, n)'
  PROVE  Served'
<1>1. \A i \in 1 .. Len(plan.order) : plan.order[i] \in Node
  BY PlanFacts DEF RunTypes
<1>2. \A h : Wanted(h)' = Wanted(h)
  BY DEF Wanted
<1>. QED
  BY <1>1, <1>2 DEF Served, Here

LEMMA RecreatedStays ==
  ASSUME RunTypes, RunInv, Recreated, [ServicesNext]_svcVars
  PROVE  Recreated'
<1>1. ASSUME at' \notin {"clean", "wipe", "wire", "up"} PROVE Recreated'
  BY <1>1 DEF Recreated
<1>2. ASSUME UNCHANGED <<plan, turn, at, todo, force>> PROVE Recreated'
  <2>1. Wanted(Here)' = Wanted(Here) /\ \A n : First(n)' <=> First(n)
    BY <1>2 DEF Wanted, Here, First
  <2>. QED
    BY <1>2, <2>1 DEF Recreated
<1>3. CASE TakeTurn
  <2>1. CASE at' = "clean"
    <3>1. todo' = Wanted(Here) /\ UNCHANGED <<plan, turn>>
      BY <1>3, <2>1 DEF TakeTurn
    <3>. QED
      BY <2>1, <3>1 DEF Recreated, Wanted, Here
  <2>2. CASE at' # "clean"
    <3>1. at' \in {"next", "turn"}
      BY <1>3, <2>2 DEF TakeTurn
    <3>. QED
      BY <1>1, <3>1
  <2>. QED
    BY <2>1, <2>2
<1>4. CASE EndTurn \/ EtcdDone \/ ServicesDone \/ Cleaned
  BY <1>1, <1>4 DEF EndTurn, EtcdDone, ServicesDone, Cleaned, Forgotten
<1>5. CASE BreakOff \/ NothingToRun \/ (\E n \in Service : UploadBreaks(n)) \/ (\E p \in Plans : StartServices(p))
  BY <1>1, <1>5 DEF BreakOff, NothingToRun, UploadBreaks, StartServices, ServicesFail, Forgotten
<1>6. ASSUME NEW n \in Name, Uninstall(n) \/ AwaitFails(n) \/ AwaitService(n) \/ ComposeUp(n) PROVE Recreated'
  BY <1>1, <1>2, <1>6 DEF Uninstall, AwaitFails, AwaitService, ComposeUp, ServicesFail, Forgotten
<1>7. CASE Wiped \/ (\E n \in Name : WireService(n)) \/ (\E h \in Node : Wipe(h))
  <2>1. UNCHANGED <<todo, force>> /\ at \in {"wipe", "wire"} /\ at' \in {"wipe", "wire", "up"}
    BY <1>7 DEF Wiped, WireService, Wipe
  <2>2. \A n : First(n)' <=> First(n)
    BY <2>1 DEF First
  <2>. QED
    BY <2>1, <2>2 DEF Recreated
<1>8. ASSUME NEW n \in Name, Upload(n) PROVE Recreated'
  <2>1. First(n) /\ todo' = todo /\ todo \subseteq Service /\ at' \in {"wipe", "wire"}
    BY <1>8 DEF Upload, RunTypes
  <2>2. \A m : First(m)' => m = n
    BY <2>1, FirstIsOne DEF First
  <2>3. n \in Salted \cup Unnamed => force'
    BY <1>8 DEF Upload, Differs, Salted, Unnamed, Compared
  <2>. QED
    BY <2>1, <2>2, <2>3 DEF Recreated
<1>9. ASSUME NEW h \in Node, PushApp(h) PROVE Recreated'
  BY <1>2, <1>9 DEF PushApp
<1>10. CASE UNCHANGED svcVars
  BY <1>2, <1>10
<1>. QED
  BY <1>3, <1>4, <1>5, <1>6, <1>7, <1>8, <1>9, <1>10 DEF ServicesNext, ServicesStep, ServiceStep

LEMMA ServedHolds ==
  ASSUME HostTypes, RunTypes, RunInv, ServedInv, [ServicesNext]_svcVars
  PROVE  Served'
<1>. USE DEF ServedInv
<1>0. /\ plan \in Plans /\ Len(plan.order) \in Nat /\ turn \in Nat /\ todo \subseteq Service
      /\ \A i \in 1 .. Len(plan.order) : plan.order[i] \in Node
      /\ at # "turn" => Here \in Node /\ turn \in 1 .. Len(plan.order)
  BY PlanFacts, HereIsNode DEF RunTypes, RunInv
<1>1. ASSUME phase' # "hosts" PROVE Served'
  BY <1>1 DEF Served
<1>2. ASSUME UNCHANGED <<plan, proc, given>>, NEW h, NEW n PROVE AsDeclared(h, n)' <=> AsDeclared(h, n)
  BY <1>2 DEF AsDeclared, Agreed, Wanted
<1>3. ASSUME UNCHANGED plan, NEW h PROVE Wanted(h)' = Wanted(h)
  BY <1>3 DEF Wanted
<1>4. CASE TakeTurn
  <2>1. UNCHANGED <<plan, proc, given, phase>> /\ at = "turn"
    BY <1>4 DEF TakeTurn
  <2>2. CASE turn' = turn
    <3>1. phase = "hosts" => at' = "clean"
      BY <1>0, <1>4, <2>2 DEF TakeTurn
    <3>2. phase = "hosts" => \A n : ~Deployed(n)'
      BY <3>1 DEF Deployed
    <3>. QED
      BY <1>2, <1>3, <2>1, <2>2, <3>2 DEF Served
  <2>3. CASE turn' # turn
    <3>1. turn' = turn + 1 /\ at' = "turn" /\ Wanted(Here) = {}
      BY <1>4, <2>1, <2>3 DEF TakeTurn
    <3>2. \A n : ~Deployed(n)'
      BY <3>1 DEF Deployed
    <3>3. \A i \in 1 .. Len(plan.order) : i < turn' => i < turn \/ Wanted(plan.order[i]) = {}
      BY <1>0, <3>1 DEF Here
    <3>. QED
      BY <1>2, <1>3, <2>1, <3>2, <3>3 DEF Served
  <2>. QED
    BY <2>2, <2>3
<1>5. CASE EndTurn
  <2>1. UNCHANGED <<plan, proc, given, phase>> /\ at = "next" /\ todo = {} /\ at' = "turn" /\ turn' = turn + 1
    BY <1>5 DEF EndTurn
  <2>2. \A n : Deployed(n)
    BY <2>1 DEF Deployed
  <2>3. \A i \in 1 .. Len(plan.order) : i < turn' => i < turn \/ i = turn
    BY <1>0, <2>1
  <2>4. \A n : ~Deployed(n)'
    BY <2>1 DEF Deployed
  <2>. QED
    BY <1>2, <1>3, <2>1, <2>2, <2>3, <2>4 DEF Served
<1>6. CASE EtcdDone
  <2>1. turn' = 1 /\ at' = "turn"
    BY <1>6 DEF EtcdDone, Forgotten
  <2>2. \A i \in 1 .. Len(plan'.order) : ~(i < turn')
    BY <2>1
  <2>. QED
    BY <2>1, <2>2 DEF Served, Deployed
<1>7. CASE ServicesDone \/ BreakOff \/ NothingToRun \/ (\E n \in Service : UploadBreaks(n))
           \/ (\E p \in Plans : StartServices(p)) \/ (\E n \in Name : AwaitFails(n)) \/ (\E h \in Node : PushApp(h))
  BY <1>1, <1>7 DEF ServicesDone, BreakOff, NothingToRun, UploadBreaks, StartServices, AwaitFails, PushApp,
                    ServicesFail
<1>8. CASE Cleaned \/ Wiped \/ (\E n \in Name : Upload(n) \/ WireService(n))
  <2>1. UNCHANGED <<plan, proc, given, phase, turn, todo>> /\ at # "turn" /\ at' \in {"next", "wipe", "wire", "up"}
    BY <1>8 DEF Cleaned, Wiped, Upload, WireService
  <2>2. ASSUME NEW n \in Wanted(Here), Deployed(n)' PROVE Deployed(n)
    <3>1. n \notin todo
      BY <2>1, <2>2 DEF Deployed
    <3>. QED
      BY <2>1, <3>1 DEF Deployed, Recreated
  <2>3. \A h \in Node : \A n \in Wanted(h) : AsDeclared(h, n) => AsDeclared(h, n)'
    BY <1>2, <2>1
  <2>. QED
    BY <2>1, <2>2, <2>3, ServedStays
<1>9. ASSUME NEW n \in Name, Uninstall(n) PROVE Served'
  <2>1. /\ UNCHANGED <<plan, phase, turn, at, todo>> /\ at = "clean" /\ n \in stale /\ given' = given \cup ({n} \cap Clustered)
        /\ UNCHANGED proc \/ SetRunning(Spread(Here, n), n, Absent)
    BY <1>9 DEF Uninstall
  <2>2. n \notin Wanted(Here)
    BY <1>9, <2>1 DEF RunInv
  <2>3. ASSUME NEW h \in Node, NEW m \in Wanted(h), AsDeclared(h, m) PROVE AsDeclared(h, m)'
    <3>1. m \in Name
      BY DEF Wanted, WantedBy, Name
    <3>2. Agreed(m)' <=> Agreed(m)
      BY <2>1 DEF Agreed, Wanted
    <3>3. CASE m = n /\ n \in Clustered
      BY <2>1, <3>3 DEF AsDeclared
    <3>4. CASE m # n \/ n \notin Clustered
      <4>1. m # n \/ h \notin Spread(Here, n)
        BY <2>2, <3>4 DEF Spread
      <4>2. proc'[h][m] = proc[h][m]
        BY <2>1, <3>1, <4>1 DEF SetRunning, HostTypes
      <4>. QED
        BY <2>1, <2>3, <3>2, <4>2 DEF AsDeclared
    <3>. QED
      BY <3>3, <3>4
  <2>4. \A m : Deployed(m)' => Deployed(m)
    BY <2>1 DEF Deployed
  <2>. QED
    BY <2>1, <2>3, <2>4, ServedStays
<1>10. ASSUME NEW g \in Node, Wipe(g) PROVE Served'
  <2>1. /\ UNCHANGED <<plan, phase, turn, at, todo, given>> /\ at = "wipe" /\ SetRunning({g}, "pgsql-cluster", Absent)
    BY <1>10 DEF Wipe
  <2>2. First("pgsql-cluster") /\ IsPrimary(Here) /\ "pgsql-cluster" \in Name
    BY <1>0, <2>1 DEF RunInv, First, Name
  <2>3. ASSUME NEW i \in 1 .. Len(plan.order), NEW m \in Wanted(plan.order[i]), i < turn \/ (i = turn /\ Deployed(m))
        PROVE  m # "pgsql-cluster"
    <3>1. CASE i = turn /\ Deployed(m)
      BY <2>1, <2>2, <3>1 DEF Deployed, First
    <3>2. CASE i < turn
      <4>1. Place(plan, plan.order[i]) = i /\ Place(plan, Here) = turn
        BY <1>0, <2>1, PlaceIs DEF Here
      <4>2. plan.order[i] \notin PgNodes(plan)
        BY <1>0, <2>2, <3>2, <4>1 DEF IsPrimary
      <4>. QED
        BY <1>0, <4>2 DEF PgNodes, Wanted
    <3>. QED
      BY <2>3, <3>1, <3>2
  <2>4. \A h \in Node, m \in Name : m # "pgsql-cluster" => proc'[h][m] = proc[h][m]
    BY <2>1, <2>2 DEF SetRunning, HostTypes
  <2>5. \A h : Wanted(h)' = Wanted(h) /\ Wanted(h) \subseteq Name
    BY <2>1 DEF Wanted, WantedBy, Name
  <2>6. \A m : (Agreed(m)' <=> Agreed(m)) /\ (Deployed(m)' <=> Deployed(m))
    BY <2>1 DEF Agreed, Wanted, Deployed, First
  <2>. QED
    BY <1>0, <2>1, <2>3, <2>4, <2>5, <2>6 DEF Served, AsDeclared
<1>11. ASSUME NEW n \in Name, ComposeUp(n) PROVE Served'
  <2>1. /\ UNCHANGED <<plan, phase, turn, todo>> /\ at = "up" /\ at' = "await" /\ First(n) /\ given' = given \ {n}
        /\ \/ SetRunning(Spread(Here, n), n, plan.wants[Here][n])
           \/ (~Takes(n) \/ n \in Careless) /\ UNCHANGED proc
    BY <1>11 DEF ComposeUp
  <2>2. n \in Wanted(Here) /\ Here \in Node /\ n \in todo
    BY <1>0, <1>11, <2>1 DEF RunInv, First, ComposeUp
  <2>h. Here' = Here
    BY <2>1 DEF Here
  <2>3. n \notin Latched => Takes(n)
    <3>1. CASE n \in Salted \cup Unnamed
      <4>1. force /\ n \in Plain
        BY <2>1, <3>1 DEF Recreated, Salted, Unnamed, Plain
      <4>. QED
        BY <4>1 DEF Takes
    <3>2. CASE n \notin Salted \cup Unnamed
      BY <3>2 DEF Takes, Salted, Unnamed, Plain, SeenByCompose
    <3>. QED
      BY <3>1, <3>2
  <2>4. \A m : Agreed(m)' <=> Agreed(m)
    BY <2>1 DEF Agreed, Wanted
  <2>5. ASSUME n \notin Latched, NEW h \in Node, NEW m \in Name
        PROVE  proc'[h][m] = IF h \in Spread(Here, n) /\ m = n THEN plan.wants[Here][n] ELSE proc[h][m]
    <3>1. SetRunning(Spread(Here, n), n, plan.wants[Here][n])
      BY <2>1, <2>3, <2>5 DEF Careless, Latched
    <3>. QED
      BY <3>1 DEF SetRunning, HostTypes
  <2>6. AsDeclared(Here, n)'
    <3>1. CASE n \in Latched
      <4>1. n \in Name /\ plan.wants[Here][n] # Absent
        BY <2>2 DEF Wanted, WantedBy, Name
      <4>2. n \in Careless \/ proc'[Here][n] # Absent
        BY <2>1, <2>2, <4>1 DEF Takes, SetRunning, HostTypes, Spread
      <4>. QED
        BY <2>h, <3>1, <4>2 DEF AsDeclared
    <3>2. CASE n \notin Latched
      <4>1. Here \in Spread(Here, n)
        BY <2>2 DEF Spread
      <4>2. proc'[Here][n] = plan.wants[Here][n]
        BY <2>2, <2>5, <3>2, <4>1
      <4>. QED
        BY <2>1, <2>h, <4>2 DEF AsDeclared
    <3>. QED
      BY <3>1, <3>2
  <2>7. ASSUME NEW h \in Node, NEW m \in Wanted(h), AsDeclared(h, m) PROVE AsDeclared(h, m)'
    <3>1. m \in Name
      BY DEF Wanted, WantedBy, Name
    <3>2. CASE m = n /\ n \in Latched
      <4>1. CASE h = Here
        BY <2>6, <2>h, <3>2, <4>1
      <4>2. CASE h # Here
        <5>1. h \notin Spread(Here, n) /\ n \notin Clustered
          BY <3>2, <4>2 DEF Spread, Latched, Clustered
        <5>2. proc'[h][n] = proc[h][n]
          BY <2>1, <3>1, <3>2, <5>1 DEF SetRunning, HostTypes
        <5>3. n \notin given
          BY <5>1 DEF RunTypes
        <5>. QED
          BY <2>1, <2>7, <3>2, <5>1, <5>2, <5>3 DEF AsDeclared
      <4>. QED
        BY <4>1, <4>2
    <3>3. CASE m = n /\ n \notin Latched
      <4>1. CASE n \in Clustered /\ Agreed(n)
        <5>1. plan.wants[h][n] = plan.wants[Here][n]
          BY <2>2, <3>3, <4>1 DEF Agreed
        <5>2. proc'[h][n] = plan.wants[Here][n]
          <6>1. h \in Spread(Here, n)
            BY <4>1 DEF Spread
          <6>. QED
            BY <2>5, <3>1, <3>3, <6>1
        <5>. QED
          BY <2>1, <3>3, <5>1, <5>2 DEF AsDeclared
      <4>2. CASE n \in Clustered /\ ~Agreed(n)
        BY <2>4, <3>3, <4>2 DEF AsDeclared
      <4>3. CASE n \notin Clustered /\ h = Here
        BY <2>6, <2>h, <3>3, <4>3
      <4>4. CASE n \notin Clustered /\ h # Here
        <5>1. proc'[h][n] = proc[h][n]
          BY <2>5, <3>1, <3>3, <4>4 DEF Spread
        <5>2. n \notin given
          BY <4>4 DEF RunTypes
        <5>. QED
          BY <2>1, <2>7, <3>3, <4>4, <5>1, <5>2 DEF AsDeclared
      <4>. QED
        BY <4>1, <4>2, <4>3, <4>4
    <3>4. CASE m # n
      <4>1. proc'[h][m] = proc[h][m]
        <5>1. CASE n \in Latched
          <6>1. UNCHANGED proc \/ SetRunning(Spread(Here, n), n, plan.wants[Here][n])
            BY <2>1
          <6>. QED
            BY <3>1, <3>4, <6>1 DEF SetRunning, HostTypes
        <5>2. CASE n \notin Latched
          BY <2>5, <3>1, <3>4, <5>2
        <5>. QED
          BY <5>1, <5>2
      <4>. QED
        BY <2>1, <2>4, <2>7, <3>4, <4>1 DEF AsDeclared
    <3>. QED
      BY <3>2, <3>3, <3>4
  <2>8. ASSUME NEW m \in Wanted(Here), Deployed(m)' PROVE Deployed(m) \/ AsDeclared(Here, m)'
    <3>1. m \notin todo \/ First(m)
      BY <2>1, <2>8 DEF Deployed, First
    <3>2. First(m) => m = n
      BY <1>0, <2>1, FirstIsOne
    <3>. QED
      BY <2>1, <2>6, <3>1, <3>2 DEF Deployed
  <2>. QED
    BY <2>1, <2>7, <2>8, ServedStays
<1>12. ASSUME NEW n \in Name, AwaitService(n) PROVE Served'
  <2>1. UNCHANGED <<plan, proc, given, phase, turn>> /\ at = "await" /\ First(n) /\ at' = "next" /\ todo' = todo \ {n}
    BY <1>12 DEF AwaitService
  <2>2. \A m \in Wanted(Here) : Deployed(m)' => Deployed(m)
    BY <2>1 DEF Deployed
  <2>3. \A h \in Node : \A m \in Wanted(h) : AsDeclared(h, m) => AsDeclared(h, m)'
    BY <1>2, <2>1
  <2>. QED
    BY <2>1, <2>2, <2>3, ServedStays
<1>13. CASE UNCHANGED svcVars
  <2>1. \A n : Deployed(n)' <=> Deployed(n)
    BY <1>13 DEF Deployed, First
  <2>. QED
    BY <1>2, <1>3, <1>13, <2>1 DEF Served
<1>. QED
  BY <1>4, <1>5, <1>6, <1>7, <1>8, <1>9, <1>10, <1>11, <1>12, <1>13
     DEF ServicesNext, ServicesStep, ServiceStep

\* The end of the hosts' phase.
LEMMA ServedAtLast ==
  ASSUME HostTypes, RunTypes, RunInv, ServedInv, ServedAsDeclared, [ServicesNext]_svcVars
  PROVE  ServedAsDeclared'
<1>1. ASSUME phase' # "ok" PROVE ServedAsDeclared'
  BY <1>1 DEF ServedAsDeclared
<1>2. CASE ServicesDone
  <2>1. phase = "hosts" /\ turn > Len(plan.order) /\ UNCHANGED <<plan, proc, given>>
    BY <1>2 DEF ServicesDone
  <2>2. plan \in Plans /\ Len(plan.order) \in Nat /\ turn \in Nat
    BY PlanFacts DEF RunTypes
  <2>3. \A h \in Node : \A n \in Wanted(h) : AsDeclared(h, n)
    <3>. SUFFICES ASSUME NEW h \in Node PROVE \A n \in Wanted(h) : AsDeclared(h, n)
      OBVIOUS
    <3>1. PICK i \in 1 .. Len(plan.order) : plan.order[i] = h
      BY <2>2, PlanFacts
    <3>2. i < turn
      BY <2>1, <2>2
    <3>. QED
      BY <2>1, <3>1, <3>2 DEF ServedInv, Served
  <2>4. ServedAsDeclared' <=> \A h \in Node : \A n \in Wanted(h) \ given :
          /\ n \notin Latched /\ (n \in Clustered => Agreed(n)) => proc[h][n] = plan.wants[h][n]
          /\ n \in Latched \ Careless => proc[h][n] # Absent
    BY <1>2, <2>1 DEF ServicesDone, ServedAsDeclared, Wanted, Agreed
  <2>5. \A n \in Latched : n \notin Clustered
    BY DEF Latched, Clustered
  <2>6. \A h \in Node : \A n \in Wanted(h) : plan.wants[h][n] # Absent
    BY DEF Wanted, WantedBy
  <2>. QED
    BY <2>3, <2>4, <2>5, <2>6 DEF AsDeclared
<1>3. CASE UNCHANGED svcVars
  BY <1>3 DEF ServedAsDeclared, Wanted, Agreed
<1>4. CASE ServicesNext /\ ~ServicesDone
  <2>1. phase' # "ok"
    BY <1>4 DEF ServicesNext, ServicesStep, ServiceStep, TakeTurn, EndTurn, EtcdDone, Cleaned, Wiped, NothingToRun,
         Uninstall, Upload, WireService, ComposeUp, AwaitService, AwaitFails, Wipe, BreakOff, UploadBreaks,
         StartServices, PushApp, ServicesFail
  <2>. QED
    BY <1>1, <2>1
<1>. QED
  BY <1>2, <1>3, <1>4

LEMMA ServedAlways == ServicesSpec => [](HostTypes /\ RunTypes /\ RunInv /\ ServedInv /\ ServedAsDeclared)
<1>1. ServicesInit => ServedInv /\ ServedAsDeclared
  BY DEF ServicesInit, ServedInv, Served, Recreated, ServedAsDeclared
<1>2. HostTypes /\ RunTypes /\ RunInv /\ ServedInv /\ ServedAsDeclared /\ [ServicesNext]_svcVars
        => ServedInv' /\ ServedAsDeclared'
  BY ServedHolds, RecreatedStays, ServedAtLast DEF ServedInv
<1>. QED
  BY <1>1, <1>2, EtcdAlways, PTL DEF ServicesSpec

\* An apply that reports success leaves every declared service running what the
\* file declares, for any fleet files, and wherever earlier applies have ended.
THEOREM SuccessServes == ServicesSpec => []ServedAsDeclared
BY ServedAlways, PTL

-------------------------------------------------------------------------------
(* What an apply has removed                                                 *)

\* A service is deployed from the directory uploaded before.
Uploaded == at \in {"wipe", "wire", "up", "await"} =>
              \A n : First(n) => conf[Here][n] = plan.wants[Here][n]

\* Whatever runs, and nats' timers, an apply finds by the directory, unless a removal
\* went wrong.
Known(h, n) == conf[h][n] # Absent \/ <<h, n>> \in botched

TracesLeft ==
  \A h \in Node :
    /\ \A n \in Name \ (Clustered \cup {App}) : proc[h][n] # Absent => Known(h, n)
    /\ timers[h] \subseteq Service
    /\ "nats" \in timers[h] => Known(h, "nats")

\* What an undeclared name has on a host whose leftovers are gone.
Rid(h, n) == conf[h][n] = Absent \/ <<h, n>> \in botched

Undeclared(h) == Name \ (Wanted(h) \cup Kept)

Tidy == phase = "hosts" => \A i \in 1 .. Len(plan.order) :
          Wanted(plan.order[i]) # {} =>
            /\ i < turn => \A n \in Undeclared(plan.order[i]) : Rid(plan.order[i], n)
            /\ i = turn /\ at # "turn" => \A n \in Undeclared(plan.order[i]) \ stale : Rid(plan.order[i], n)

TidyInv == Uploaded /\ TracesLeft /\ Tidy

LEMMA UploadedStays ==
  ASSUME HostTypes, RunTypes, RunInv, Uploaded, [ServicesNext]_svcVars
  PROVE  Uploaded'
<1>1. ASSUME at' \notin {"wipe", "wire", "up", "await"} PROVE Uploaded'
  BY <1>1 DEF Uploaded
<1>2. ASSUME UNCHANGED <<plan, turn, todo, conf>>, at \in {"wipe", "wire", "up", "await"} PROVE Uploaded'
  <2>1. Here' = Here /\ \A n : First(n)' <=> First(n)
    BY <1>2 DEF Here, First
  <2>. QED
    BY <1>2, <2>1 DEF Uploaded
<1>3. CASE TakeTurn \/ EndTurn \/ EtcdDone \/ ServicesDone \/ Cleaned \/ BreakOff \/ NothingToRun
  BY <1>1, <1>3 DEF TakeTurn, EndTurn, EtcdDone, ServicesDone, Cleaned, BreakOff, NothingToRun, ServicesFail,
                    Forgotten
<1>4. CASE (\E n \in Service : UploadBreaks(n)) \/ (\E p \in Plans : StartServices(p))
           \/ (\E n \in Name : Uninstall(n) \/ AwaitService(n) \/ AwaitFails(n))
  BY <1>1, <1>4 DEF UploadBreaks, StartServices, Uninstall, AwaitService, AwaitFails, ServicesFail, Forgotten
<1>5. CASE Wiped \/ (\E h \in Node : Wipe(h)) \/ (\E n \in Name : WireService(n) \/ ComposeUp(n))
  BY <1>2, <1>5 DEF Wiped, Wipe, WireService, ComposeUp
<1>6. CASE \E h \in Node : PushApp(h)
  BY <1>1, <1>6 DEF PushApp, RunInv
<1>7. ASSUME NEW n \in Name, Upload(n) PROVE Uploaded'
  <2>1. /\ UNCHANGED <<plan, turn, todo>> /\ First(n) /\ at = "next"
        /\ conf' = [conf EXCEPT ![Here][n] = plan.wants[Here][n]]
    BY <1>7 DEF Upload
  <2>2. Here \in Node /\ Here' = Here
    BY <2>1, HereIsNode DEF RunTypes, RunInv, Here
  <2>3. conf'[Here][n] = plan.wants[Here][n]
    BY <2>1, <2>2 DEF HostTypes
  <2>4. \A m : First(m)' => m = n
    BY <2>1, FirstIsOne DEF First, RunTypes
  <2>. QED
    BY <2>1, <2>2, <2>3, <2>4 DEF Uploaded
<1>8. CASE UNCHANGED svcVars
  BY <1>1, <1>2, <1>8
<1>. QED
  BY <1>3, <1>4, <1>5, <1>6, <1>7, <1>8 DEF ServicesNext, ServicesStep, ServiceStep

LEMMA TracesStay ==
  ASSUME HostTypes, RunTypes, RunInv, Uploaded, TracesLeft, [ServicesNext]_svcVars
  PROVE  TracesLeft'
<1>0. at # "turn" => Here \in Node
  BY HereIsNode DEF RunTypes, RunInv
<1>1. ASSUME UNCHANGED <<conf, proc, timers, botched>> PROVE TracesLeft'
  BY <1>1 DEF TracesLeft, Known
<1>2. CASE TakeTurn \/ EndTurn \/ EtcdDone \/ ServicesDone \/ Cleaned \/ BreakOff \/ NothingToRun \/ Wiped
           \/ UNCHANGED svcVars
  BY <1>1, <1>2 DEF TakeTurn, EndTurn, EtcdDone, ServicesDone, Cleaned, BreakOff, NothingToRun, Wiped
<1>3. CASE (\E p \in Plans : StartServices(p)) \/ (\E n \in Name : AwaitService(n) \/ AwaitFails(n))
  BY <1>1, <1>3 DEF StartServices, AwaitService, AwaitFails
<1>4. ASSUME NEW g \in Node, PushApp(g) PROVE TracesLeft'
  <2> DEFINE v == CHOOSE v \in Version : TRUE
  <2>1. /\ conf' = [conf EXCEPT ![g][App] = v] /\ proc' = [proc EXCEPT ![g][App] = v]
        /\ UNCHANGED <<timers, botched>> /\ v \in Version /\ v # Absent /\ App \in Name
    BY <1>4, ServicesAssumption DEF PushApp, Name
  <2> HIDE DEF v
  <2>2. \A h \in Node : \A n \in Name : n # App => proc'[h][n] = proc[h][n] /\ conf'[h][n] = conf[h][n]
    BY <2>1 DEF HostTypes
  <2>3. "nats" \in Service => "nats" \in Name /\ "nats" # App
    BY ServicesAssumption DEF Name
  <2>. QED
    BY <2>1, <2>2, <2>3 DEF TracesLeft, Known
<1>5. ASSUME NEW n \in Name, NEW v, conf' = [conf EXCEPT ![Here][n] = v], v # Absent, Here \in Node,
             UNCHANGED <<proc, timers, botched>>
      PROVE  TracesLeft'
  <2>1. \A h \in Node, m \in Name : conf'[h][m] = IF h = Here /\ m = n THEN v ELSE conf[h][m]
    BY <1>5 DEF HostTypes
  <2>2. \A h \in Node, m \in Name : Known(h, m) => Known(h, m)'
    BY <1>5, <2>1 DEF Known
  <2>3. Service \subseteq Name
    BY DEF Name
  <2>. QED
    BY <1>5, <2>2, <2>3 DEF TracesLeft
<1>6. ASSUME NEW n \in Name, Upload(n) PROVE TracesLeft'
  <2>1. n \in Wanted(Here) /\ Here \in Node /\ conf' = [conf EXCEPT ![Here][n] = plan.wants[Here][n]]
        /\ UNCHANGED <<proc, timers, botched>>
    BY <1>0, <1>6 DEF Upload, First, RunInv
  <2>2. plan.wants[Here][n] # Absent
    BY <2>1 DEF Wanted, WantedBy
  <2>. QED
    BY <1>5, <2>1, <2>2
<1>7. ASSUME NEW n \in Service, UploadBreaks(n) PROVE TracesLeft'
  <2>1. n \in Name /\ Here \in Node /\ conf' = [conf EXCEPT ![Here][n] = Partial] /\ Partial # Absent
        /\ UNCHANGED <<proc, timers, botched>>
    BY <1>0, <1>7, ServicesAssumption DEF UploadBreaks, Name
  <2>. QED
    BY <1>5, <2>1
<1>8. ASSUME NEW n \in Name, Uninstall(n) PROVE TracesLeft'
  <2>0. Here \in Node /\ Service \subseteq Name /\ "nats" \notin Clustered
    BY <1>0, <1>8 DEF Uninstall, Name, Clustered
  <2>1. CASE /\ conf' = [conf EXCEPT ![Here][n] = Absent]
             /\ timers' = [timers EXCEPT ![Here] = @ \ ({n} \cap {"nats"})]
             /\ IF n = App THEN UNCHANGED proc ELSE SetRunning(Spread(Here, n), n, Absent)
             /\ botched' = botched \ {<<Here, n>>}
    <3>1. \A h \in Node, m \in Name : h # Here \/ m # n => Known(h, m)' = Known(h, m)
      BY <2>0, <2>1 DEF HostTypes, Known
    <3>2. ASSUME NEW h \in Node, NEW m \in Name \ (Clustered \cup {App})
          PROVE  /\ h = Here /\ m = n => proc'[h][m] = Absent
                 /\ h # Here \/ m # n => proc'[h][m] = proc[h][m]
      <4>1. CASE n = App
        BY <2>1, <4>1
      <4>2. CASE n # App
        <5>1. SetRunning(Spread(Here, n), n, Absent)
          BY <2>1, <4>2
        <5>2. n \notin Clustered => Spread(Here, n) = {Here}
          BY DEF Spread
        <5>. QED
          BY <2>0, <5>1, <5>2 DEF SetRunning, HostTypes
      <4>. QED
        BY <4>1, <4>2
    <3>3. \A h \in Node : timers'[h] \subseteq timers[h] /\ (h = Here /\ n = "nats" => "nats" \notin timers'[h])
      BY <2>0, <2>1 DEF HostTypes
    <3>. QED
      BY <2>0, <3>1, <3>2, <3>3 DEF TracesLeft
  <2>2. CASE /\ botched' = botched \cup {<<Here, n>>} /\ UNCHANGED <<proc, timers>>
             /\ conf' = [conf EXCEPT ![Here][n] = Absent] \/ UNCHANGED conf
    <3>1. \A h \in Node, m \in Name : Known(h, m) => Known(h, m)'
      BY <2>0, <2>2 DEF HostTypes, Known
    <3>. QED
      BY <2>0, <2>2, <3>1 DEF TracesLeft
  <2>. QED
    BY <1>8, <2>1, <2>2 DEF Uninstall
<1>9. ASSUME NEW n \in Name, WireService(n) PROVE TracesLeft'
  <2>1. /\ UNCHANGED <<conf, proc, botched>> /\ timers' = [timers EXCEPT ![Here] = @ \cup ({n} \cap Timed)]
        /\ Here \in Node /\ n \in Wanted(Here) /\ at = "wire" /\ First(n)
    BY <1>0, <1>9 DEF WireService, First, RunInv
  <2>2. n \in Service /\ plan.wants[Here][n] # Absent
    BY <2>1 DEF Wanted, WantedBy
  <2>3. conf[Here][n] # Absent
    BY <2>1, <2>2 DEF Uploaded
  <2>4. \A h \in Node : timers'[h] \subseteq timers[h] \cup (IF h = Here THEN {n} ELSE {})
    BY <2>1 DEF HostTypes
  <2>5. \A h, m : Known(h, m)' <=> Known(h, m)
    BY <2>1 DEF Known
  <2>. QED
    BY <2>1, <2>2, <2>3, <2>4, <2>5 DEF TracesLeft, Known
<1>10. ASSUME NEW n \in Name, ComposeUp(n) PROVE TracesLeft'
  <2>1. /\ UNCHANGED <<conf, timers, botched>> /\ Here \in Node /\ n \in Wanted(Here) /\ at = "up" /\ First(n)
        /\ UNCHANGED proc \/ SetRunning(Spread(Here, n), n, plan.wants[Here][n])
    BY <1>0, <1>10 DEF ComposeUp, First, RunInv
  <2>2. Known(Here, n)
    BY <2>1 DEF Uploaded, Known, Wanted, WantedBy
  <2>3. \A h, m : Known(h, m)' <=> Known(h, m)
    BY <2>1 DEF Known
  <2>4. ASSUME NEW h \in Node, NEW m \in Name \ (Clustered \cup {App}), h # Here \/ m # n
        PROVE  proc'[h][m] = proc[h][m]
    <3>1. m # n \/ h \notin Spread(Here, n)
      BY <2>4 DEF Spread
    <3>. QED
      BY <2>1, <3>1 DEF SetRunning, HostTypes
  <2>. QED
    BY <2>1, <2>2, <2>3, <2>4 DEF TracesLeft
<1>11. ASSUME NEW g \in Node, Wipe(g) PROVE TracesLeft'
  <2>1. /\ UNCHANGED <<conf, timers, botched>> /\ SetRunning({g}, "pgsql-cluster", Absent)
    BY <1>11 DEF Wipe
  <2>2. \A h \in Node, m \in Name : proc'[h][m] = proc[h][m] \/ proc'[h][m] = Absent
    BY <2>1 DEF SetRunning, HostTypes
  <2>3. \A h, m : Known(h, m)' <=> Known(h, m)
    BY <2>1 DEF Known
  <2>. QED
    BY <2>1, <2>2, <2>3 DEF TracesLeft
<1>. QED
  BY <1>2, <1>3, <1>4, <1>6, <1>7, <1>8, <1>9, <1>10, <1>11 DEF ServicesNext, ServicesStep, ServiceStep

LEMMA TidyStays ==
  ASSUME HostTypes, RunTypes, RunInv, Tidy, [ServicesNext]_svcVars
  PROVE  Tidy'
<1>0. /\ plan \in Plans /\ Len(plan.order) \in Nat /\ turn \in Nat
      /\ \A i \in 1 .. Len(plan.order) : plan.order[i] \in Node
      /\ at # "turn" => Here \in Node
  BY PlanFacts, HereIsNode DEF RunTypes, RunInv
<1>1. ASSUME phase' # "hosts" PROVE Tidy'
  BY <1>1 DEF Tidy
<1>2. ASSUME UNCHANGED plan, NEW h PROVE Wanted(h)' = Wanted(h) /\ Undeclared(h)' = Undeclared(h)
  BY <1>2 DEF Wanted, Undeclared
<1>3. ASSUME UNCHANGED <<conf, botched>>, NEW h, NEW n PROVE Rid(h, n)' <=> Rid(h, n)
  BY <1>3 DEF Rid
<1>4. ASSUME UNCHANGED <<plan, conf, botched, phase, turn, stale>>, at # "turn" PROVE Tidy'
  BY <1>2, <1>3, <1>4 DEF Tidy
<1>5. CASE TakeTurn
  <2>1. UNCHANGED <<plan, conf, botched, phase>> /\ at = "turn"
    BY <1>5 DEF TakeTurn
  <2>2. CASE phase = "etcd"
    BY <1>1, <2>1, <2>2
  <2>3. CASE phase = "hosts" /\ at' = "clean" /\ stale' = Leftover(Here) /\ turn' = turn
    <3>1. \A n \in Undeclared(Here) \ stale' : Rid(Here, n)
      BY <2>3 DEF Undeclared, Leftover, Rid
    <3>. QED
      BY <1>2, <1>3, <2>1, <2>3, <3>1 DEF Tidy, Here
  <2>4. CASE phase = "hosts" /\ turn' = turn + 1 /\ at' = at /\ Wanted(Here) = {}
    <3>1. \A i \in 1 .. Len(plan.order) : i < turn' => i < turn \/ Wanted(plan.order[i]) = {}
      BY <1>0, <2>4 DEF Here
    <3>. QED
      BY <1>2, <1>3, <2>1, <2>4, <3>1 DEF Tidy
  <2>. QED
    BY <1>5, <2>2, <2>3, <2>4 DEF TakeTurn
<1>6. CASE EndTurn
  <2>1. UNCHANGED <<plan, conf, botched, phase>> /\ at = "next" /\ at' = "turn" /\ turn' = turn + 1 /\ stale = {}
    BY <1>6 DEF EndTurn, RunInv
  <2>2. \A i \in 1 .. Len(plan.order) : i < turn' => i < turn \/ i = turn
    BY <1>0, <2>1
  <2>. QED
    BY <1>2, <1>3, <2>1, <2>2 DEF Tidy
<1>7. CASE EtcdDone
  <2>1. turn' = 1 /\ at' = "turn"
    BY <1>7 DEF EtcdDone, Forgotten
  <2>2. \A i \in 1 .. Len(plan'.order) : ~(i < turn')
    BY <2>1
  <2>. QED
    BY <2>1, <2>2 DEF Tidy
<1>8. CASE ServicesDone \/ BreakOff \/ NothingToRun \/ (\E n \in Service : UploadBreaks(n))
           \/ (\E p \in Plans : StartServices(p)) \/ (\E n \in Name : AwaitFails(n)) \/ (\E h \in Node : PushApp(h))
  BY <1>1, <1>8 DEF ServicesDone, BreakOff, NothingToRun, UploadBreaks, StartServices, AwaitFails, PushApp,
                    ServicesFail
<1>9. CASE Cleaned \/ Wiped \/ (\E h \in Node : Wipe(h))
           \/ (\E n \in Name : WireService(n) \/ ComposeUp(n) \/ AwaitService(n))
  BY <1>4, <1>9 DEF Cleaned, Wiped, Wipe, WireService, ComposeUp, AwaitService
<1>10. ASSUME NEW n \in Name, Upload(n) PROVE Tidy'
  <2>1. /\ UNCHANGED <<plan, phase, turn, stale, botched>> /\ at = "next" /\ Here \in Node /\ n \in Wanted(Here)
        /\ conf' = [conf EXCEPT ![Here][n] = plan.wants[Here][n]]
    BY <1>0, <1>10 DEF Upload, First, RunInv
  <2>2. ASSUME NEW h \in Node, NEW m \in Undeclared(h) PROVE Rid(h, m)' <=> Rid(h, m)
    <3>1. h # Here \/ m # n
      BY <2>1 DEF Undeclared
    <3>. QED
      BY <2>1, <3>1 DEF Rid, HostTypes
  <2>3. at' # "turn" /\ at # "turn" /\ \A i \in 1 .. Len(plan.order) : Undeclared(plan.order[i])' = Undeclared(plan.order[i])
        /\ Wanted(plan.order[i])' = Wanted(plan.order[i])
    BY <1>2, <1>10, <2>1 DEF Upload
  <2>4. \A i \in 1 .. Len(plan.order) : \A m \in Undeclared(plan.order[i]) :
          Rid(plan.order[i], m) => Rid(plan.order[i], m)'
    BY <1>0, <2>1, <2>2
  <2>. SUFFICES ASSUME phase = "hosts", NEW i \in 1 .. Len(plan.order), Wanted(plan.order[i])' # {}
               PROVE  /\ i < turn => \A m \in Undeclared(plan.order[i])' : Rid(plan.order[i], m)'
                      /\ i = turn => \A m \in Undeclared(plan.order[i])' \ stale : Rid(plan.order[i], m)'
    BY <2>1 DEF Tidy
  <2>5. Wanted(plan.order[i]) # {}
    BY <2>3
  <2>. QED
    BY <2>1, <2>3, <2>4, <2>5 DEF Tidy
<1>11. ASSUME NEW n \in Name, Uninstall(n) PROVE Tidy'
  <2>1. UNCHANGED <<plan, phase, turn, at>> /\ at = "clean" /\ Here \in Node /\ stale' = stale \ {n}
    BY <1>0, <1>11 DEF Uninstall
  <2>2. CASE conf' = [conf EXCEPT ![Here][n] = Absent] /\ botched' = botched \ {<<Here, n>>}
    <3>1. \A h \in Node, m \in Name : Rid(h, m) => Rid(h, m)'
      BY <2>1, <2>2 DEF Rid, HostTypes
    <3>2. Rid(Here, n)'
      <4>1. conf'[Here][n] = Absent /\ Here' = Here
        BY <2>1, <2>2 DEF HostTypes, Here
      <4>. QED
        BY <4>1 DEF Rid
    <3>. QED
      BY <1>0, <1>2, <2>1, <3>1, <3>2 DEF Tidy, Here, Undeclared
  <2>3. CASE /\ botched' = botched \cup {<<Here, n>>}
             /\ conf' = [conf EXCEPT ![Here][n] = Absent] \/ UNCHANGED conf
    <3>1. \A h \in Node, m \in Name : Rid(h, m) => Rid(h, m)'
      BY <2>1, <2>3 DEF Rid, HostTypes
    <3>2. Rid(Here, n)'
      <4>1. Here' = Here
        BY <2>1 DEF Here
      <4>. QED
        BY <2>3, <4>1 DEF Rid
    <3>. QED
      BY <1>0, <1>2, <2>1, <3>1, <3>2 DEF Tidy, Here, Undeclared
  <2>. QED
    BY <1>11, <2>2, <2>3 DEF Uninstall
<1>12. CASE UNCHANGED svcVars
  BY <1>2, <1>3, <1>12 DEF Tidy
<1>. QED
  BY <1>5, <1>6, <1>7, <1>8, <1>9, <1>10, <1>11, <1>12 DEF ServicesNext, ServicesStep, ServiceStep

\* The end of the hosts' phase.
LEMMA GoneAtLast ==
  ASSUME HostTypes, RunTypes, TidyInv, UndeclaredGone, [ServicesNext]_svcVars
  PROVE  UndeclaredGone'
<1>1. ASSUME phase' # "ok" PROVE UndeclaredGone'
  BY <1>1 DEF UndeclaredGone
<1>2. CASE ServicesDone
  <2>1. phase = "hosts" /\ turn > Len(plan.order) /\ UNCHANGED <<plan, conf, proc, timers, botched>>
    BY <1>2 DEF ServicesDone
  <2>2. plan \in Plans /\ Len(plan.order) \in Nat /\ turn \in Nat
    BY PlanFacts DEF RunTypes
  <2>3. ASSUME NEW h \in Node, Wanted(h) # {}, NEW n \in Undeclared(h), <<h, n>> \notin botched
        PROVE  conf[h][n] = Absent
    <3>1. PICK i \in 1 .. Len(plan.order) : plan.order[i] = h
      BY <2>2, PlanFacts
    <3>2. i < turn
      BY <2>1, <2>2
    <3>. QED
      BY <2>1, <2>3, <3>1, <3>2 DEF TidyInv, Tidy, Rid
  <2>4. ASSUME NEW h \in Node, Wanted(h) # {}, NEW n \in timers[h] \ (Wanted(h) \cup {"etcd", "pgsql-cluster", "nats-bare"})
        PROVE  <<h, n>> \in botched
    <3>1. n = "nats" /\ n \in Service
      BY DEF HostTypes, Timed, TidyInv, TracesLeft
    <3>2. n \in Undeclared(h)
      BY <3>1 DEF Undeclared, Name, Kept
    <3>. QED
      BY <2>3, <2>4, <3>1, <3>2 DEF TidyInv, TracesLeft, Known
  <2>5. \A h \in Node : Wanted(h) # {} =>
          /\ \A n \in Name \ (Wanted(h) \cup Kept) : <<h, n>> \notin botched =>
               /\ conf[h][n] = Absent
               /\ n \notin Clustered \cup {App} => proc[h][n] = Absent
          /\ \A n \in timers[h] \ (Wanted(h) \cup {"etcd", "pgsql-cluster", "nats-bare"}) : <<h, n>> \in botched
    BY <2>3, <2>4 DEF Undeclared, TidyInv, TracesLeft, Known
  <2>6. \A h : Wanted(h)' = Wanted(h)
    BY <2>1 DEF Wanted
  <2>. QED
    BY <2>1, <2>5, <2>6 DEF UndeclaredGone
<1>3. CASE UNCHANGED svcVars
  BY <1>3 DEF UndeclaredGone, Wanted
<1>4. CASE ServicesNext /\ ~ServicesDone
  <2>1. phase' # "ok"
    BY <1>4 DEF ServicesNext, ServicesStep, ServiceStep, TakeTurn, EndTurn, EtcdDone, Cleaned, Wiped, NothingToRun,
         Uninstall, Upload, WireService, ComposeUp, AwaitService, AwaitFails, Wipe, BreakOff, UploadBreaks,
         StartServices, PushApp, ServicesFail
  <2>. QED
    BY <1>1, <2>1
<1>. QED
  BY <1>2, <1>3, <1>4

LEMMA TidyAlways == ServicesSpec => [](HostTypes /\ RunTypes /\ RunInv /\ TidyInv /\ UndeclaredGone)
<1>1. ServicesInit => TidyInv /\ UndeclaredGone
  BY DEF ServicesInit, TidyInv, Uploaded, TracesLeft, Tidy, UndeclaredGone
<1>2. HostTypes /\ RunTypes /\ RunInv /\ TidyInv /\ UndeclaredGone /\ [ServicesNext]_svcVars
        => TidyInv' /\ UndeclaredGone'
  BY UploadedStays, TracesStay, TidyStays, GoneAtLast DEF TidyInv
<1>. QED
  BY <1>1, <1>2, EtcdAlways, PTL DEF ServicesSpec

\* After an apply that reports success, nothing undeclared is left on a host that
\* declares services, but for the exceptions the property names: whatever runs there
\* is still known by its directory, or its removal went wrong.
THEOREM SuccessRemoves == ServicesSpec => []UndeclaredGone
BY TidyAlways, PTL

===============================================================================
