------------------------- MODULE LibsqlFailoverProofs -------------------------
(* Theorems about LibsqlFailover, for any thresholds and any events.         *)
EXTENDS LibsqlFailover, FiniteSetTheorems, TLAPS

-------------------------------------------------------------------------------
(* The types.  That three replica numbers are enough needs the number of     *)
(* replicas still to recreate: at most two when a replica is promoted.       *)

FewOthers ==
  /\ pc \in {"stop", "create", "wait"} => idx = 1
  /\ pc \in {"stop", "create", "wait", "replicas"} =>
       /\ idx = 1 => \E a, b : others \subseteq {a, b}
       /\ idx = 2 => \E a : others \subseteq {a}
       /\ idx = 3 => others = {}

TypeInv == TypeOK /\ FewOthers

Vols == Volume \cup {NoVol}

LEMMA Bounds == /\ Threshold \in Nat /\ Desired \in Nat
                /\ MaxWrites \in Nat /\ Budget \in Nat /\ Threshold > 0
  BY BoundAssumption

\* The other replicas a failover picks the volumes of, under the names they have.
LEMMA OthersPicked ==
  ASSUME NEW n \in Name, Promote(n)
  PROVE  /\ vol' = NoVol \/ (n \in Exists /\ vol' = cont[n].vol)
         /\ \A o \in others' : \E m \in (nodes \cap Replica \cap Exists) \ {n} :
               o = <<m, cont[m].vol>> \/ o = <<m, NoVol>>
         /\ "inspect" \notin Events =>
               /\ vol' = cont[n].vol
               /\ others' = VolumesOf((nodes \cap Replica \cap Exists) \ {n})
<1>. DEFINE rest == (nodes \cap Replica \cap Exists) \ {n}
<1>1. n \in Exists /\ vol' \in {NoVol, cont[n].vol}
  BY DEF Promote
<1>2. \/ others' = VolumesOf(rest)
      \/ \E m \in rest : \E lost \in {{}, {<<m, NoVol>>}} : others' = VolumesOf(rest \ {m}) \cup lost
  BY DEF Promote
<1>3. ASSUME NEW o \in others' PROVE \E m \in rest : o = <<m, cont[m].vol>> \/ o = <<m, NoVol>>
  BY <1>2 DEF VolumesOf
<1>4. "inspect" \notin Events => vol' = cont[n].vol /\ others' = VolumesOf(rest)
  BY DEF Promote, Happens
<1>. QED
  BY <1>1, <1>3, <1>4

LEMMA DockerRunType ==
  ASSUME TypeOK, NEW n \in Name, NEW v \in Vols, DockerRun(n, v)
  PROVE  /\ cont' \in [Name -> {Absent} \cup [up : BOOLEAN, vol : Vols]]
         /\ data' \in [Volume \cup Name -> 0 .. MaxWrites + 1]
  BY Bounds DEF TypeOK, DockerRun, Vols

LEMMA HappensType ==
  ASSUME TypeOK, NEW kind, Happens(kind) \/ NothingHappens
  PROVE  left' \in 0 .. Budget /\ ignored' \subseteq {"stop", "load"}
<1>1. left' \in 0 .. Budget
  BY Bounds DEF TypeOK, Happens, NothingHappens
<1>2. ignored' \subseteq {"stop", "load"}
  BY Zenon DEF TypeOK, Happens, NothingHappens
<1>. QED
  BY <1>1, <1>2

LEMMA ExistingVolume ==
  ASSUME TypeOK, NEW n \in Exists
  PROVE  cont[n].vol \in Vols
  BY DEF TypeOK, Exists, Vols

\* A container that runs exists, and writes a volume or its own layer.
LEMMA Running ==
  ASSUME TypeOK, NEW n \in Name, cont[n].up
  PROVE  /\ n \in Exists
         /\ cont[n] \in [up : BOOLEAN, vol : Vols]
         /\ Store(n) \in Volume \cup Name
<1>1. cont[n] # Absent
  <2>1. Absent.up = FALSE
    BY DEF Absent
  <2>. QED
    BY <2>1
<1>2. cont[n] \in [up : BOOLEAN, vol : Vols]
  BY <1>1 DEF TypeOK, Vols
<1>. QED
  BY <1>1, <1>2 DEF Exists, Store, Vols

LEMMA PrimaryName == Primary \in Name
  BY DEF Name

LEMMA InitType == Init => TypeInv
<1>. SUFFICES ASSUME Init PROVE TypeInv
  OBVIOUS
<1>1. cont \in [Name -> {Absent} \cup [up : BOOLEAN, vol : Volume \cup {NoVol}]]
  <2>1. /\ cont = [n \in Name |-> cont[n]]
        /\ cont["primary-1"] = [up |-> TRUE, vol |-> "primary_data"]
        /\ cont["replica-1"] = [up |-> TRUE, vol |-> "replica_data"]
        /\ cont["replica-2-1"] = [up |-> TRUE, vol |-> "replica2_data"]
        /\ cont["replica-2"] = Absent
    BY SMT DEF Init, Name, Replica, Primary
  <2>2. \A n \in Name : cont[n] \in {Absent} \cup [up : BOOLEAN, vol : Volume \cup {NoVol}]
    <3>1. \A v \in Volume : [up |-> TRUE, vol |-> v] \in [up : BOOLEAN, vol : Volume \cup {NoVol}]
      OBVIOUS
    <3>. QED
      BY <2>1, <3>1 DEF Name, Replica, Primary, Volume
  <2>. QED
    BY <2>1, <2>2
<1>2. data \in [Volume \cup Name -> 0 .. MaxWrites + 1]
  BY Bounds DEF Init
<1>3. fails \in [Name -> 0 .. Threshold]
  BY Bounds DEF Init
<1>4. left \in 0 .. Budget /\ idx \in 1 .. 3 /\ held \in 0 .. MaxWrites + 1
  BY Bounds DEF Init
<1>5. TypeOK
  BY <1>1, <1>2, <1>3, <1>4 DEF Init, TypeOK
<1>. QED
  BY <1>5 DEF TypeInv, FewOthers, Init

LEMMA StartType == ASSUME TypeInv, Start PROVE TypeInv'
<1>1. /\ epoch' \in Nat /\ saved' \in Nat /\ nodes' \subseteq Name
      /\ left' \in 0 .. Budget /\ ignored' \subseteq {"stop", "load"}
  BY HappensType DEF TypeInv, TypeOK, Start, ClaimLeader, StartWith, Exists
<1>2. fails' \in [Name -> 0 .. Threshold] /\ idx' \in 1 .. 3 /\ held' \in 0 .. MaxWrites + 1
  BY Bounds DEF Start
<1>3. TypeOK'
  BY <1>1, <1>2 DEF TypeInv, TypeOK, Start, docker
<1>. QED
  BY <1>3 DEF TypeInv, FewOthers, Start

LEMMA HealthCheckType == ASSUME TypeInv, HealthCheck PROVE TypeInv'
<1>1. left' \in 0 .. Budget /\ ignored' \subseteq {"stop", "load"}
  BY HappensType DEF TypeInv, HealthCheck
<1>2. healthy' \subseteq nodes
  BY DEF HealthCheck
<1>3. fails' \in [Name -> 0 .. Threshold]
  BY Bounds DEF TypeInv, TypeOK, HealthCheck
<1>4. TypeOK'
  BY <1>1, <1>2, <1>3 DEF TypeInv, TypeOK, HealthCheck, docker
<1>. QED
  BY <1>4 DEF TypeInv, FewOthers, HealthCheck

LEMMA PromoteType == ASSUME TypeInv, NEW n \in Name, Promote(n) PROVE TypeInv'
<1>1. vol' \in Vols /\ \A m \in Exists : cont[m].vol \in Vols
  BY ExistingVolume, OthersPicked DEF TypeInv, Vols
<1>2. others' \subseteq Replica \X Vols
  <2>1. ASSUME NEW o \in others' PROVE o \in Replica \X Vols
    <3>1. PICK m \in (nodes \cap Replica \cap Exists) \ {n} : o = <<m, cont[m].vol>> \/ o = <<m, NoVol>>
      BY OthersPicked, Zenon
    <3>. QED
      BY <1>1, <3>1 DEF Vols
  <2>. QED
    BY <2>1
<1>7. left' \in 0 .. Budget /\ ignored' \subseteq {"stop", "load"}
  <2>1. Happens("inspect") \/ NothingHappens
    BY DEF Promote
  <2>. QED
    BY <2>1, HappensType DEF TypeInv
<1>3. held' \in 0 .. MaxWrites + 1
  <2>1. Store(n) \in Volume \cup Name
    BY <1>1 DEF Promote, Store, Vols
  <2>. QED
    BY <2>1 DEF TypeInv, TypeOK, Promote
<1>4. TypeOK'
  BY <1>1, <1>2, <1>3, <1>7 DEF TypeInv, TypeOK, Promote, docker, Vols
<1>5. \E a, b : others' \subseteq {a, b}
  <2>1. PICK a, b \in Replica : Replica \ {n} \subseteq {a, b}
    BY DEF Promote, Replica
  <2>. DEFINE rest == (nodes \cap Replica \cap Exists) \ {n}
              at(m, m2) == IF m = m2 THEN <<m, NoVol>> ELSE <<m, cont[m].vol>>
  <2>2. CASE others' = VolumesOf(rest)
    <3>1. others' \subseteq {<<a, cont[a].vol>>, <<b, cont[b].vol>>}
      BY <2>1, <2>2 DEF VolumesOf
    <3>. QED
      BY <3>1
  <2>3. ASSUME NEW m \in rest, NEW lost \in {{}, {<<m, NoVol>>}}, others' = VolumesOf(rest \ {m}) \cup lost
        PROVE  \E x, y : others' \subseteq {x, y}
    <3>1. others' \subseteq {at(a, m), at(b, m)}
      BY <2>1, <2>3 DEF VolumesOf
    <3>. QED
      BY <3>1
  <2>. QED
    BY <2>2, <2>3 DEF Promote
<1>. QED
  BY <1>4, <1>5 DEF TypeInv, FewOthers, Promote

LEMMA StopType == ASSUME TypeInv, StopAll PROVE TypeInv'
<1>1. CASE \E n \in nodes : StopAndRemove(n) /\ UNCHANGED pc
  <2>1. PICK n \in nodes : StopAndRemove(n) /\ UNCHANGED pc
    BY <1>1
  <2>2. left' \in 0 .. Budget /\ ignored' \subseteq {"stop", "load"}
    BY <2>1, HappensType DEF TypeInv, StopAndRemove
  <2>3. cont' \in [Name -> {Absent} \cup [up : BOOLEAN, vol : Vols]]
    BY <2>1 DEF TypeInv, TypeOK, StopAndRemove, Vols
  <2>4. TypeOK'
    BY <2>1, <2>2, <2>3 DEF TypeInv, TypeOK, StopAndRemove, Vols
  <2>. QED
    BY <2>1, <2>4 DEF TypeInv, FewOthers, StopAndRemove
<1>2. CASE pc = "stop" /\ pc' = "create" /\ UNCHANGED <<docker, saved, left, ignored, memory>>
  BY <1>2 DEF TypeInv, TypeOK, FewOthers, docker, memory
<1>. QED
  BY <1>1, <1>2 DEF StopAll

LEMMA CreateType == ASSUME TypeInv, CreatePrimary PROVE TypeInv'
<1>1. left' \in 0 .. Budget /\ ignored' \subseteq {"stop", "load"}
  BY HappensType DEF TypeInv, CreatePrimary, DockerRunFails
<1>2. Primary \in Name /\ vol \in Vols
  BY DEF Name, TypeInv, TypeOK, Vols
<1>3. /\ cont' \in [Name -> {Absent} \cup [up : BOOLEAN, vol : Vols]]
      /\ data' \in [Volume \cup Name -> 0 .. MaxWrites + 1]
  <2>1. CASE DockerRun(Primary, vol)
    BY <2>1, <1>2, DockerRunType DEF TypeInv
  <2>2. CASE UNCHANGED docker
    BY <2>2 DEF TypeInv, TypeOK, docker, Vols
  <2>. QED
    BY <2>1, <2>2 DEF CreatePrimary, DockerRunFails
<1>4. TypeOK'
  BY <1>1, <1>3 DEF TypeInv, TypeOK, CreatePrimary, memory, Vols
<1>. QED
  BY <1>4 DEF TypeInv, FewOthers, CreatePrimary, memory

LEMMA WaitType == ASSUME TypeInv, WaitPrimary PROVE TypeInv'
<1>1. left' \in 0 .. Budget /\ ignored' \subseteq {"stop", "load"}
  BY HappensType DEF TypeInv, WaitPrimary
<1>2. TypeOK'
  BY <1>1, Bounds DEF TypeInv, TypeOK, WaitPrimary, Registered, docker, Name
<1>. QED
  BY <1>2 DEF TypeInv, FewOthers, WaitPrimary

LEMMA RecreateType == ASSUME TypeInv, RecreateReplica PROVE TypeInv'
<1>. DEFINE n == NewReplica(idx)
<1>1. PICK o \in others :
        /\ others' = others \ {o} /\ idx' = idx + 1
        /\ \/ /\ DockerRun(n, o[2]) /\ Registered(n)
              /\ healthy' \in {healthy, healthy \cup {n}}
           \/ DockerRunFails(n) /\ UNCHANGED <<nodes, healthy, fails>>
  BY DEF RecreateReplica
<1>2. left' \in 0 .. Budget /\ ignored' \subseteq {"stop", "load"}
  BY HappensType DEF TypeInv, RecreateReplica, DockerRunFails
<1>3. n \in Name /\ o[2] \in Vols
  BY DEF TypeInv, TypeOK, NewReplica, Name, Replica, Vols
<1>4. /\ cont' \in [Name -> {Absent} \cup [up : BOOLEAN, vol : Vols]]
      /\ data' \in [Volume \cup Name -> 0 .. MaxWrites + 1]
  <2>1. CASE DockerRun(n, o[2])
    BY <2>1, <1>3, DockerRunType DEF TypeInv
  <2>2. CASE UNCHANGED docker
    BY <2>2 DEF TypeInv, TypeOK, docker, Vols
  <2>. QED
    BY <2>1, <2>2, <1>1 DEF DockerRunFails
<1>5. idx \in {1, 2} /\ idx' \in {2, 3}
  BY <1>1 DEF TypeInv, TypeOK, FewOthers, RecreateReplica
<1>6. nodes' \subseteq Name /\ healthy' \subseteq nodes' /\ fails' \in [Name -> 0 .. Threshold]
  BY <1>1, <1>3, Bounds DEF TypeInv, TypeOK, Registered
<1>7. TypeOK'
  BY <1>1, <1>2, <1>4, <1>5, <1>6 DEF TypeInv, TypeOK, RecreateReplica, Vols
<1>8. /\ idx' = 2 => \E a : others' \subseteq {a}
      /\ idx' = 3 => others' = {}
  <2>1. CASE idx = 1
    <3>1. PICK a, b : others \subseteq {a, b}
      BY <2>1 DEF TypeInv, FewOthers, RecreateReplica
    <3>2. others' \subseteq {a} \/ others' \subseteq {b}
      BY <3>1, <1>1
    <3>. QED
      BY <3>2, <2>1, <1>1
  <2>2. CASE idx = 2
    <3>1. PICK a : others \subseteq {a}
      BY <2>2 DEF TypeInv, FewOthers, RecreateReplica
    <3>. QED
      BY <3>1, <2>2, <1>1
  <2>. QED
    BY <2>1, <2>2, <1>5
<1>. QED
  BY <1>5, <1>7, <1>8 DEF TypeInv, FewOthers, RecreateReplica

LEMMA SaveType == ASSUME TypeInv, SaveLeader PROVE TypeInv'
<1>1. left' \in 0 .. Budget /\ ignored' \subseteq {"stop", "load"}
  BY HappensType DEF TypeInv, SaveLeader
<1>2. TypeOK'
  BY <1>1 DEF TypeInv, TypeOK, SaveLeader, docker
<1>. QED
  BY <1>2 DEF TypeInv, FewOthers, SaveLeader

LEMMA RejoinType == ASSUME TypeInv, Rejoin PROVE TypeInv'
<1>. DEFINE n == FreeSlot
<1>1. left' \in 0 .. Budget /\ ignored' \subseteq {"stop", "load"}
  BY HappensType DEF TypeInv, TypeOK, Rejoin, DockerRunFails
<1>2. n \in Name /\ NoVol \in Vols
  BY DEF FreeSlot, Name, Replica, Vols
<1>3. /\ cont' \in [Name -> {Absent} \cup [up : BOOLEAN, vol : Vols]]
      /\ data' \in [Volume \cup Name -> 0 .. MaxWrites + 1]
  <2>1. CASE DockerRun(n, NoVol)
    BY <2>1, <1>2, DockerRunType DEF TypeInv
  <2>2. CASE UNCHANGED docker
    BY <2>2 DEF TypeInv, TypeOK, docker, Vols
  <2>. QED
    BY <2>1, <2>2 DEF Rejoin, DockerRunFails, docker
<1>4. nodes' \subseteq Name /\ healthy' \subseteq nodes' /\ fails' \in [Name -> 0 .. Threshold]
  BY <1>2, Bounds DEF TypeInv, TypeOK, Registered, Rejoin
<1>5. TypeOK'
  BY <1>1, <1>3, <1>4 DEF TypeInv, TypeOK, Rejoin, Vols
<1>. QED
  BY <1>5 DEF TypeInv, FewOthers, Rejoin

LEMMA EnvironmentType ==
  ASSUME TypeInv, Crash \/ Write \/ \E n \in Name : Sync(n) \/ Kill(n)
  PROVE  TypeInv'
<1>1. CASE Crash
  <2>1. left' \in 0 .. Budget /\ ignored' \subseteq {"stop", "load"}
    BY <1>1, HappensType DEF TypeInv, Crash
  <2>. QED
    BY <1>1, <2>1 DEF TypeInv, TypeOK, FewOthers, Crash, docker, memory
<1>2. CASE Write
  <2>1. data' \in [Volume \cup Name -> 0 .. MaxWrites + 1]
    <3>1. Store(Primary) \in Volume \cup Name /\ data[Store(Primary)] <= MaxWrites
      BY <1>2, Running, PrimaryName DEF TypeInv, Write
    <3>. DEFINE s == Store(Primary)
    <3>2. data[s] \in 0 .. MaxWrites + 1 /\ data[s] + 1 \in 0 .. MaxWrites + 1
      BY <3>1, Bounds DEF TypeInv, TypeOK
    <3>3. data' = [data EXCEPT ![s] = data[s] + 1]
      BY <1>2 DEF Write
    <3>. HIDE DEF s
    <3>. QED
      BY <3>2, <3>3 DEF TypeInv, TypeOK
  <2>. QED
    BY <1>2, <2>1 DEF TypeInv, TypeOK, FewOthers, Write, memory
<1>3. ASSUME NEW n \in Name, Sync(n) PROVE TypeInv'
  <2>1. Store(Primary) \in Volume \cup Name
    BY <1>3, Running, PrimaryName DEF TypeInv, Sync
  <2>2. data' \in [Volume \cup Name -> 0 .. MaxWrites + 1]
    BY <1>3, <2>1 DEF TypeInv, TypeOK, Sync
  <2>. QED
    BY <1>3, <2>2 DEF TypeInv, TypeOK, FewOthers, Sync, memory
<1>4. ASSUME NEW n \in Name, Kill(n) PROVE TypeInv'
  <2>1. left' \in 0 .. Budget /\ ignored' \subseteq {"stop", "load"}
    BY <1>4, HappensType DEF TypeInv, Kill
  <2>2. cont' \in [Name -> {Absent} \cup [up : BOOLEAN, vol : Vols]]
    <3>1. cont[n] \in [up : BOOLEAN, vol : Vols]
      BY <1>4, Running DEF TypeInv, Kill
    <3>. QED
      BY <1>4, <3>1 DEF TypeInv, TypeOK, Kill, Vols
  <2>. QED
    BY <1>4, <2>1, <2>2 DEF TypeInv, TypeOK, FewOthers, Kill, memory, Vols
<1>. QED
  BY <1>1, <1>2, <1>3, <1>4

LEMMA TypeStep == ASSUME TypeInv, [Next]_vars PROVE TypeInv'
<1>1. CASE NoFailover
  <2>1. Happens("inspect") \/ NothingHappens
    BY <1>1 DEF NoFailover
  <2>2. left' \in 0 .. Budget /\ ignored' \subseteq {"stop", "load"}
    BY <2>1, HappensType DEF TypeInv
  <2>. QED
    BY <1>1, <2>2 DEF TypeInv, TypeOK, FewOthers, NoFailover, docker, memory
<1>2. CASE ReplicasDone
  BY <1>2 DEF TypeInv, TypeOK, FewOthers, ReplicasDone, docker, memory
<1>3. CASE UNCHANGED vars
  BY <1>3 DEF TypeInv, TypeOK, FewOthers, vars, docker, memory
<1>4. CASE Controller
  BY <1>1, <1>2, <1>4, StartType, HealthCheckType, PromoteType, StopType, CreateType,
     WaitType, RecreateType, SaveType, RejoinType DEF Controller
<1>. QED
  BY <1>3, <1>4, EnvironmentType DEF Next

\* Under every event the controller's variables keep their types, and a failover
\* never needs a third replica number.
THEOREM TypeCorrect == Spec => []TypeOK
<1>1. TypeInv /\ [Next]_vars => TypeInv'
  BY TypeStep
<1>2. TypeInv => TypeOK
  BY DEF TypeInv
<1>. QED
  BY <1>1, <1>2, InitType, PTL DEF Spec

-------------------------------------------------------------------------------
(* The containers that exist, and the history                                *)

\* A name or a volume is never given to an absent container.
LEMMA Present ==
  /\ \A c \in [up : BOOLEAN, vol : Vols] : c # Absent
  /\ \A n : n \in Exists <=> n \in Name /\ cont[n] # Absent
  /\ \A n : (n \in Exists)' <=> n \in Name /\ cont'[n] # Absent
<1>1. ASSUME NEW c \in [up : BOOLEAN, vol : Vols] PROVE c # Absent
  <2>1. c.vol # "no container" /\ Absent.vol = "no container"
    BY DEF Vols, Volume, NoVol, Absent
  <2>. QED
    BY <2>1
<1>. QED
  BY <1>1 DEF Exists

LEMMA DockerRunAdds ==
  ASSUME TypeOK, NEW n \in Name, NEW v \in Vols, DockerRun(n, v)
  PROVE  /\ n \notin Exists /\ Exists' = Exists \cup {n}
         /\ cont'[n].vol = v
         /\ \A m \in Exists : cont'[m] = cont[m]
<1>1. /\ n \notin Exists
      /\ cont' = [m \in Name |-> IF m = n THEN [up |-> TRUE, vol |-> v] ELSE cont[m]]
  BY DEF TypeOK, DockerRun
<1>2. [up |-> TRUE, vol |-> v] # Absent
  BY Present
<1>. QED
  BY <1>1, <1>2 DEF Exists

LEMMA KillKeeps ==
  ASSUME TypeOK, NEW n \in Name, Kill(n)
  PROVE  /\ Exists' = Exists
         /\ \A m \in Name : cont'[m].vol = cont[m].vol
<1>1. cont[n] \in [up : BOOLEAN, vol : Vols] /\ n \in Exists
  BY Running DEF Kill
<1>. DEFINE dead == [cont[n] EXCEPT !.up = FALSE]
<1>2. dead \in [up : BOOLEAN, vol : Vols] /\ dead.vol = cont[n].vol
  BY <1>1
<1>3. cont' = [m \in Name |-> IF m = n THEN dead ELSE cont[m]]
  BY DEF TypeOK, Kill
<1>4. dead # Absent
  BY <1>2, Present
<1>. HIDE DEF dead
<1>. QED
  BY <1>1, <1>2, <1>3, <1>4 DEF Exists

LEMMA StopRemoves ==
  ASSUME TypeOK, NEW n \in nodes, StopAndRemove(n)
  PROVE  /\ nodes' = nodes \ {n}
         /\ \/ /\ Exists' = Exists \ {n} /\ ignored' = ignored
               /\ \A m \in Exists' : cont'[m] = cont[m]
            \/ /\ Exists' = Exists /\ cont' = cont /\ "stop" \in ignored'
<1>1. CASE cont' = [cont EXCEPT ![n] = Absent] /\ NothingHappens
  <2>1. cont' = [m \in Name |-> IF m = n THEN Absent ELSE cont[m]] /\ n \in Name
    BY <1>1 DEF TypeOK
  <2>. QED
    BY <1>1, <2>1 DEF Exists, NothingHappens, StopAndRemove
<1>2. CASE Happens("stop") /\ UNCHANGED cont
  BY <1>2 DEF Exists, Happens, StopAndRemove
<1>. QED
  BY <1>1, <1>2 DEF StopAndRemove

\* An error once ignored stays in the history.
LEMMA History == ASSUME [Next]_vars PROVE ignored \subseteq ignored'
<1>. USE Zenon DEF Happens, NothingHappens
<1>1. CASE Controller
  <2>1. CASE Start
    BY <2>1 DEF Start
  <2>2. CASE HealthCheck
    BY <2>2 DEF HealthCheck
  <2>3. CASE NoFailover \/ \E n \in Name : Promote(n)
    BY <2>3 DEF NoFailover, Promote
  <2>4. CASE StopAll
    BY <2>4 DEF StopAll, StopAndRemove
  <2>5. CASE CreatePrimary \/ WaitPrimary
    BY <2>5 DEF CreatePrimary, WaitPrimary, DockerRunFails
  <2>6. CASE RecreateReplica \/ ReplicasDone
    BY <2>6 DEF RecreateReplica, ReplicasDone, DockerRunFails
  <2>7. CASE SaveLeader
    BY <2>7 DEF SaveLeader
  <2>8. CASE Rejoin
    BY <2>8 DEF Rejoin, DockerRunFails
  <2>. QED
    BY <1>1, <2>1, <2>2, <2>3, <2>4, <2>5, <2>6, <2>7, <2>8 DEF Controller
<1>2. CASE Crash \/ Write \/ \E n \in Name : Sync(n) \/ Kill(n)
  BY <1>2 DEF Crash, Write, Sync, Kill
<1>3. CASE UNCHANGED vars
  BY <1>3 DEF vars
<1>. QED
  BY <1>1, <1>2, <1>3 DEF Next

-------------------------------------------------------------------------------
(* A watched node has a container: the controller registers a name only after *)
(* `docker run` took it, and forgets it before the container is removed.      *)

WatchedInv == /\ WatchedExist
              /\ pc = "wait" => Primary \in Exists

LEMMA WatchedController ==
  ASSUME TypeOK, WatchedInv, Controller
  PROVE  WatchedInv'
<1>1. CASE Start
  <2>1. nodes' \subseteq Exists /\ Exists' = Exists /\ pc' = "check"
    BY <1>1 DEF Start, ClaimLeader, StartWith, docker, Exists
  <2>. QED
    BY <2>1 DEF WatchedInv, WatchedExist
<1>2. CASE HealthCheck
  BY <1>2 DEF WatchedInv, WatchedExist, HealthCheck, docker, Exists
<1>3. CASE NoFailover \/ \E n \in Name : Promote(n)
  BY <1>3 DEF WatchedInv, WatchedExist, NoFailover, Promote, docker, memory, Exists
<1>4. CASE StopAll
  <2>1. ASSUME NEW n \in nodes, StopAndRemove(n), UNCHANGED pc PROVE WatchedInv'
    BY <1>4, <2>1, StopRemoves DEF WatchedInv, WatchedExist, StopAll
  <2>2. CASE pc = "stop" /\ pc' = "create" /\ UNCHANGED <<docker, saved, left, ignored, memory>>
    BY <2>2 DEF WatchedInv, WatchedExist, docker, memory, Exists
  <2>. QED
    BY <1>4, <2>1, <2>2 DEF StopAll
<1>5. CASE CreatePrimary
  <2>1. Primary \in Name /\ vol \in Vols
    BY PrimaryName DEF TypeOK, Vols
  <2>2. CASE DockerRun(Primary, vol)
    BY <1>5, <2>1, <2>2, DockerRunAdds DEF WatchedInv, WatchedExist, CreatePrimary, memory
  <2>3. CASE UNCHANGED docker /\ pc' = "rejoin"
    BY <1>5, <2>3 DEF WatchedInv, WatchedExist, CreatePrimary, memory, docker, Exists
  <2>. QED
    BY <1>5, <2>2, <2>3 DEF CreatePrimary, DockerRunFails
<1>6. CASE WaitPrimary
  BY <1>6 DEF WatchedInv, WatchedExist, WaitPrimary, Registered, docker, Exists
<1>7. CASE RecreateReplica
  <2>1. PICK o \in others :
          /\ \/ DockerRun(NewReplica(idx), o[2]) /\ Registered(NewReplica(idx))
             \/ UNCHANGED docker /\ UNCHANGED nodes
          /\ pc = "replicas" /\ UNCHANGED pc
    BY <1>7 DEF RecreateReplica, DockerRunFails
  <2>. DEFINE n == NewReplica(idx)
  <2>2. n \in Name /\ o[2] \in Vols
    BY DEF TypeOK, NewReplica, Name, Replica, Vols
  <2>. HIDE DEF n
  <2>3. CASE DockerRun(n, o[2]) /\ Registered(n)
    BY <2>1, <2>2, <2>3, DockerRunAdds DEF WatchedInv, WatchedExist, Registered
  <2>4. CASE UNCHANGED docker /\ UNCHANGED nodes
    BY <2>1, <2>4 DEF WatchedInv, WatchedExist, docker, Exists
  <2>. QED
    BY <2>1, <2>3, <2>4 DEF n
<1>8. CASE ReplicasDone \/ SaveLeader
  BY <1>8 DEF WatchedInv, WatchedExist, ReplicasDone, SaveLeader, docker, memory, Exists
<1>9. CASE Rejoin
  <2>. DEFINE n == FreeSlot
  <2>1. n \in Name /\ NoVol \in Vols
    BY DEF FreeSlot, Name, Replica, Vols
  <2>2. pc = "rejoin" /\ pc' = "check"
    BY <1>9 DEF Rejoin
  <2>3. \/ DockerRun(n, NoVol) /\ nodes' = nodes \cup {n}
        \/ UNCHANGED docker /\ UNCHANGED nodes
    BY <1>9 DEF Rejoin, DockerRunFails, docker, Registered
  <2>. HIDE DEF n
  <2>4. CASE DockerRun(n, NoVol) /\ nodes' = nodes \cup {n}
    BY <2>1, <2>2, <2>4, DockerRunAdds DEF WatchedInv, WatchedExist
  <2>5. CASE UNCHANGED docker /\ UNCHANGED nodes
    BY <2>2, <2>5 DEF WatchedInv, WatchedExist, docker, Exists
  <2>. QED
    BY <2>3, <2>4, <2>5
<1>. QED
  BY <1>1, <1>2, <1>3, <1>4, <1>5, <1>6, <1>7, <1>8, <1>9 DEF Controller

LEMMA WatchedStep ==
  ASSUME TypeOK, WatchedInv, [Next]_vars
  PROVE  WatchedInv'
<1>1. CASE Crash
  BY <1>1 DEF WatchedInv, WatchedExist, Crash
<1>2. ASSUME NEW n \in Name, Kill(n) PROVE WatchedInv'
  BY <1>2, KillKeeps DEF WatchedInv, WatchedExist, Kill, memory
<1>3. CASE Write \/ \E n \in Name : Sync(n)
  BY <1>3 DEF WatchedInv, WatchedExist, Write, Sync, memory, Exists
<1>4. CASE UNCHANGED vars
  BY <1>4 DEF WatchedInv, WatchedExist, vars, docker, memory, Exists
<1>. QED
  BY <1>1, <1>2, <1>3, <1>4, WatchedController DEF Next

\* A failover never fails for a watched replica whose container is gone.
THEOREM WatchedAlwaysExist == Spec => []WatchedExist
<1>1. Init => WatchedInv
  BY DEF Init, WatchedInv, WatchedExist
<1>2. TypeInv /\ WatchedInv /\ [Next]_vars => TypeInv' /\ WatchedInv'
  BY TypeStep, WatchedStep DEF TypeInv
<1>3. WatchedInv => WatchedExist
  BY DEF WatchedInv
<1>. QED
  BY <1>1, <1>2, <1>3, InitType, PTL DEF Spec

-------------------------------------------------------------------------------
(* The epoch in memory is the one in etcd, or none: a controller that saves    *)
(* an epoch is past a failover, which it only starts when it knows a leader.   *)

FailingOver == {"stop", "create", "wait", "replicas", "save"}

EpochInv == /\ pc \in FailingOver => epoch # 0
            /\ "load" \notin ignored /\ pc # "off" => epoch \in {0, saved}

LEMMA EpochStep ==
  ASSUME TypeOK, EpochInv, [Next]_vars
  PROVE  EpochInv' /\ (saved' \in {saved, saved + 1} \/ "load" \in ignored')
<1>1. CASE Start
  <2>1. CASE ClaimLeader(saved, Exists) \/ ClaimLeader(saved, {})
    BY <1>1, <2>1 DEF Start, ClaimLeader, StartWith, EpochInv, FailingOver, TypeOK
  <2>2. CASE Happens("load")
    BY <1>1, <2>2 DEF Start, Happens, EpochInv, FailingOver
  <2>3. CASE saved = 0 /\ epoch' = 0 /\ UNCHANGED saved
    BY <1>1, <2>3 DEF Start, EpochInv, FailingOver
  <2>. QED
    BY <1>1, <2>1, <2>2, <2>3 DEF Start
<1>2. CASE SaveLeader
  <2>1. ignored \subseteq ignored' /\ pc = "save" /\ pc' = "rejoin"
    BY <1>2, History DEF SaveLeader
  <2>2. epoch # 0 /\ ("load" \notin ignored => epoch = saved)
    BY <2>1 DEF EpochInv, FailingOver
  <2>3. \/ saved' = epoch + 1 /\ epoch' = epoch + 1
        \/ UNCHANGED <<saved, epoch>>
    BY <1>2 DEF SaveLeader
  <2>. QED
    BY <2>1, <2>2, <2>3 DEF EpochInv, FailingOver
<1>3. ASSUME UNCHANGED <<saved, epoch>>,
             /\ pc' = "off" \/ pc # "off"
             /\ pc' \in FailingOver => pc \in FailingOver \/ PrimaryLost
      PROVE  EpochInv' /\ saved' = saved
  <2>1. pc' \in FailingOver => epoch' # 0
    BY <1>3 DEF EpochInv, PrimaryLost
  <2>2. "load" \notin ignored' /\ pc' # "off" => epoch' \in {0, saved'}
    BY <1>3, History DEF EpochInv
  <2>. QED
    BY <1>3, <2>1, <2>2 DEF EpochInv
<1>4. CASE HealthCheck \/ NoFailover \/ \E n \in Name : Promote(n)
  BY <1>3, <1>4 DEF HealthCheck, NoFailover, Promote, memory, FailingOver
<1>5. CASE StopAll
  BY <1>3, <1>5 DEF StopAll, StopAndRemove, memory, FailingOver
<1>6. CASE CreatePrimary \/ WaitPrimary
  BY <1>3, <1>6 DEF CreatePrimary, WaitPrimary, memory, FailingOver
<1>7. CASE RecreateReplica \/ ReplicasDone \/ Rejoin
  BY <1>3, <1>7 DEF RecreateReplica, ReplicasDone, Rejoin, memory, FailingOver
<1>8. CASE Crash
  BY <1>3, <1>8 DEF Crash, memory, FailingOver
<1>9. CASE Write \/ (\E n \in Name : Sync(n) \/ Kill(n)) \/ UNCHANGED vars
  <2>1. UNCHANGED <<saved, epoch, pc>>
    BY <1>9 DEF Write, Sync, Kill, memory, vars
  <2>2. ignored \subseteq ignored'
    BY History
  <2>. QED
    BY <2>1, <2>2 DEF EpochInv
<1>. QED
  BY <1>1, <1>2, <1>4, <1>5, <1>6, <1>7, <1>8, <1>9 DEF Next, Controller

\* Whatever fails but the reading of the leader key, the epoch in etcd only
\* grows by one.
THEOREM EpochNeverSkips == Spec => EpochFences
<1>1. Init => EpochInv
  BY DEF Init, EpochInv, FailingOver
<1>2. TypeInv /\ EpochInv /\ [Next]_vars => TypeInv' /\ EpochInv'
  BY TypeStep, EpochStep DEF TypeInv
<1>3. TypeInv /\ EpochInv /\ [Next]_vars
        => [saved' \in {saved, saved + 1} \/ "load" \in ignored']_saved
  BY EpochStep DEF TypeInv
<1>. QED
  BY <1>1, <1>2, <1>3, InitType, PTL DEF Spec, EpochFences

-------------------------------------------------------------------------------
(* One writer per volume.  No two existing containers share a volume, and the  *)
(* volumes a failover has captured are free once it has stopped every node:    *)
(* which needs that it watches all there is when it watches a primary.         *)

\* Containers that share what they mount share nothing.
ApartExist == \A m, n \in Exists : m # n /\ cont[m].vol = cont[n].vol => cont[m].vol = NoVol

\* So do the containers still to recreate, and those that exist by then.
ApartOthers ==
  /\ pc \in {"stop", "create", "wait", "replicas"} =>
       \A o, q \in others : o # q /\ o[2] = q[2] => o[2] = NoVol
  /\ pc \in {"stop", "create"} => \A o \in others : o[2] = vol => o[2] = NoVol
  /\ pc \in {"wait", "replicas"} =>
       \A o \in others, n \in Exists : o[2] = cont[n].vol => o[2] = NoVol

\* The controller watches all there is when it is to stop it.
WatchesAll ==
  /\ pc # "off" /\ (Primary \in nodes \/ pc = "stop") => Exists \subseteq nodes
  /\ pc \in {"create", "wait"} => nodes = {}
  /\ pc = "create" => Exists = {}
  /\ pc = "wait" => Exists \subseteq {Primary}

SoleInv == "stop" \notin ignored => ApartExist /\ ApartOthers /\ WatchesAll

\* What a step that touches no container and starts no failover keeps.
LEMMA SoleKept ==
  ASSUME SoleInv, [Next]_vars, Exists' = Exists,
         \A n \in Exists : cont'[n].vol = cont[n].vol,
         UNCHANGED <<vol, others>>,
         \/ pc' \in {"off", "rejoin", "check", "failover", "save"}
         \/ pc' \in {"stop", "create", "wait", "replicas"} /\ pc' = pc,
         "stop" \notin ignored => WatchesAll'
  PROVE  SoleInv'
<1>. SUFFICES ASSUME "stop" \notin ignored' PROVE (ApartExist /\ ApartOthers)' /\ WatchesAll'
  BY DEF SoleInv
<1>1. "stop" \notin ignored
  BY History
<1>2. ApartExist /\ ApartOthers /\ WatchesAll'
  BY <1>1 DEF SoleInv
<1>3. ApartExist'
  BY <1>2 DEF ApartExist
<1>4. ApartOthers'
  BY <1>2 DEF ApartOthers
<1>. QED
  BY <1>2, <1>3, <1>4

LEMMA SolePromote ==
  ASSUME TypeOK, SoleInv, [Next]_vars, NEW n \in Name, Promote(n)
  PROVE  SoleInv'
<1>. SUFFICES ASSUME "stop" \notin ignored' PROVE ApartExist' /\ ApartOthers' /\ WatchesAll'
  BY DEF SoleInv
<1>1. ApartExist /\ WatchesAll
  BY History DEF SoleInv
<1>2. /\ pc = "failover" /\ pc' = "stop" /\ UNCHANGED <<cont, nodes>> /\ Exists' = Exists
      /\ n \in Exists /\ Primary \in nodes
  BY DEF Promote, PrimaryLost, docker, Exists
<1>7. /\ vol' = NoVol \/ vol' = cont[n].vol
      /\ \A o \in others' : \E m \in Exists \ {n} : o = <<m, cont[m].vol>> \/ o = <<m, NoVol>>
  <2>1. ASSUME NEW o \in others' PROVE \E m \in Exists \ {n} : o = <<m, cont[m].vol>> \/ o = <<m, NoVol>>
    <3>1. PICK m \in (nodes \cap Replica \cap Exists) \ {n} : o = <<m, cont[m].vol>> \/ o = <<m, NoVol>>
      BY OthersPicked, Zenon
    <3>. QED
      BY <3>1
  <2>. QED
    BY <2>1, OthersPicked, Zenon
<1>3. ApartExist' /\ WatchesAll'
  BY <1>1, <1>2 DEF ApartExist, WatchesAll
<1>4. ASSUME NEW o \in others', NEW q \in others', o # q, o[2] = q[2] PROVE o[2] = NoVol
  <2>1. PICK a \in Exists : o = <<a, cont[a].vol>> \/ o = <<a, NoVol>>
    BY <1>7
  <2>2. PICK b \in Exists : q = <<b, cont[b].vol>> \/ q = <<b, NoVol>>
    BY <1>7
  <2>. QED
    BY <1>1, <1>4, <2>1, <2>2 DEF ApartExist
<1>5. ASSUME NEW o \in others', o[2] = vol' PROVE o[2] = NoVol
  <2>1. PICK a \in Exists \ {n} : o = <<a, cont[a].vol>> \/ o = <<a, NoVol>>
    BY <1>7
  <2>. QED
    BY <1>1, <1>2, <1>5, <1>7, <2>1 DEF ApartExist
<1>6. ApartOthers'
  BY <1>2, <1>4, <1>5 DEF ApartOthers
<1>. QED
  BY <1>3, <1>6

LEMMA SoleStop ==
  ASSUME TypeOK, SoleInv, [Next]_vars, StopAll
  PROVE  SoleInv'
<1>. SUFFICES ASSUME "stop" \notin ignored' PROVE ApartExist' /\ ApartOthers' /\ WatchesAll'
  BY DEF SoleInv
<1>1. ApartExist /\ ApartOthers /\ WatchesAll
  BY History DEF SoleInv
<1>2. ASSUME NEW n \in nodes, StopAndRemove(n), UNCHANGED pc
      PROVE  ApartExist' /\ ApartOthers' /\ WatchesAll'
  <2>1. /\ nodes' = nodes \ {n} /\ Exists' = Exists \ {n}
        /\ \A m \in Exists' : cont'[m] = cont[m]
        /\ pc = "stop" /\ UNCHANGED <<vol, others>>
    BY <1>2, StopRemoves DEF StopAll, StopAndRemove
  <2>2. ApartExist' /\ WatchesAll'
    BY <1>1, <1>2, <2>1 DEF ApartExist, WatchesAll
  <2>3. ApartOthers'
    BY <1>1, <1>2, <2>1 DEF ApartOthers
  <2>. QED
    BY <2>2, <2>3
<1>3. CASE nodes = {} /\ pc' = "create" /\ UNCHANGED <<docker, saved, left, ignored, memory>>
  <2>1. pc = "stop" /\ UNCHANGED <<cont, nodes, vol, others>> /\ Exists' = Exists
    BY <1>3 DEF StopAll, docker, memory, Exists
  <2>2. Exists = {}
    BY <1>1, <1>3, <2>1 DEF WatchesAll
  <2>3. ApartExist' /\ WatchesAll'
    BY <1>1, <1>3, <2>1, <2>2 DEF ApartExist, WatchesAll
  <2>4. ApartOthers'
    BY <1>1, <1>3, <2>1 DEF ApartOthers
  <2>. QED
    BY <2>3, <2>4
<1>. QED
  BY <1>2, <1>3 DEF StopAll

LEMMA SoleCreate ==
  ASSUME TypeOK, SoleInv, [Next]_vars, CreatePrimary
  PROVE  SoleInv'
<1>1. CASE DockerRun(Primary, vol) /\ pc' = "wait"
  <2>. SUFFICES ASSUME "stop" \notin ignored' PROVE ApartExist' /\ ApartOthers' /\ WatchesAll'
    BY DEF SoleInv
  <2>1. ApartOthers /\ WatchesAll
    BY History DEF SoleInv
  <2>2. Primary \in Name /\ vol \in Vols
    BY PrimaryName DEF TypeOK, Vols
  <2>3. /\ pc = "create" /\ UNCHANGED <<nodes, vol, others>>
        /\ Exists = {} /\ nodes = {}
        /\ Exists' = {Primary} /\ cont'[Primary].vol = vol
    BY <1>1, <2>1, <2>2, DockerRunAdds DEF CreatePrimary, memory, WatchesAll
  <2>4. ApartExist' /\ WatchesAll'
    BY <1>1, <2>3 DEF ApartExist, WatchesAll
  <2>5. ApartOthers'
    BY <1>1, <2>1, <2>3 DEF ApartOthers
  <2>. QED
    BY <2>4, <2>5
<1>2. CASE UNCHANGED docker /\ pc' = "rejoin"
  <2>1. /\ Exists' = Exists /\ UNCHANGED <<cont, nodes, vol, others>> /\ pc = "create"
    BY <1>2 DEF CreatePrimary, docker, memory, Exists
  <2>2. "stop" \notin ignored => WatchesAll'
    BY <1>2, <2>1 DEF SoleInv, WatchesAll
  <2>. QED
    BY <1>2, <2>1, <2>2, SoleKept
<1>. QED
  BY <1>1, <1>2 DEF CreatePrimary, DockerRunFails

LEMMA SoleWait ==
  ASSUME TypeOK, SoleInv, [Next]_vars, WaitPrimary
  PROVE  SoleInv'
<1>1. /\ Exists' = Exists /\ UNCHANGED <<cont, vol, others>> /\ pc = "wait"
      /\ \/ pc' = "replicas" /\ nodes' = nodes \cup {Primary}
         \/ pc' = "rejoin" /\ nodes' = nodes
  BY DEF WaitPrimary, Registered, docker, Exists
<1>. SUFFICES ASSUME "stop" \notin ignored' PROVE ApartExist' /\ ApartOthers' /\ WatchesAll'
  BY DEF SoleInv
<1>2. ApartExist /\ ApartOthers /\ WatchesAll
  BY History DEF SoleInv
<1>3. ApartExist' /\ WatchesAll'
  BY <1>1, <1>2 DEF ApartExist, WatchesAll
<1>4. ApartOthers'
  BY <1>1, <1>2 DEF ApartOthers
<1>. QED
  BY <1>3, <1>4

LEMMA SoleRecreate ==
  ASSUME TypeOK, SoleInv, [Next]_vars, RecreateReplica
  PROVE  SoleInv'
<1>. SUFFICES ASSUME "stop" \notin ignored' PROVE ApartExist' /\ ApartOthers' /\ WatchesAll'
  BY DEF SoleInv
<1>1. ApartExist /\ ApartOthers /\ WatchesAll
  BY History DEF SoleInv
<1>. DEFINE n == NewReplica(idx)
<1>2. n \in Name /\ n # Primary
  BY DEF NewReplica, Name, Replica, Primary
<1>3. PICK o \in others :
        /\ others' = others \ {o}
        /\ pc = "replicas" /\ UNCHANGED <<pc, vol>>
        /\ \/ DockerRun(n, o[2]) /\ nodes' = nodes \cup {n}
           \/ UNCHANGED docker /\ UNCHANGED nodes
  BY DEF RecreateReplica, DockerRunFails, Registered
<1>. HIDE DEF n
<1>4. o[2] \in Vols
  BY DEF TypeOK, Vols
<1>5. CASE DockerRun(n, o[2]) /\ nodes' = nodes \cup {n}
  <2>1. /\ n \notin Exists /\ Exists' = Exists \cup {n} /\ cont'[n].vol = o[2]
        /\ \A m \in Exists : cont'[m] = cont[m]
    BY <1>2, <1>4, <1>5, DockerRunAdds
  <2>2. \A m \in Exists : o[2] = cont[m].vol => o[2] = NoVol
    BY <1>1, <1>3 DEF ApartOthers
  <2>3. ApartExist'
    BY <1>1, <2>1, <2>2 DEF ApartExist
  <2>4. \A q \in others' : q[2] = o[2] => q[2] = NoVol
    BY <1>1, <1>3 DEF ApartOthers
  <2>5. ApartOthers'
    BY <1>1, <1>3, <2>1, <2>4 DEF ApartOthers
  <2>6. WatchesAll'
    BY <1>1, <1>2, <1>3, <1>5, <2>1 DEF WatchesAll
  <2>. QED
    BY <2>3, <2>5, <2>6
<1>6. CASE UNCHANGED docker /\ UNCHANGED nodes
  <2>1. UNCHANGED cont /\ Exists' = Exists
    BY <1>6 DEF docker, Exists
  <2>2. ApartExist' /\ WatchesAll'
    BY <1>1, <1>3, <1>6, <2>1 DEF ApartExist, WatchesAll
  <2>3. ApartOthers'
    BY <1>1, <1>3, <2>1 DEF ApartOthers
  <2>. QED
    BY <2>2, <2>3
<1>. QED
  BY <1>3, <1>5, <1>6

LEMMA SoleRejoin ==
  ASSUME TypeOK, SoleInv, [Next]_vars, Rejoin
  PROVE  SoleInv'
<1>. SUFFICES ASSUME "stop" \notin ignored' PROVE ApartExist' /\ ApartOthers' /\ WatchesAll'
  BY DEF SoleInv
<1>1. ApartExist /\ WatchesAll
  BY History DEF SoleInv
<1>. DEFINE n == FreeSlot
<1>2. n \in Name /\ n # Primary /\ NoVol \in Vols
  BY DEF FreeSlot, Name, Replica, Primary, Vols
<1>3. /\ pc = "rejoin" /\ pc' = "check"
      /\ \/ DockerRun(n, NoVol) /\ nodes' = nodes \cup {n}
         \/ UNCHANGED docker /\ UNCHANGED nodes
  BY DEF Rejoin, DockerRunFails, docker, Registered
<1>. HIDE DEF n
<1>4. ApartOthers'
  BY <1>3 DEF ApartOthers
<1>5. CASE DockerRun(n, NoVol) /\ nodes' = nodes \cup {n}
  <2>1. /\ n \notin Exists /\ Exists' = Exists \cup {n} /\ cont'[n].vol = NoVol
        /\ \A m \in Exists : cont'[m] = cont[m]
    BY <1>2, <1>5, DockerRunAdds
  <2>. QED
    BY <1>1, <1>2, <1>3, <1>4, <1>5, <2>1 DEF ApartExist, WatchesAll
<1>6. CASE UNCHANGED docker /\ UNCHANGED nodes
  BY <1>1, <1>3, <1>4, <1>6 DEF ApartExist, WatchesAll, docker, Exists
<1>. QED
  BY <1>3, <1>5, <1>6

LEMMA SoleStep ==
  ASSUME TypeOK, SoleInv, [Next]_vars
  PROVE  SoleInv'
<1>1. CASE Start
  <2>1. /\ Exists' = Exists /\ UNCHANGED cont /\ pc' = "check"
        /\ nodes' = Exists \/ nodes' = {}
    BY <1>1 DEF Start, ClaimLeader, StartWith, docker, Exists
  <2>2. WatchesAll' /\ ApartOthers'
    BY <2>1 DEF WatchesAll, ApartOthers
  <2>. QED
    BY <2>1, <2>2, History DEF SoleInv, ApartExist
<1>2. CASE HealthCheck \/ NoFailover \/ ReplicasDone \/ SaveLeader
  <2>1. /\ Exists' = Exists /\ UNCHANGED <<cont, nodes, vol, others>>
        /\ pc # "off" /\ pc' \in {"failover", "rejoin", "save"}
    BY <1>2 DEF HealthCheck, NoFailover, ReplicasDone, SaveLeader, docker, memory, Exists
  <2>2. "stop" \notin ignored => WatchesAll'
    BY <2>1 DEF SoleInv, WatchesAll
  <2>. QED
    BY <2>1, <2>2, SoleKept
<1>3. CASE Crash
  <2>1. Exists' = Exists /\ UNCHANGED <<cont, nodes, vol, others>> /\ pc' = "off"
    BY <1>3 DEF Crash, docker, memory, Exists
  <2>2. WatchesAll'
    BY <2>1 DEF WatchesAll
  <2>. QED
    BY <2>1, <2>2, SoleKept
<1>4. ASSUME NEW n \in Name, Kill(n) PROVE SoleInv'
  <2>1. /\ Exists' = Exists /\ \A m \in Exists : cont'[m].vol = cont[m].vol
        /\ UNCHANGED <<nodes, vol, others, pc>>
    BY <1>4, KillKeeps DEF Kill, memory, Exists
  <2>2. "stop" \notin ignored => WatchesAll'
    BY <2>1 DEF SoleInv, WatchesAll
  <2>3. pc \in {"off", "rejoin", "check", "failover", "save", "stop", "create", "wait", "replicas"}
    BY DEF TypeOK
  <2>. QED
    BY <2>1, <2>2, <2>3, SoleKept
<1>5. CASE Write \/ (\E n \in Name : Sync(n)) \/ UNCHANGED vars
  <2>1. UNCHANGED <<cont, ignored, nodes, vol, others, pc>> /\ Exists' = Exists
    BY <1>5 DEF Write, Sync, vars, docker, memory, Exists
  <2>. QED
    BY <2>1 DEF SoleInv, ApartExist, ApartOthers, WatchesAll
<1>. QED
  BY <1>1, <1>2, <1>3, <1>4, <1>5, SolePromote, SoleStop, SoleCreate, SoleWait,
     SoleRecreate, SoleRejoin DEF Next, Controller

LEMMA SoleOneWriter == ASSUME TypeOK, SoleInv PROVE OneWriterPerVolume
<1>. SUFFICES ASSUME NEW m \in Name, NEW n \in Name, cont[m].up, cont[n].up, m # n,
                     Store(m) = Store(n), "stop" \notin ignored
              PROVE  FALSE
  BY DEF OneWriterPerVolume
<1>1. /\ m \in Exists /\ n \in Exists
      /\ cont[m].vol \in Vols /\ cont[n].vol \in Vols
  BY Running
<1>2. Volume \cap Name = {}
  BY DEF Volume, Name, Primary, Replica
<1>3. cont[m].vol = cont[n].vol /\ cont[m].vol # NoVol
  BY <1>1, <1>2 DEF Store, Vols
<1>. QED
  BY <1>1, <1>3 DEF SoleInv, ApartExist

\* Whatever crashes, is killed or answers late, as long as no docker stop failed,
\* two running databases never write one volume.
THEOREM OneWriterAlways == Spec => []OneWriterPerVolume
<1>1. Init => SoleInv
  <2>1. ASSUME Init PROVE SoleInv
    <3>1. /\ cont["primary-1"] = [up |-> TRUE, vol |-> "primary_data"]
          /\ cont["replica-1"] = [up |-> TRUE, vol |-> "replica_data"]
          /\ cont["replica-2-1"] = [up |-> TRUE, vol |-> "replica2_data"]
          /\ "replica-2" \notin Exists
      BY <2>1, SMT DEF Init, Name, Replica, Primary, Exists
    <3>2. ApartExist
      BY <3>1 DEF ApartExist, Exists, Name, Replica, Primary
    <3>. QED
      BY <2>1, <3>2 DEF Init, SoleInv, ApartOthers, WatchesAll
  <2>. QED
    BY <2>1
<1>2. TypeInv /\ SoleInv /\ [Next]_vars => TypeInv' /\ SoleInv'
  BY TypeStep, SoleStep DEF TypeInv
<1>3. TypeInv /\ SoleInv => OneWriterPerVolume
  BY SoleOneWriter DEF TypeInv
<1>. QED
  BY <1>1, <1>2, <1>3, InitType, PTL DEF Spec

-------------------------------------------------------------------------------
(* What a promotion keeps                                                    *)

\* The new primary holds what the replica held that was picked, if its container had a
\* volume.
VolumeKept ==
  /\ [][\A n \in Name : Promote(n) => vol' = cont[n].vol]_vars
  /\ [][pc = "create" /\ pc' = "wait" /\ vol # NoVol => (data[Store(Primary)])' >= held]_vars

\* When no check is slow, a primary taken for lost is down, so that nothing is written or
\* copied between the choice of a replica and the start of its volume.
HeldInv ==
  /\ pc = "failover" /\ Primary \in nodes \ healthy => ~cont[Primary].up
  /\ pc \in {"stop", "create"} => ~cont[Primary].up
  /\ pc \in {"stop", "create"} /\ vol # NoVol => data[vol] = held

\* A primary that is down stays down unless it is started, and nothing is written then.
LEMMA DownStays ==
  ASSUME TypeOK, Crash \/ Write \/ \E n \in Name : Sync(n) \/ Kill(n), ~cont[Primary].up
  PROVE  ~cont'[Primary].up /\ data' = data
<1>1. ~Write /\ \A n \in Name : ~Sync(n)
  BY DEF Write, Sync
<1>2. CASE Crash
  BY <1>2 DEF Crash, docker
<1>3. ASSUME NEW n \in Name, Kill(n) PROVE ~cont'[Primary].up /\ data' = data
  <2>1. n # Primary /\ cont' = [cont EXCEPT ![n].up = FALSE] /\ data' = data
    BY <1>3 DEF Kill
  <2>2. cont'[Primary] = cont[Primary]
    BY <2>1 DEF TypeOK
  <2>. QED
    BY <2>1, <2>2
<1>. QED
  BY <1>1, <1>2, <1>3

LEMMA HealthDown ==
  ASSUME TypeOK, "slow" \notin Events, HealthCheck, Primary \in nodes' \ healthy'
  PROVE  ~cont'[Primary].up
<1>1. healthy' = {n \in nodes : Answers(n)} /\ cont' = cont /\ nodes' = nodes
  BY DEF HealthCheck, Happens, docker
<1>2. ~Answers(Primary)
  BY <1>1
<1>3. Alias(Primary) = "sqld-primary" /\ ResolveHost(Primary) = "sqld-primary"
  BY DEF Alias, ResolveHost, Primary
<1>4. ~cont[Primary].up
  BY <1>2, <1>3, PrimaryName, Zenon DEF Answers
<1>. QED
  BY <1>1, <1>4

LEMMA StopKeepsDown ==
  ASSUME TypeOK, StopAll, ~cont[Primary].up
  PROVE  ~cont'[Primary].up /\ data' = data
<1>1. CASE \E n \in nodes : StopAndRemove(n)
  <2>1. PICK n \in nodes : StopAndRemove(n)
    BY <1>1
  <2>2. data' = data /\ (cont' = cont \/ cont' = [cont EXCEPT ![n] = Absent])
    BY <2>1 DEF StopAndRemove
  <2>3. ~Absent.up
    BY DEF Absent
  <2>4. n \in Name /\ Primary \in Name
    BY PrimaryName DEF TypeOK
  <2>. QED
    BY <2>2, <2>3, <2>4 DEF TypeOK
<1>2. CASE UNCHANGED docker
  BY <1>2 DEF docker
<1>. QED
  BY <1>1, <1>2 DEF StopAll

LEMMA HeldStep ==
  ASSUME TypeOK, "slow" \notin Events, HeldInv, [Next]_vars
  PROVE  HeldInv'
<1>1. CASE Start \/ WaitPrimary \/ RecreateReplica \/ ReplicasDone \/ SaveLeader \/ Rejoin \/ NoFailover
  <2>1. pc' \notin {"failover", "stop", "create"}
    BY <1>1 DEF Start, WaitPrimary, RecreateReplica, ReplicasDone, SaveLeader, Rejoin, NoFailover
  <2>. QED
    BY <2>1 DEF HeldInv
<1>2. CASE HealthCheck
  <2>1. pc' = "failover"
    BY <1>2 DEF HealthCheck
  <2>. QED
    BY <1>2, <2>1, HealthDown DEF HeldInv
<1>3. ASSUME NEW n \in Name, Promote(n) PROVE HeldInv'
  <2>1. ~cont[Primary].up /\ pc' = "stop" /\ cont' = cont /\ data' = data
    BY <1>3 DEF Promote, PrimaryLost, HeldInv, docker
  <2>2. vol' \in {NoVol, cont[n].vol} /\ held' = data[Store(n)]
    BY <1>3 DEF Promote
  <2>3. vol' # NoVol => data[vol'] = held'
    BY <2>2 DEF Store
  <2>. QED
    BY <2>1, <2>3 DEF HeldInv
<1>4. CASE StopAll
  <2>1. pc = "stop" /\ pc' \in {"stop", "create"} /\ UNCHANGED <<vol, held>>
    BY <1>4 DEF StopAll, StopAndRemove, memory
  <2>. QED
    BY <1>4, <2>1, StopKeepsDown DEF HeldInv
<1>5. CASE CreatePrimary
  <2>1. pc' \in {"wait", "rejoin"}
    BY <1>5 DEF CreatePrimary
  <2>. QED
    BY <2>1 DEF HeldInv
<1>6. CASE Crash \/ Write \/ \E n \in Name : Sync(n) \/ Kill(n)
  <2>1. UNCHANGED <<memory>> /\ pc' \in {pc, "off"}
    BY <1>6 DEF Crash, Write, Sync, Kill
  <2>. QED
    BY <1>6, <2>1, DownStays DEF HeldInv, memory
<1>7. CASE UNCHANGED vars
  BY <1>7 DEF HeldInv, vars, docker, memory
<1>. QED
  BY <1>1, <1>2, <1>3, <1>4, <1>5, <1>6, <1>7 DEF Next, Controller

LEMMA HeldAlways ==
  ASSUME "slow" \notin Events
  PROVE  Spec => [](TypeOK /\ HeldInv)
<1>1. Init => HeldInv
  BY DEF Init, HeldInv
<1>2. TypeOK /\ HeldInv /\ [Next]_vars => HeldInv'
  BY HeldStep
<1>. QED
  BY <1>1, <1>2, TypeCorrect, PTL DEF Spec

\* The step that starts the primary starts it over the volume, and changes no other.
LEMMA PrimaryOver ==
  ASSUME TypeOK, HeldInv, [Next]_vars, pc = "create", pc' = "wait", vol # NoVol
  PROVE  (data[Store(Primary)])' >= held
<1>1. DockerRun(Primary, vol)
  BY DEF Next, Controller, Start, HealthCheck, NoFailover, Promote, StopAll, CreatePrimary, WaitPrimary,
     RecreateReplica, ReplicasDone, SaveLeader, Rejoin, Crash, Write, Sync, Kill, vars
<1>2. cont'[Primary].vol = vol
  BY <1>1, DockerRunAdds, PrimaryName DEF TypeOK, Vols
<1>3. data' = data /\ Store(Primary)' = vol
  BY <1>1, <1>2 DEF DockerRun, Store
<1>4. data[vol] = held /\ held \in Nat
  BY Bounds DEF HeldInv, TypeOK
<1>. QED
  BY <1>3, <1>4

\* docs/libsql.md:45, that a promoted replica's volume becomes the new primary, as far as
\* it holds: of every replica that has a volume, for any threshold and any crashes, kills
\* and failing commands but two.  A check must not miss a node that answers: a primary
\* that goes on while its replica is promoted may still be copied.  And docker must tell
\* the volume: a replica whose `inspect` fails is replaced by a primary without one.
THEOREM PromotionKeepsVolume ==
  ASSUME {"slow", "inspect"} \cap Events = {}
  PROVE  Spec => VolumeKept
<1>1. TypeOK /\ HeldInv /\ [Next]_vars
        => [pc = "create" /\ pc' = "wait" /\ vol # NoVol => (data[Store(Primary)])' >= held]_vars
  BY PrimaryOver
<1>2. [Next]_vars => [\A n \in Name : Promote(n) => vol' = cont[n].vol]_vars
  BY OthersPicked
<1>3. Spec => [](TypeOK /\ HeldInv)
  BY HeldAlways
<1>. QED
  BY <1>1, <1>2, <1>3, PTL DEF Spec, VolumeKept

\* Only a rejoin makes a container without a volume, if docker tells the volumes.
AllVolumes ==
  /\ \A n \in Exists : cont[n].vol # NoVol
  /\ pc \in {"stop", "create", "wait", "replicas"} => vol # NoVol /\ \A o \in others : o[2] # NoVol

LEMMA VolumesStay ==
  ASSUME TypeOK, Desired = 0, "inspect" \notin Events, AllVolumes, [Next]_vars
  PROVE  AllVolumes'
<1>1. CASE Start \/ HealthCheck \/ NoFailover \/ SaveLeader \/ ReplicasDone \/ Crash \/ Write \/ UNCHANGED vars
  <2>1. cont' = cont /\ Exists' = Exists
    BY <1>1 DEF Start, HealthCheck, NoFailover, SaveLeader, ReplicasDone, Crash, Write, vars, docker, Exists
  <2>2. pc' \in {"stop", "create", "wait", "replicas"} =>
          pc \in {"stop", "create", "wait", "replicas"} /\ vol' = vol /\ others' = others
    BY <1>1 DEF Start, HealthCheck, NoFailover, SaveLeader, ReplicasDone, Crash, Write, vars, memory
  <2>. QED
    BY <2>1, <2>2 DEF AllVolumes
<1>2. ASSUME NEW n \in Name, Promote(n) PROVE AllVolumes'
  <2>1. cont' = cont /\ Exists' = Exists /\ n \in Exists
    BY <1>2 DEF Promote, docker, Exists
  <2>2. vol' = cont[n].vol /\ others' = VolumesOf((nodes \cap Replica \cap Exists) \ {n})
    BY <1>2, OthersPicked
  <2>. QED
    BY <2>1, <2>2 DEF AllVolumes, VolumesOf
<1>3. CASE StopAll
  <2>1. UNCHANGED <<vol, others>> /\ pc = "stop"
    BY <1>3 DEF StopAll, StopAndRemove, memory
  <2>2. Exists' \subseteq Exists /\ \A m \in Exists' : cont'[m] = cont[m]
    <3>1. CASE \E n \in nodes : StopAndRemove(n)
      BY <3>1, StopRemoves
    <3>2. CASE UNCHANGED docker
      BY <3>2 DEF docker, Exists
    <3>. QED
      BY <1>3, <3>1, <3>2 DEF StopAll
  <2>. QED
    BY <2>1, <2>2 DEF AllVolumes
<1>4. CASE CreatePrimary
  <2>1. pc = "create" /\ UNCHANGED <<vol, others>>
    BY <1>4 DEF CreatePrimary, memory
  <2>2. CASE DockerRun(Primary, vol)
    BY <2>1, <2>2, DockerRunAdds, PrimaryName DEF AllVolumes, TypeOK, Vols
  <2>3. CASE UNCHANGED docker
    BY <2>1, <2>3 DEF AllVolumes, docker, Exists
  <2>. QED
    BY <1>4, <2>2, <2>3 DEF CreatePrimary, DockerRunFails
<1>5. CASE WaitPrimary
  BY <1>5 DEF WaitPrimary, AllVolumes, docker, Exists
<1>6. CASE RecreateReplica
  <2>1. PICK o \in others : /\ others' = others \ {o} /\ vol' = vol /\ pc = "replicas"
                            /\ DockerRun(NewReplica(idx), o[2]) \/ DockerRunFails(NewReplica(idx))
    BY <1>6 DEF RecreateReplica
  <2>2. o[2] \in Vols /\ o[2] # NoVol /\ NewReplica(idx) \in Name
    BY <2>1 DEF TypeOK, Vols, AllVolumes, NewReplica, Name, Replica
  <2>3. CASE DockerRun(NewReplica(idx), o[2])
    BY <2>1, <2>2, <2>3, DockerRunAdds DEF AllVolumes
  <2>4. CASE UNCHANGED docker
    BY <2>1, <2>4 DEF AllVolumes, docker, Exists
  <2>. QED
    BY <2>1, <2>3, <2>4 DEF DockerRunFails
<1>7. CASE Rejoin
  <2>1. ~MustRejoin
    <3>1. IsFiniteSet(Replica)
      <4>1. Replica = (({} \cup {"replica-1"}) \cup {"replica-2-1"}) \cup {"replica-2"}
        BY DEF Replica
      <4>. QED
        BY <4>1, FS_EmptySet, FS_AddElement, Zenon
    <3>2. Cardinality(LiveReplicas) \in Nat
      BY <3>1, FS_Subset, FS_CardinalityType DEF LiveReplicas
    <3>. QED
      BY <3>2 DEF MustRejoin
  <2>. QED
    BY <1>7, <2>1 DEF Rejoin, AllVolumes, docker, Exists
<1>8. ASSUME NEW n \in Name, Sync(n) \/ Kill(n) PROVE AllVolumes'
  <2>1. Exists' = Exists /\ (\A m \in Name : cont'[m].vol = cont[m].vol)
    BY <1>8, KillKeeps DEF Sync, Exists
  <2>2. UNCHANGED <<pc, vol, others>> /\ Exists \subseteq Name
    BY <1>8 DEF Sync, Kill, memory, Exists
  <2>. QED
    BY <2>1, <2>2 DEF AllVolumes
<1>. QED
  BY <1>1, <1>2, <1>3, <1>4, <1>5, <1>6, <1>7, <1>8 DEF Next, Controller

\* And of every replica, where the controller is told to keep none: but for an `inspect`
\* that fails, DESIRED_REPLICAS is what makes it start a replica without its volume.
THEOREM PromotionKeepsAll ==
  ASSUME {"slow", "inspect"} \cap Events = {}, Desired = 0
  PROVE  Spec => PromotionKeepsData
<1>1. Init => AllVolumes
  <2>. SUFFICES ASSUME Init, NEW n \in Name PROVE cont[n] = Absent \/ cont[n].vol # NoVol
    BY DEF Init, AllVolumes, Exists
  <2>. QED
    BY DEF Init, NoVol, Name, Replica, Primary
<1>2. TypeOK /\ AllVolumes /\ [Next]_vars => AllVolumes'
  BY VolumesStay
<1>3. TypeOK /\ HeldInv /\ AllVolumes /\ [Next]_vars
        => (pc = "create" /\ pc' = "wait" => (data[Store(Primary)])' >= held)
  BY PrimaryOver DEF AllVolumes
<1>4. Spec => [](TypeOK /\ HeldInv)
  BY HeldAlways
<1>. QED
  BY <1>1, <1>2, <1>3, <1>4, PTL DEF Spec, PromotionKeepsData
===============================================================================
