---------------------------- MODULE LibsqlFailover ----------------------------
(***************************************************************************)
(* The controller of the libsql-dockerized template: it health-checks one  *)
(* primary and two replicas every five seconds, replaces a dead primary by *)
(* a new container over a replica's volume, and rejoins lost replicas.     *)
(* An action is one docker or etcd command; containers are killed and the  *)
(* controller restarted between any two.                                   *)
(* Source: src/templates/libsql-dockerized/controller/main.go.txt, started *)
(* from the docker-compose.yml next to it.                                 *)
(***************************************************************************)
EXTENDS Integers, FiniteSets

CONSTANTS
  Threshold, \* HEALTH_THRESHOLD: failed checks before a failover
  Desired,   \* DESIRED_REPLICAS
  MaxWrites, \* bound: transactions the clients commit
  Budget,    \* bound: kills, crashes and failing commands in a behaviour
  Events     \* their kinds, of {"kill", "crash", "run", "stop", "load", "list", "save", "slow", "inspect"}

\* Desired: Replica has no names for a third.
ASSUME BoundAssumption ==
  {Threshold, MaxWrites, Budget} \subseteq Nat /\ Threshold > 0 /\ Desired \in 0 .. 2

VARIABLES
  cont,    \* the docker containers: [up, vol], or Absent
  data,    \* transactions held by each volume or container layer
  saved,   \* epoch of the leader key in etcd, 0 when there is none
  left,    \* events that may still happen
  ignored, \* history: "stop" and "load", when such an error has been ignored
  \* In the controller's memory:
  epoch,   \* epoch of the leader it knows, 0 when it knows none
  nodes, healthy, fails, \* containers watched, those that answered, failed checks
  pc,      \* the next command
  vol,     \* volume of the promoted replica
  others,  \* volumes of the other replicas, by the name they had
  idx,     \* number of the next replica to recreate
  held     \* history: transactions the promoted replica held when it was picked

docker == <<cont, data>>
memory == <<epoch, nodes, healthy, fails, vol, others, idx, held>>
vars   == <<docker, saved, left, ignored, memory, pc>>

\* Containers as compose names them, and the replica-2 the controller creates.
Primary == "primary-1"
Replica == {"replica-1", "replica-2-1", "replica-2"}
Name    == {Primary} \cup Replica
Volume  == {"primary_data", "replica_data", "replica2_data"}
NoVol   == "no volume"

Absent == [up |-> FALSE, vol |-> "no container"]

Exists == {n \in Name : cont[n] # Absent}

\* The network alias a container is started with.
Alias(n) == CASE n = Primary     -> "sqld-primary"
              [] n = "replica-1" -> "sqld-replica"
              [] n \in {"replica-2-1", "replica-2"} -> "sqld-replica-2"

\* resolveHost cuts the last dash and what follows, an instance number or not.
ResolveHost(n) == CASE n = Primary       -> "sqld-primary"
                    [] n = "replica-2-1" -> "sqld-replica-2"
                    [] n \in {"replica-1", "replica-2"} -> "sqld-replica"

Answers(n) == \E m \in Name : cont[m].up /\ Alias(m) = ResolveHost(n)

\* Where a container keeps its data: its volume, or a layer gone with it.
Store(n) == IF cont[n].vol = NoVol THEN n ELSE cont[n].vol

TypeOK ==
  /\ cont \in [Name -> {Absent} \cup [up : BOOLEAN, vol : Volume \cup {NoVol}]]
  /\ data \in [Volume \cup Name -> 0 .. MaxWrites + 1]
  /\ saved \in Nat /\ epoch \in Nat
  /\ left \in 0 .. Budget /\ ignored \subseteq {"stop", "load"}
  /\ nodes \subseteq Name /\ healthy \subseteq nodes
  /\ fails \in [Name -> 0 .. Threshold]
  /\ pc \in {"off", "check", "failover", "stop", "create", "wait", "replicas", "save", "rejoin"}
  /\ vol \in Volume \cup {NoVol}
  /\ others \subseteq Replica \X (Volume \cup {NoVol})
  /\ idx \in 1 .. 3 /\ held \in 0 .. MaxWrites + 1

\* init.sh has started the three databases, loaded the schema, and starts the controller.
Init ==
  /\ cont = [n \in Name |-> CASE n = Primary       -> [up |-> TRUE, vol |-> "primary_data"]
                              [] n = "replica-1"   -> [up |-> TRUE, vol |-> "replica_data"]
                              [] n = "replica-2-1" -> [up |-> TRUE, vol |-> "replica2_data"]
                              [] n = "replica-2"   -> Absent]
  /\ data = [s \in Volume \cup Name |-> IF s \in Volume THEN 1 ELSE 0]
  /\ saved = 0 /\ left = Budget /\ ignored = {}
  /\ epoch = 0 /\ nodes = {} /\ healthy = {}
  /\ fails = [n \in Name |-> 0]
  /\ pc = "off"
  /\ vol = NoVol /\ others = {} /\ idx = 1 /\ held = 0

\* An event of this kind happens.
Happens(kind) == /\ kind \in Events /\ left > 0 /\ left' = left - 1
                 /\ ignored' = ignored \cup ({kind} \cap {"stop", "load"})

NothingHappens == UNCHANGED <<left, ignored>>

-------------------------------------------------------------------------------
(* The databases                                                           *)

\* `docker run -d --name n`, which fails when the name is taken: an image
\* started without a volume starts on an empty layer.
DockerRun(n, v) ==
  /\ n \notin Exists
  /\ cont' = [cont EXCEPT ![n] = [up |-> TRUE, vol |-> v]]
  /\ data' = IF v = NoVol THEN [data EXCEPT ![n] = 0] ELSE data

DockerRunFails(n) == /\ (n \in Exists /\ NothingHappens) \/ Happens("run")
                     /\ UNCHANGED docker

Write == /\ cont[Primary].up /\ data[Store(Primary)] <= MaxWrites
         /\ data' = [data EXCEPT ![Store(Primary)] = @ + 1]
         /\ UNCHANGED <<cont, saved, left, ignored, memory, pc>>

\* A replica catches up with the primary over gRPC.
Sync(n) == /\ n \in Replica /\ cont[n].up /\ cont[Primary].up
           /\ data' = [data EXCEPT ![Store(n)] = data[Store(Primary)]]
           /\ UNCHANGED <<cont, saved, left, ignored, memory, pc>>

\* `docker kill`: the container stays, and its restart policy does not apply.
Kill(n) == /\ cont[n].up /\ Happens("kill")
           /\ cont' = [cont EXCEPT ![n].up = FALSE]
           /\ UNCHANGED <<data, saved, memory, pc>>

-------------------------------------------------------------------------------
(* The controller starts, and checks every node it watches                 *)

Crash == /\ pc # "off" /\ Happens("crash")
         /\ pc' = "off"
         /\ UNCHANGED <<docker, saved, memory>>

\* A missing leader key is written anew with epoch 1 when there is a primary.
StartWith(loaded, found) ==
  LET claims == loaded = 0 /\ Primary \in found
  IN  /\ epoch' = IF claims THEN 1 ELSE loaded
      /\ saved' = IF claims THEN 1 ELSE saved
      /\ nodes' = found

\* Variant: the controller claims the leadership whenever it starts.
StartAnew(loaded, found) == epoch' = 1 /\ saved' = 1 /\ nodes' = found

\* loadLeader, discoverNodes, and the first leader.
ClaimLeader(loaded, found) == StartWith(loaded, found)

\* main, which ignores every error: an unreadable leader key is taken for a
\* missing one, a failing `docker ps -a` finds no node, a failing put no leader.
Start ==
  /\ pc = "off"
  /\ \/ ClaimLeader(saved, Exists) /\ NothingHappens
     \/ ClaimLeader(0, Exists) /\ Happens("load")
     \/ ClaimLeader(saved, {}) /\ Happens("list")
     \/ saved = 0 /\ epoch' = 0 /\ nodes' = Exists /\ UNCHANGED saved /\ Happens("save")
  /\ healthy' = {}
  /\ fails' = [n \in Name |-> 0]
  /\ pc' = "check"
  /\ vol' = NoVol /\ others' = {} /\ idx' = 1 /\ held' = 0
  /\ UNCHANGED docker

\* A check can time out on a node that runs.
HealthCheck ==
  /\ pc = "check"
  /\ \E missed \in SUBSET {n \in nodes : Answers(n)} :
       /\ \/ missed = {} /\ NothingHappens
          \/ Cardinality(missed) = 1 /\ Happens("slow")
       /\ healthy' = {n \in nodes : Answers(n)} \ missed
       /\ fails' = [n \in Name |-> IF n \notin nodes THEN fails[n]
                                   ELSE IF n \in healthy' THEN 0
                                   ELSE IF fails[n] < Threshold THEN fails[n] + 1
                                   ELSE Threshold]
  /\ pc' = "failover"
  /\ UNCHANGED <<docker, saved, epoch, nodes, vol, others, idx, held>>

-------------------------------------------------------------------------------
(* failover                                                                *)

\* The primary it knows has failed Threshold checks in a row.
PrimaryLost == /\ epoch # 0 /\ Primary \in nodes
               /\ Primary \notin healthy /\ fails[Primary] >= Threshold

\* Of the picked replica docker must tell the image, though it is not used.
NoFailover == /\ pc = "failover"
              /\ \/ /\ \/ ~PrimaryLost \/ healthy \cap Replica = {}
                       \/ ~(healthy \cap Replica \subseteq Exists)
                    /\ NothingHappens
                 \/ PrimaryLost /\ Happens("inspect")
              /\ pc' = "rejoin"
              /\ UNCHANGED <<docker, saved, memory>>

VolumesOf(ms) == {<<m, cont[m].vol>> : m \in ms}

\* findBestReplica picks any healthy replica; the volumes are read from the
\* containers of that name.  An `inspect` of the binds that fails is taken for a
\* container without a volume; one of the image leaves another replica out.
Promote(n) ==
  /\ pc = "failover" /\ PrimaryLost
  /\ n \in healthy \cap Replica \cap Exists
  /\ LET rest == (nodes \cap Replica \cap Exists) \ {n}
     IN  \/ vol' = cont[n].vol /\ others' = VolumesOf(rest) /\ NothingHappens
         \/ vol' = NoVol /\ others' = VolumesOf(rest) /\ Happens("inspect")
         \/ /\ vol' = cont[n].vol /\ Happens("inspect")
            /\ \E m \in rest : \E lost \in {{}, {<<m, NoVol>>}} :
                 others' = VolumesOf(rest \ {m}) \cup lost
  /\ idx' = 1 /\ held' = data[Store(n)]
  /\ pc' = "stop"
  /\ UNCHANGED <<docker, saved, epoch, nodes, healthy, fails>>

\* Variant: the container is stopped and keeps its name.
StopOnly(n) ==
  /\ n \in nodes
  /\ nodes' = nodes \ {n} /\ healthy' = healthy \ {n}
  /\ \/ cont' = [cont EXCEPT ![n].up = FALSE] /\ NothingHappens
     \/ Happens("stop") /\ UNCHANGED cont
  /\ UNCHANGED <<data, saved, epoch, fails, vol, others, idx, held>>

\* stopAndRemove: errors of docker are ignored and the node is forgotten.
StopAndRemove(n) ==
  /\ n \in nodes
  /\ nodes' = nodes \ {n} /\ healthy' = healthy \ {n}
  /\ \/ cont' = [cont EXCEPT ![n] = Absent] /\ NothingHappens
     \/ Happens("stop") /\ UNCHANGED cont
  /\ UNCHANGED <<data, saved, epoch, fails, vol, others, idx, held>>

\* Variant: only the failed primary is stopped before its replacement starts.
StopPrimaryOnly == /\ pc = "stop"
                   /\ \/ StopAndRemove(Primary) /\ UNCHANGED pc
                      \/ /\ Primary \notin nodes /\ pc' = "create"
                         /\ UNCHANGED <<docker, saved, left, ignored, memory>>

\* All of them are, one by one.
StopAll == /\ pc = "stop"
           /\ \/ \E n \in nodes : StopAndRemove(n) /\ UNCHANGED pc
              \/ /\ nodes = {} /\ pc' = "create"
                 /\ UNCHANGED <<docker, saved, left, ignored, memory>>

CreatePrimary ==
  /\ pc = "create"
  /\ \/ DockerRun(Primary, vol) /\ pc' = "wait" /\ NothingHappens
     \/ DockerRunFails(Primary) /\ pc' = "rejoin"
  /\ UNCHANGED <<saved, memory>>

Registered(n) == /\ nodes' = nodes \cup {n}
                 /\ fails' = [fails EXCEPT ![n] = 0]

\* A primary that is not healthy in 30 s is left behind, running or not.
WaitPrimary ==
  /\ pc = "wait"
  /\ \/ /\ Answers(Primary) /\ pc' = "replicas"
        /\ Registered(Primary) /\ healthy' = healthy \cup {Primary}
        /\ NothingHappens
     \/ /\ (~Answers(Primary) /\ NothingHappens) \/ Happens("slow")
        /\ pc' = "rejoin"
        /\ UNCHANGED <<nodes, healthy, fails>>
  /\ UNCHANGED <<docker, saved, epoch, vol, others, idx, held>>

NewReplica(i) == IF i = 1 THEN "replica-1" ELSE "replica-2"

\* Each is recreated over its volume under a new name and waited for; an error
\* goes on to the next.
RecreateReplica ==
  /\ pc = "replicas"
  /\ \E o \in others :
       LET n == NewReplica(idx)
       IN  /\ others' = others \ {o} /\ idx' = idx + 1
           /\ \/ /\ DockerRun(n, o[2]) /\ Registered(n)
                 /\ \/ Answers(n)' /\ healthy' = healthy \cup {n} /\ NothingHappens
                    \/ /\ (~Answers(n)' /\ NothingHappens) \/ Happens("slow")
                       /\ UNCHANGED healthy
              \/ DockerRunFails(n) /\ UNCHANGED <<nodes, healthy, fails>>
  /\ UNCHANGED <<saved, epoch, vol, pc, held>>

ReplicasDone == /\ pc = "replicas" /\ others = {} /\ pc' = "save"
                /\ UNCHANGED <<docker, saved, left, ignored, memory>>

\* A failed put leaves the old epoch in etcd and in memory.
SaveLeader ==
  /\ pc = "save"
  /\ \/ saved' = epoch + 1 /\ epoch' = epoch + 1 /\ NothingHappens
     \/ Happens("save") /\ UNCHANGED <<saved, epoch>>
  /\ pc' = "rejoin"
  /\ UNCHANGED <<docker, nodes, healthy, fails, vol, others, idx, held>>

-------------------------------------------------------------------------------
(* rejoinLostNode                                                          *)

LiveReplicas == healthy \cap Replica

\* The first slot whose name is not a live node.
FreeSlot == IF "replica-1" \notin healthy THEN "replica-1" ELSE "replica-2"

MustRejoin == /\ epoch # 0 /\ Cardinality(LiveReplicas) < Desired
              /\ Primary \in Exists

\* The lost replica is started empty, to copy the primary's data, from the
\* primary's image.
Rejoin ==
  /\ pc = "rejoin" /\ pc' = "check"
  /\ \/ /\ MustRejoin /\ DockerRun(FreeSlot, NoVol) /\ NothingHappens
        /\ Registered(FreeSlot) /\ UNCHANGED healthy
     \/ /\ MustRejoin
        /\ DockerRunFails(FreeSlot) \/ (Happens("inspect") /\ UNCHANGED docker)
        /\ UNCHANGED <<nodes, healthy, fails>>
     \/ /\ ~MustRejoin
        /\ UNCHANGED <<docker, left, ignored, nodes, healthy, fails>>
  /\ UNCHANGED <<saved, epoch, vol, others, idx, held>>

-------------------------------------------------------------------------------

Controller == \/ Start \/ HealthCheck
              \/ NoFailover \/ (\E n \in Name : Promote(n)) \/ StopAll \/ CreatePrimary
              \/ WaitPrimary \/ RecreateReplica \/ ReplicasDone \/ SaveLeader \/ Rejoin

Next == Controller \/ Crash \/ Write \/ \E n \in Name : Sync(n) \/ Kill(n)

Spec == Init /\ [][Next]_vars

\* Docker restarts the controller, whose loop has a ticker of its own.
FairSpec == Spec /\ WF_vars(Controller)

-------------------------------------------------------------------------------
(* Properties                                                              *)

\* No two running databases write one volume: the promoted replica is stopped
\* before a primary is started over its volume, whatever crashes between. (With
\* a docker stop that failed, which stopAndRemove ignores, they may.)
OneWriterPerVolume ==
  \A m, n \in Name : cont[m].up /\ cont[n].up /\ m # n /\ Store(m) = Store(n)
                       => "stop" \in ignored

\* Every node the controller watches has a container, so that a failover can
\* read the volume of whichever replica it picks.
WatchedExist == pc # "off" => nodes \subseteq Exists

\* docs/libsql.md calls the epoch a fence: the one in etcd never falls or skips,
\* unless a restarted controller could not read it and claimed epoch 1.
EpochFences == [][saved' \in {saved, saved + 1} \/ "load" \in ignored']_saved

\* Once nothing more goes wrong, a dead primary that the controller watches is
\* replaced if any replica it watches has an address that answers.
PrimaryReturns ==
  (/\ left = 0 /\ pc = "check" /\ epoch # 0
   /\ Primary \in nodes /\ ~cont[Primary].up
   /\ \E n \in nodes \cap Replica : Answers(n)) ~> cont[Primary].up

\* docs/libsql.md:45: a failover "Promotes the healthiest replica (its volume becomes
\* the new primary)": the new primary holds what its replica held.
PromotionKeepsData ==
  [][pc = "create" /\ pc' = "wait" => (data[Store(Primary)])' >= held]_vars

===============================================================================
