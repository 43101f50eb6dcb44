-------------------------------- MODULE MCFleet --------------------------------
(* The two halves of an apply side by side: what it does until the hosts are  *)
(* initialized and joined, and its services phase.  They share no state, so   *)
(* a behaviour is of one of them, and the other's variables stay put.  The    *)
(* checks of the fleet file come with them.                                   *)
EXTENDS MCFleetApply, FleetServices, NatsMesh, MCFleetFile

CONSTANTS n1, n2, v1, v2

VARIABLE half

(* Fleet files of the services: an etcd and postgres on both hosts with nats  *)
(* on the first, another version that recreates postgres, a release in the    *)
(* k3s cluster declared by the one or the other host, with libsql on a host   *)
(* whose ports may have nobody to be opened to, and a template that cannot be *)
(* deployed.                                                                  *)
MCNode    == {n1, n2}
MCService == {"etcd", "pgsql-cluster", "nats", "nats-cluster", "libsql", "yuga-cluster"}

MCPlan(first, second) ==
  [order |-> <<n1, n2>>, recreate |-> FALSE, admits |-> MCNode,
   wants |-> [h \in MCNode |-> [n \in MCService |->
                LET want == IF h = n1 THEN first ELSE second
                IN IF n \in DOMAIN want THEN want[n] ELSE Absent]]]

MCPair(v) == [n \in {"etcd", "pgsql-cluster"} |-> v]

MCPlans ==
  {MCPlan(MCPair(v1) @@ "nats" :> v1, MCPair(v1)),
   [MCPlan(MCPair(v2) @@ "nats" :> v2, MCPair(v1)) EXCEPT !.recreate = TRUE],
   MCPlan("nats-cluster" :> v1, "libsql" :> v1),
   [MCPlan(<<>>, [n \in {"nats-cluster", "libsql"} |-> v1]) EXCEPT !.admits = {n1}],
   MCPlan("yuga-cluster" :> v1, <<>>)}

(* Meshes of up to four nodes. *)
MCMeshes == UNION {{m \in [order : {SubSeq(<<1, 2, 3, 4>>, 1, n)},
                           peerIP : [1 .. n -> {"none", "private", "global"}],
                           seeds : 0 .. 3, replicas : 0 .. 4] : ValidReplicas(m)} : n \in 0 .. 4}

ASSUME MeshesHold == \A m \in MCMeshes : Connected(m) /\ AdvertisedReachable(m)

MCInit ==
  /\ half \in {"init", "services"}
  /\ Init /\ ServicesInit
  /\ half = "init" => plan = CHOOSE p \in MCPlans : TRUE
  /\ half = "services" => fleet = MCAgents /\ marker = [h \in MCHost |-> "none"]

MCNext == \/ half = "init" /\ Next /\ UNCHANGED <<svcVars, half>>
          \/ half = "services" /\ ServicesNext /\ UNCHANGED <<vars, half>>

MCSpec == /\ MCInit /\ [][MCNext]_<<vars, svcVars, half>>
          /\ WF_vars(Apply) /\ WF_vars(Cluster)
===============================================================================
