------------------------------- MODULE NatsMesh -------------------------------
(***************************************************************************)
(* The NATS cluster a fleet file describes: the routes each node is        *)
(* configured with, the addresses in them, and where the replicas are      *)
(* placed.  Gossip finds the other nodes from these routes.                *)
(* Source: src/cmd/sdk-ops/services.go, provision.go.                      *)
(***************************************************************************)
EXTENDS Integers, Sequences

\* A mesh: the hosts that declare a variant of nats, in the order of the file, the
\* kind of peer_ip each has, how many routes a node is given, and the replicas.
Mesh(H) == {m \in [order : Seq(H), peerIP : [H -> {"none", "private", "global"}],
                   seeds : Int, replicas : Nat] :
              \A i, j \in DOMAIN m.order : m.order[i] = m.order[j] => i = j}

NatsNodes(m) == {m.order[i] : i \in DOMAIN m.order}

IndexOf(m, h) == CHOOSE i \in DOMAIN m.order : m.order[i] = h

\* natsSeedRoutes: the first so many peers of the file, three by default.
Routes(m, h) ==
  LET seeds   == IF m.seeds <= 0 THEN 3 ELSE m.seeds
      rank(i) == IF i < IndexOf(m, h) THEN i ELSE i - 1
  IN {m.order[i] : i \in {i \in DOMAIN m.order : m.order[i] # h /\ rank(i) <= seeds}}

\* peerRouteIP: private to private and global to global go by peer_ip.
RouteAddress(m, a, b) ==
  IF m.peerIP[a] # "none" /\ m.peerIP[a] = m.peerIP[b] THEN m.peerIP[b] ELSE "host"

\* meshAdvertise.
Advertised(m, h) ==
  IF \A g \in NatsNodes(m) \cup {h} : m.peerIP[g] = "private" THEN "private" ELSE "host"

\* natsTopology: several containers on the one host there is.
SingleVPS(m) == m.replicas > 1 /\ Len(m.order) = 1
Replicas(m)  == IF m.replicas = 0 THEN Len(m.order) ELSE m.replicas

\* validateServiceReplicas: one host holds up to nine.
ValidReplicas(m) == m.replicas > 1 =>
  m.replicas <= IF Len(m.order) = 1 THEN 9 ELSE IF Len(m.order) > 1 THEN Len(m.order) ELSE m.replicas

-------------------------------------------------------------------------------

\* Whatever the number of seeds, the routes hold the nodes together: no part of
\* them is without a route to or from the rest.
Connected(m) ==
  \A S \in SUBSET NatsNodes(m) : S # {} /\ S # NatsNodes(m) =>
    \E a \in S, b \in NatsNodes(m) \ S : b \in Routes(m, a) \/ a \in Routes(m, b)

\* A node that advertises its private address is on a network that every node
\* with a route to it is on.
AdvertisedReachable(m) ==
  \A a, b \in NatsNodes(m) : Advertised(m, b) = "private" => RouteAddress(m, a, b) = "private"

===============================================================================
