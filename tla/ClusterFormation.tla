--------------------------- MODULE ClusterFormation ---------------------------
(***************************************************************************)
(* What a fleet that is to be one k3s cluster is promised: one host founds *)
(* the cluster while there is none, every other joins a host that is the   *)
(* server of the cluster it is in, and no host leaves or changes it.       *)
(***************************************************************************)
CONSTANTS Host, NoHost
VARIABLE cluster  \* per host: the server whose cluster it is in, or NoHost

Apart == [h \in Host |-> NoHost]

Init == cluster = Apart

Found(h) == cluster = Apart /\ cluster' = [cluster EXCEPT ![h] = h]

Join(h, g) == /\ cluster[g] = g /\ cluster[h] = NoHost
              /\ cluster' = [cluster EXCEPT ![h] = g]

Next == \E h \in Host : Found(h) \/ \E g \in Host : Join(h, g)

Spec == Init /\ [][Next]_cluster
===============================================================================
