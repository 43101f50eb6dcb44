------------------------------ MODULE MCMembers ------------------------------
(* Members over every list of up to three nodes that joining, adopting and   *)
(* registering can write.                                                    *)
EXTENDS Members

MCIps == {"s", "a"}
MCHand == [ip : MCIps, user : {"root", "sdkops"}, key : {Unset}, port : {22, 2222}, mode : {"k3s", "docker"},
           role : {"server", "agent"}]
MCLists == {l \in UNION {[1 .. n -> MCHand] : n \in 0 .. 2} : \A i, j \in DOMAIN l : i # j => l[i].ip # l[j].ip}

\* The options as they are when the operator gives none, and when he gives all.
MCDefaults(ip) == [ip |-> ip, user |-> "root", key |-> Unset, port |-> 22, mode |-> "k3s"]
MCOptions(ip)  == {MCDefaults(ip), [MCDefaults(ip) EXCEPT !.user = Unset, !.port = 0],
                   [MCDefaults(ip) EXCEPT !.user = "sdkops", !.port = 2222]}

\* A node that is named is dialled as registered only if the operator empties the
\* options: their defaults win over a user or a port that hardening moved.
DefaultsWin ==
  \A l \in MCLists, ip \in MCIps :
    LET n == LookupNode(l, ip)  emptied == [MCDefaults(ip) EXCEPT !.user = Unset, !.port = 0]
    IN n # Unset =>
       /\ NodeTarget(l, emptied, {}) = Dial(ip, n.user, Unset, n.port)
       /\ LET d == NodeTarget(l, MCDefaults(ip), {}) IN d.user = "root" /\ d.port = 22
       /\ StatusTargets(l, MCDefaults(ip))[1].port = 22
       /\ \E i \in 1 .. Len(l) : StatusTargets(l, [MCDefaults(ip) EXCEPT !.ip = Unset])[i] = Dial(ip, n.user, n.key, n.port)
ASSUME DefaultsWin

\* A cluster command that names no node dials one that is registered, a k3s one if any
\* is; but nothing keeps it from an agent when a server is there too.
TargetRegistered ==
  /\ \A l \in MCLists :
       LET t == ClusterTarget(l, MCDefaults(Unset))
       IN /\ l = <<>> <=> t = Unset
          /\ l # <<>> => LookupNode(l, t.ip) # Unset /\ t.port = LookupNode(l, t.ip).port
          /\ (\E i \in DOMAIN l : l[i].mode = "k3s") => LookupNode(l, t.ip).mode = "k3s"
  /\ \E l \in MCLists :
       /\ \E i \in DOMAIN l : l[i].mode = "k3s" /\ l[i].role = "server"
       /\ LookupNode(l, ClusterTarget(l, MCDefaults(Unset)).ip).role = "agent"
ASSUME TargetRegistered

\* Joining and adopting add at most one entry, never a second for an address, and
\* leave the others; adopting an agent keeps it one, joining a server makes it one.
OneEntryEach ==
  \A l \in MCLists, ip \in MCIps, found \in SUBSET {"k3s", "docker"} : \A opt \in MCOptions(ip) :
    LET j == JoinRegister(l, ip, opt)
        a == Adopt(l, ip, opt, found, Unset, FALSE, "", {"app"})
    IN \A new \in {j, a.nodes} :
         /\ Len(new) <= Len(l) + 1 /\ Cardinality(Where(new, ip)) = 1
         /\ \A i \in DOMAIN l : l[i].ip # ip => new[i] = l[i]
         /\ LookupNode(j, ip).role = "agent"
         /\ LookupNode(l, ip) # Unset => LookupNode(a.nodes, ip).role = LookupNode(l, ip).role
         /\ a.recorded # {} <=> "docker" \in found
         /\ LookupNode(a.nodes, ip).mode = AdoptMode(found, Unset)
ASSUME OneEntryEach

\* exec on the servers and on the agents together is exec on all; apart they share no
\* node, and whatever fails on a node, the command succeeds.
ExecParts ==
  \A l \in MCLists, failing \in SUBSET MCIps :
    LET R(all, s, a) == ExecRun(l, all, s, a, failing)
    IN /\ R(FALSE, TRUE, TRUE) = R(TRUE, FALSE, FALSE)
       /\ R(FALSE, TRUE, FALSE).ran \cap R(FALSE, FALSE, TRUE).ran = {}
       /\ R(TRUE, FALSE, FALSE).ran = R(FALSE, TRUE, FALSE).ran \cup R(FALSE, FALSE, TRUE).ran
       /\ R(TRUE, FALSE, FALSE).ok <=> l # <<>>
ASSUME ExecParts

\* Removing never touches the list, and never the swap, the firewall or Traefik, which
\* only uninstalling takes; uninstalling all takes all or stops at the first that broke.
RemovalsDiffer ==
  \A parts \in {Uninstallable, {"docker", "/opt/sdk-ops", "sudoers", "swap"}}, root, terminal \in BOOLEAN,
     answer \in {"", "y", "n"}, broken \in {{}, {"swap"}, {"docker"}} :
    LET r == InfraRemove(<<>>, parts, root, terminal, answer)  u == UninstallParts(parts, "all", broken)
    IN /\ r.parts # parts => root /\ terminal /\ answer = "y"
       /\ parts \ r.parts \subseteq {"docker", "/opt/sdk-ops", "sudoers"}
       /\ u.ok <=> broken = {}
       /\ u.ok => u.parts \cap Uninstallable = {}
       /\ broken = {"swap"} => u.parts \cap {"security", "allowlist", "traefik"} = {} /\ ("docker" \in parts => "docker" \in u.parts)
ASSUME RemovalsDiffer

\* A cluster is ready when every node says exactly so: one that is cordoned is not.
ReadyExact ==
  /\ \A n \in 0 .. 2 : \A s \in [1 .. n -> {"Ready", "NotReady", "Ready,SchedulingDisabled"}] :
       Ready(TRUE, s) <=> n > 0 /\ {s[i] : i \in 1 .. n} = {"Ready"}
  /\ ~Ready(FALSE, <<"Ready">>)
ASSUME ReadyExact

\* Status fails as soon as one node is not asked, is loaded, or has no agent; an agent
\* that answers nothing passes for healthy.
StatusStrict ==
  /\ \A a \in {"unreachable", "", "ok"}, s \in {"OK", "unreachable"}, p \in {0, 69, 70, 89, 90}, e \in BOOLEAN :
       LET r == [err |-> e, agent |-> AgentSays(a, s), loads |-> {p}]
       IN /\ StatusFails(<<r>>) <=> e \/ p >= 90 \/ (a = "unreachable" /\ s # "OK")
          /\ Class(r) = "healthy" => p < 70
  /\ AgentSays("", "unreachable") = "healthy"
ASSUME StatusStrict

\* A key is never written over, and deploying it twice authorizes it twice.
KeysKept ==
  \A keys \in SUBSET {"k", "l"}, name \in {"k", "l"}, valid, reached \in BOOLEAN :
    LET g == KeyGenerate(keys, name, valid)  d == KeyDeploy(<<name>>, keys, name, reached)
    IN /\ keys \subseteq g.keys /\ (g.ok <=> g.keys # keys)
       /\ d.ok => d.authorized = <<name, name>>
ASSUME KeysKept
==============================================================================
