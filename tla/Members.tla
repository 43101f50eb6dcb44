-------------------------------- MODULE Members --------------------------------
(***************************************************************************)
(* The operator's list of nodes at work: which machine a command dials and *)
(* as whom, what joining, adopting and removing write into the list, and   *)
(* what ready, status and exec conclude from the answers of the machines.  *)
(* The list is a sequence of records and every operator is pure.           *)
(* Source: src/cmd/sdk-ops/cluster.go, infra.go, node.go, status.go,       *)
(* key.go, uninstall.go.                                                   *)
(***************************************************************************)
EXTENDS Naturals, FiniteSets, Sequences, SequencesExt

CONSTANT Unset      \* an option or a field left empty, and nobody

K3sModes == {"k3s", "k3s-ha"}
Mode == K3sModes \cup {"docker", "bare", Unset}

Registered(ip, user, key, port, mode, role) ==
  [ip |-> ip, user |-> user, key |-> key, port |-> port, mode |-> mode, role |-> role]

Where(nodes, ip) == {i \in 1 .. Len(nodes) : nodes[i].ip = ip}
First(S) == CHOOSE i \in S : \A j \in S : i <= j

\* lookupNode
LookupNode(nodes, ip) == IF Where(nodes, ip) = {} THEN Unset ELSE nodes[First(Where(nodes, ip))]

Dial(ip, user, key, port) ==
  [ip |-> ip, user |-> IF user = Unset THEN "root" ELSE user, key |-> key, port |-> IF port = 0 THEN 22 ELSE port]

----------------------------------------------------------------------------
(* Which machine, as whom.  The options' defaults are root and 22, so they   *)
(* are empty only if the operator says so.                                   *)

\* getClusterFlags: the first k3s node, whatever its role, or the first node at all.
ClusterTarget(nodes, opt) ==
  LET k == {i \in 1 .. Len(nodes) : nodes[i].mode \in K3sModes}
      n == IF k # {} THEN nodes[First(k)] ELSE nodes[1]
  IN IF opt.ip # Unset THEN Dial(opt.ip, opt.user, opt.key, opt.port)
     ELSE IF nodes = <<>> THEN Unset
     ELSE Dial(n.ip, n.user, n.key, n.port)

\* nodeFlagsWithConfig: the list fills in what is empty, and a key that is no longer
\* there is dropped.
NodeTarget(nodes, opt, keys) ==
  LET n == LookupNode(nodes, opt.ip)
      Or(mine, theirs, none) == IF mine # none \/ n = Unset THEN mine ELSE theirs
      key == Or(opt.key, n.key, Unset)
  IN Dial(opt.ip, Or(opt.user, n.user, Unset), IF key \in keys THEN key ELSE Unset, Or(opt.port, n.port, 0))

\* collectStatusNodes: one node by the options, or each as it is registered.
StatusTargets(nodes, opt) ==
  LET n == LookupNode(nodes, opt.ip)
      Or(mine, theirs, none) == IF mine # none \/ n = Unset THEN mine ELSE theirs
  IN IF opt.ip # Unset
     THEN <<Dial(opt.ip, Or(opt.user, n.user, Unset), Or(opt.key, n.key, Unset), Or(opt.port, n.port, 0))>>
     ELSE [i \in 1 .. Len(nodes) |-> Dial(nodes[i].ip, nodes[i].user, nodes[i].key, nodes[i].port)]

\* firewalledNode: without --node, the first one registered.
FirewalledNode(nodes, ip) ==
  IF ip # Unset THEN ip ELSE IF nodes = <<>> THEN Unset ELSE nodes[1].ip

\* filterExecNodes
ExecNodes(nodes, all, servers, agents) ==
  SelectSeq(nodes, LAMBDA n : \/ all
                              \/ servers /\ agents
                              \/ servers /\ n.role = "server"
                              \/ agents /\ n.role = "agent")

\* execOnNodes: errors are printed, and the command succeeds if any node matched.
ExecRun(nodes, all, servers, agents, failing) ==
  LET S == ExecNodes(nodes, all, servers, agents)
  IN [ok |-> S # <<>>, ran |-> {S[i].ip : i \in 1 .. Len(S)} \ failing]

----------------------------------------------------------------------------
(* What is written into the list                                             *)

\* The end of runInfraJoin: of an entry that is there only the role changes, and a
\* new one has the mode of the option, k3s by default.
JoinRegister(nodes, ip, opt) ==
  LET W == Where(nodes, ip)
  IN IF W # {} THEN [nodes EXCEPT ![First(W)].role = "agent"]
     ELSE Append(nodes, Registered(ip, opt.user, opt.key, opt.port, opt.mode, "agent"))

\* runInfraJoin up to the join: the server is dialled at the agent's port, and need
\* not answer if the token is given.
JoinReached(agentUp, serverUp, token) == agentUp /\ (serverUp \/ token)

\* resolveAdoptMode
AdoptMode(found, asked) ==
  IF asked # Unset THEN asked
  ELSE IF "k3s" \in found THEN "k3s" ELSE IF "docker" \in found THEN "docker" ELSE "bare"

\* registerAdoptedNode: an entry keeps its role, port and key; a new one is a server.
AdoptRegister(nodes, ip, opt, mode) ==
  LET W == Where(nodes, ip)  i == First(W)
  IN IF W # {} THEN [nodes EXCEPT ![i].mode = mode, ![i].user = IF @ = Unset THEN opt.user ELSE @]
     ELSE Append(nodes, Registered(ip, opt.user, opt.key, opt.port, mode, "server"))

\* runInfraAdopt: any answer but a no is a yes, and only docker's services are recorded.
Adopt(nodes, ip, opt, found, asked, forced, answer, services) ==
  IF ~forced /\ answer \in {"n", "N", "no"} THEN [nodes |-> nodes, recorded |-> {}]
  ELSE [nodes |-> AdoptRegister(nodes, ip, opt, AdoptMode(found, asked)),
        recorded |-> IF "docker" \in found THEN services ELSE {}]

\* runInfraRemove: away from a terminal it is skipped and succeeds; only a yes goes on.
\* What root may remove goes; the list is not touched.
InfraRemove(nodes, parts, root, terminal, answer) ==
  IF ~terminal \/ answer \notin {"y", "Y", "yes"} THEN [nodes |-> nodes, parts |-> parts]
  ELSE [nodes |-> nodes, parts |-> IF root THEN parts \ {"docker", "/opt/sdk-ops", "sudoers"} ELSE parts]

\* uninstallComponent: the scripts go on after what fails; `all` takes each in turn.
Uninstallable == {"docker", "traefik", "allowlist", "swap", "fail2ban", "node-exporter", "k3s", "security"}
UninstallOrder == <<"security", "allowlist", "traefik", "swap", "node-exporter", "fail2ban", "docker", "k3s">>
\* Only a session that breaks ends it, and with it those after.
UninstallParts(parts, what, broken) ==
  LET each == IF what = "all" THEN UninstallOrder ELSE <<what>>
      cut == {i \in 1 .. Len(each) : each[i] \in broken \/ each[i] \notin Uninstallable}
      done == IF cut = {} THEN Range(each) ELSE {each[i] : i \in 1 .. First(cut) - 1}
  IN [ok |-> cut = {}, parts |-> parts \ done]

----------------------------------------------------------------------------
(* What the answers mean                                                     *)

\* runInfraReady: every node exactly Ready; pods only warn.
Ready(checked, statuses) == checked /\ statuses # <<>> /\ \A i \in 1 .. Len(statuses) : statuses[i] = "Ready"

\* statusFetchOne: the agent is healthy if anything answers at its port, even nothing.
AgentSays(answer, swarm) ==
  IF answer # "unreachable" THEN "healthy" ELSE IF swarm = "OK" THEN "healthy (agt)" ELSE "offline"

\* statusClassifyNode on the loads of the processor, the memory and the disk; a node
\* that cannot be asked is critical.
Class(r) ==
  LET at(n) == \E p \in r.loads : p >= n
  IN CASE r.err \/ r.agent = "offline" \/ at(90) -> "critical"
       [] ~r.err /\ r.agent # "offline" /\ ~at(90) /\ at(70) -> "warning"
       [] OTHER -> "healthy"

\* statusRenderSummary: one critical node makes the command fail.
StatusFails(results) == \E i \in 1 .. Len(results) : Class(results[i]) = "critical"

----------------------------------------------------------------------------
(* Keys on the operator's computer                                           *)

\* newKeyGenerateCmd: never over a key that is there.
KeyGenerate(keys, name, valid) ==
  IF name \in keys \/ ~valid THEN [ok |-> FALSE, keys |-> keys] ELSE [ok |-> TRUE, keys |-> keys \cup {name}]

\* newKeyDeployCmd: appended, once more each time.
KeyDeploy(authorized, keys, name, reached) ==
  IF name \in keys /\ reached THEN [ok |-> TRUE, authorized |-> Append(authorized, name)]
  ELSE [ok |-> FALSE, authorized |-> authorized]
==============================================================================
