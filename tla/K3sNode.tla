-------------------------------- MODULE K3sNode --------------------------------
(***************************************************************************)
(* k3s on one machine: what installing it, joining it, the `cluster`       *)
(* commands and the two removals leave there, on the operator's computer   *)
(* and in their answer.  Machine and desk are records and every operator   *)
(* is pure; every script is the code's, up to where the code looks at it.  *)
(* Source: src/k3s/*.go, src/cmd/sdk-ops/cluster.go, infra.go.             *)
(***************************************************************************)
EXTENDS Naturals, Sequences

CONSTANT Absent     \* no version, no helm, no kubeconfig

Role  == {"server", "agent"}
Extra == {"no-traefik", "encryption", "kernel", "admission", "ciphers", "etcd"}
Cis   == {"psa", "audit", "netpol", "svcacc"}

\* root: the SSH user; roles: the units there; flags: of the server's unit, audits how
\* often the audit log was added to it; data and snaps: what etcd holds and has saved;
\* policy: the CIS policies in force; discard: the mount option of /.
BareMachine(root, discard) ==
  [root |-> root, discard |-> discard, roles |-> {}, up |-> FALSE, version |-> Absent, flags |-> {},
   audits |-> 0, data |-> "new", snaps |-> {}, policy |-> {}, helm |-> Absent, offloads |-> {}]

\* The operator's computer: ./kubeconfig and the merged one, by the servers they name.
BareDesk == [local |-> Absent, merged |-> <<>>]

\* What may go otherwise: what of the installer's downloads comes, its script and the
\* binary, and whether the API answers in time.
Luck == [fetched : {"none", "script", "all"}, answers : BOOLEAN]

----------------------------------------------------------------------------
(* k3s/install.go and helm.go                                                *)

DefaultInstall(ip) ==
  [ip |-> ip, extra |-> {}, version |-> Absent, channel |-> "stable", merge |-> FALSE, cis |-> {}, skip |-> FALSE]

\* A remount for this boot and fstab for the next; never an error.
DiscardOff(m) == [m EXCEPT !.discard = FALSE]

\* The rule is written for the interface named, or for the platform's; earlier
\* interfaces keep theirs only until the rule file is written again.
OffloadsOff(m, iface) == [m EXCEPT !.offloads = {"flannel.1", IF iface = Absent THEN "ens19" ELSE iface}]

\* get.k3s.io: the unit of a role is written anew from the arguments of this call,
\* the binary is fetched unless told to skip, and the unit is restarted.  `curl | sh`
\* with nothing to pipe is an empty script, which succeeds.
Scripted(m, role, flags, version, skip, luck) ==
  IF luck.fetched = "none" THEN [ok |-> TRUE, m |-> m]
  ELSE IF IF skip THEN m.version = Absent ELSE luck.fetched = "script" THEN [ok |-> FALSE, m |-> m]
  ELSE [ok |-> TRUE,
        m |-> [m EXCEPT !.roles = @ \cup {role}, !.up = luck.answers, !.version = IF skip THEN @ ELSE version,
                        !.flags = IF role = "server" THEN flags ELSE @,
                        !.audits = IF role = "server" THEN 0 ELSE @]]

\* buildExtraArgs: what the options and --k3s-extra-args ask, and the machine's name.
ServerFlags(cfg) == cfg.extra \cup {"tls-san"}

\* buildEnvVars goes through `env`, so the installer sees it.
WantedVersion(cfg) == IF cfg.version # Absent THEN cfg.version ELSE cfg.channel

\* waitForK3s greps for Ready, which NotReady holds too: a listed node is enough.
WaitForK3s(m) == m.up /\ "server" \in m.roles

\* Merging is appending: another document in the same file.
SaveKubeconfig(desk, cfg) ==
  IF cfg.merge THEN [desk EXCEPT !.merged = Append(@, cfg.ip)] ELSE [desk EXCEPT !.local = cfg.ip]

\* sed appends to whatever ExecStart says, and the restart is not waited for.
AuditLog(m, again) == [m EXCEPT !.audits = @ + 1, !.up = again]

\* A failure is a warning: the audit log restarts the API the next two steps ask.
PostInstallCis(m, cfg, again) ==
  LET n == IF "audit" \in cfg.cis THEN AuditLog(m, again) ELSE m
      early == IF m.up THEN {"psa"} ELSE {}
      late  == IF n.up THEN {"netpol", "svcacc"} ELSE {}
  IN [n EXCEPT !.policy = @ \cup (cfg.cis \cap (early \cup late))]

\* Install: the first step that fails ends it, and what is done stays done.
InstallK3s(m, desk, cfg, luck, again) ==
  LET s == Scripted(DiscardOff(m), "server", ServerFlags(cfg), WantedVersion(cfg), cfg.skip, luck)
  IN IF ~s.ok \/ ~WaitForK3s(s.m) THEN [ok |-> FALSE, m |-> s.m, desk |-> desk]
     ELSE [ok |-> TRUE, m |-> PostInstallCis(s.m, cfg, again), desk |-> SaveKubeconfig(desk, cfg)]

\* Join: the token is given, or read without sudo where it is root's.
JoinToken(given, reached, root, server) ==
  IF given THEN TRUE ELSE reached /\ root /\ "server" \in server.roles

JoinK3s(m, token, channel, version, luck) ==
  IF ~token THEN [ok |-> FALSE, m |-> m]
  ELSE Scripted(m, "agent", {}, IF version # Absent THEN version ELSE channel, FALSE, luck)

\* Check, which no answer of the five makes fail.
CheckK3s(m) ==
  [k3s |-> m.version # Absent, service |-> "server" \in m.roles /\ m.up, ready |-> WaitForK3s(m),
   kubeconfig |-> "server" \in m.roles, token |-> "server" \in m.roles]

\* helmEnsureScript: nothing if the version wanted is there; the last line is an echo,
\* so only a download or a machine it does not know fails.
EnsureHelm(m, want, known, luck) ==
  IF m.helm = want THEN [ok |-> TRUE, m |-> m]
  ELSE IF known /\ luck.fetched = "all" THEN [ok |-> TRUE, m |-> [m EXCEPT !.helm = want]]
  ELSE [ok |-> FALSE, m |-> m]

\* runInfraInitAirgap: a k3s that is there is reported and replaced all the same.
Airgap(m, luck) ==
  IF luck.fetched = "all" THEN [ok |-> TRUE, m |-> [m EXCEPT !.version = "latest"]] ELSE [ok |-> FALSE, m |-> m]

----------------------------------------------------------------------------
(* The `cluster` commands on the machine getClusterFlags chose.              *)

\* kubectl with the server's own kubeconfig
Kubectl(m) == m.up /\ "server" \in m.roles

\* k3sExec: every kubectl command that is not attached to the terminal installs k3s
\* where none is found.
ThroughK3sExec == {"top", "logs", "scale", "apply", "delete", "describe", "events", "get", "cordon", "uncordon", "drain"}
K3sExec(m, desk, ip, luck) ==
  IF m.version # Absent THEN [ok |-> Kubectl(m), m |-> m, desk |-> desk]
  ELSE LET i == InstallK3s(m, desk, DefaultInstall(ip), luck, TRUE)
       IN [i EXCEPT !.ok = i.ok /\ Kubectl(i.m)]

\* k3sExecPTY, and port-forward, which has its own.
Attached == {"logs -f", "exec", "port-forward"}

ClusterToken(m) == [ok |-> "server" \in m.roles, m |-> m]

RestartK3s(m, luck) ==
  IF "server" \notin m.roles THEN [ok |-> FALSE, m |-> m]
  ELSE [ok |-> TRUE, m |-> [m EXCEPT !.up = luck.answers]]

\* The version is assigned to curl, the flags are not repeated, and no url is given:
\* whatever the machine was, a server's unit without flags is what it becomes.
UpgradeK3s(m, luck) == Scripted(m, "server", {}, "stable", FALSE, luck)

\* `a && echo OK || echo FAIL`: the command never fails.
EtcdSnapshot(m, name) ==
  [ok |-> TRUE, m |-> IF Kubectl(m) /\ "etcd" \in m.flags THEN [m EXCEPT !.snaps = @ \cup {<<name, m.data>>}] ELSE m]

\* Three commands and an echo: a reset that fails starts the server on what it had.
EtcdRestore(m, snap, luck) ==
  IF "server" \notin m.roles THEN [ok |-> TRUE, m |-> m]
  ELSE [ok |-> TRUE, m |-> [m EXCEPT !.data = IF snap \in m.snaps THEN snap[2] ELSE @, !.up = luck.answers]]

\* Chained by &&: a rotation that fails restarts nothing.
CertRotate(m, rotated, luck) ==
  IF rotated THEN RestartK3s(m, luck) ELSE [ok |-> FALSE, m |-> m]

\* The newest helm if there is none; what helm says is not looked at.
ClusterHelm(m, luck) ==
  [ok |-> TRUE, m |-> IF m.helm = Absent /\ luck.fetched = "all" THEN [m EXCEPT !.helm = "newest"] ELSE m]

\* node-ssh asks the server for the node's address and dials it with the server's user.
NodeSSH(m, known, reached) == [ok |-> Kubectl(m) /\ known /\ reached, m |-> m]

\* A command of the terminal or of the cluster, given what may go otherwise.
Cluster(m, desk, ip, op, luck) ==
  LET done == CASE op = "token"    -> ClusterToken(m)
                [] op = "restart"  -> RestartK3s(m, luck)
                [] op = "upgrade"  -> UpgradeK3s(m, luck)
                [] op = "snapshot" -> EtcdSnapshot(m, "s")
                [] op = "restore"  -> EtcdRestore(m, <<"s", "new">>, luck)
                [] op = "rotate"   -> CertRotate(m, luck.answers, luck)
                [] op = "helm"     -> ClusterHelm(m, luck)
                [] op = "node-ssh" -> NodeSSH(m, TRUE, TRUE)
                [] OTHER           -> [ok |-> Kubectl(m), m |-> m]
  IN IF op \in ThroughK3sExec THEN K3sExec(m, desk, ip, luck)
     ELSE [ok |-> done.ok, m |-> done.m, desk |-> desk]

ClusterOp == ThroughK3sExec \cup Attached
             \cup {"token", "restart", "upgrade", "snapshot", "restore", "rotate", "helm", "node-ssh"}

----------------------------------------------------------------------------
(* Taking k3s off                                                            *)

\* `infra uninstall k3s`: both uninstallers, which came with the units.
UninstallK3s(m) ==
  IF m.roles = {} THEN m ELSE [BareMachine(m.root, m.discard) EXCEPT !.helm = m.helm, !.offloads = m.offloads]

\* `infra remove`: the uninstaller is looked for where the session starts, where it
\* is not; only k3s-killall.sh is found, by its full path.
RemoveK3s(m) == [m EXCEPT !.up = FALSE]
==============================================================================
