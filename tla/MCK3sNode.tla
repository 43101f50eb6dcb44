------------------------------ MODULE MCK3sNode ------------------------------
(* K3sNode over every machine that up to three commands can make.            *)
EXTENDS K3sNode

MCCfgs ==
  {[DefaultInstall("ip") EXCEPT !.extra = e, !.cis = c, !.merge = g] :
     e \in {{}, {"etcd", "encryption"}}, c \in {{}, {"audit", "netpol"}}, g \in BOOLEAN}

\* What a step leaves: a first set-up, and then anything.
MCInstalls(s) ==
  {[m |-> i.m, desk |-> i.desk] : i \in {InstallK3s(s.m, s.desk, c, l, a) : c \in MCCfgs, l \in Luck, a \in BOOLEAN}}
MCCommands(s) ==
  {[m |-> i.m, desk |-> i.desk] : i \in {Cluster(s.m, s.desk, "ip", o, l) : o \in ClusterOp, l \in Luck}}
  \cup {[s EXCEPT !.m = j.m] : j \in {JoinK3s(s.m, TRUE, "stable", Absent, l) : l \in Luck}}
  \cup {[s EXCEPT !.m = UninstallK3s(@)], [s EXCEPT !.m = RemoveK3s(@)]}

MCBare == {[m |-> BareMachine(r, d), desk |-> BareDesk] : r \in BOOLEAN, d \in BOOLEAN}
MCOne  == MCBare \cup UNION {MCInstalls(s) \cup MCCommands(s) : s \in MCBare}
MCTwo  == MCOne \cup UNION {MCCommands(s) : s \in MCOne}
MCMachines == MCTwo \cup UNION {MCCommands(s) : s \in MCTwo}

MCAfter(s, op, l) == Cluster(s.m, s.desk, "ip", op, l)

\* Only a command through k3sExec, an upgrade, and a set-up put a server on a machine
\* that has none; `cluster get` of a bare machine is one of them, and takes the
\* operator's ./kubeconfig with it.
ServersByCommand ==
  /\ \A s \in MCMachines, op \in ClusterOp, l \in Luck :
       "server" \in MCAfter(s, op, l).m.roles \ s.m.roles =>
         \/ op = "upgrade"
         \/ op \in ThroughK3sExec /\ s.m.version = Absent /\ (MCAfter(s, op, l).ok => MCAfter(s, op, l).desk.local = "ip")
  /\ \E s \in MCMachines, l \in Luck : MCAfter(s, "get", l).m.roles = {"server"} /\ s.m.roles = {}
ASSUME ServersByCommand

\* The flags a server was installed with survive every command but the upgrade, which
\* drops them and follows the stable channel.
FlagsSurvive ==
  \A s \in MCMachines, op \in ClusterOp, l \in Luck :
    "server" \in s.m.roles =>
      \/ MCAfter(s, op, l).m.flags = s.m.flags /\ MCAfter(s, op, l).m.version = s.m.version
      \/ op = "upgrade" /\ MCAfter(s, op, l).m.flags = {} /\ MCAfter(s, op, l).m.version = "stable"
ASSUME FlagsSurvive

\* A restore answers OK whatever it did, and changes the data only to a snapshot's;
\* a snapshot answers OK whether it was taken or not.
RestoreAnswers ==
  \A s \in MCMachines, l \in Luck :
    LET r == MCAfter(s, "restore", l)  t == MCAfter(s, "snapshot", l)
    IN /\ r.ok /\ t.ok
       /\ r.m.data \in {s.m.data} \cup {x[2] : x \in s.m.snaps}
       /\ t.m.snaps # s.m.snaps => "etcd" \in s.m.flags /\ s.m.up
ASSUME RestoreAnswers

\* An installation that reports success has a server, but not always the one it asked
\* for: with no script to pipe, a server that was there answers for it.
InstallAnswers ==
  \A s \in MCTwo, c \in MCCfgs, l \in Luck, a \in BOOLEAN :
    LET i == InstallK3s(s.m, s.desk, c, l, a)
    IN /\ i.ok => "server" \in i.m.roles /\ (i.m.flags = ServerFlags(c) \/ l.fetched = "none")
       /\ i.ok /\ ~i.m.up => "audit" \in c.cis
       /\ ~i.ok => i.desk = s.desk
       /\ i.ok /\ c.merge => Len(i.desk.merged) = Len(s.desk.merged) + 1
ASSUME InstallAnswers

\* A join that reports success may have joined nothing: only when the script did not
\* come.  One without a token changes nothing.
JoinAnswers ==
  \A s \in MCTwo, l \in Luck, g, r \in BOOLEAN :
    LET j == JoinK3s(s.m, JoinToken(g, r, s.m.root, s.m), "stable", Absent, l)
    IN /\ j.ok /\ "agent" \notin j.m.roles => l.fetched = "none"
       /\ ~j.ok => j.m = s.m
       /\ s.m.roles # {} /\ j.ok => j.m.flags = s.m.flags
ASSUME JoinAnswers

\* After an uninstall nothing of k3s is left on a machine that had a unit; after
\* `infra remove` its unit, its binary and its data are.
Removals ==
  \A s \in MCMachines :
    LET u == UninstallK3s(s.m)  r == RemoveK3s(s.m)
    IN /\ s.m.roles # {} => ~CheckK3s(u).k3s /\ ~CheckK3s(u).token
       /\ ~CheckK3s(r).ready /\ CheckK3s(r).token = CheckK3s(s.m).token /\ r.data = s.m.data
ASSUME Removals

\* The provision's helm is the pinned one whatever was there; the commands' is the
\* newest only where there was none.
HelmPinned ==
  \A s \in MCMachines, l \in Luck, known \in BOOLEAN :
    /\ EnsureHelm(s.m, "pinned", known, l).ok => EnsureHelm(s.m, "pinned", known, l).m.helm = "pinned"
    /\ s.m.helm # Absent => MCAfter(s, "helm", l).m.helm = s.m.helm
ASSUME HelmPinned
==============================================================================
