# A verification project for sdk-ops

sdk-ops is a Go command line (and SDK) that provisions servers, hardens them,
runs services on them and keeps them alive. It has no daemon of its own: the
operator's process sends shell scripts over SSH, and what stays behind on a node
is a set of files, systemd timers and containers. Its hard parts are therefore
those of unattended scripts that share files: a script that fails in the middle,
a command that dies between two SSH calls, a timer that fires between two
commands, two operators, a reboot. One template (libsql) ships a program of its
own, a failover controller, with the usual problems of such a program.

The project holds TLA+ modules translated from the source, TLC runs on small
instances, and TLAPS proofs for all instances. PROJECT.json maps every definition
to the lines it models, lists the runs, the mutants (one plausible bug per
property that TLC must catch), the hazards and the findings.

Contents: 1 inventory, 2 how the parts interact, 3 modules, 4 runs and bounds,
5 fairness, 6 proofs, 7 findings, 8 other observations, 9 what is not modelled,
10 plan.

## 1. Inventory

For each component: its state, its operations, what is hard, and what makes it
correct. The components marked (M) are modelled at least in part.

**Allowlist firewall (M)** `hardening/allowlist*.go`, `peer.go`, `steps.go`.
State on a node: the live nftables table (input rules, allow and admin sets per
address family, the exposed chain, peer rules), `/etc/nftables.conf` loaded at
boot, `nftables.conf.bak`, `admin4/6.elements`, the registry `ports.yaml`, the
state file, `rollback.nft`, a commit marker in /tmp and a transient 30-second
systemd timer. Operations: install and verify and commit, rollback, remove,
refresh (daily or by command), admin add and remove, expose and unexpose, peer
exposure, re-hardening. Hard: the scripts ignore many errors, five of them edit
the same table, the operator can lock himself out, and a reboot reloads a file
that may differ from what was in the kernel. Correct when: a node never keeps a
policy the operator replaced; a lockout always has a rollback pending; a reboot
changes nothing; whoever is out stays out until `admin add`.

**State watchdog (M)** `hardening/state_watch.go`. A five-minute timer compares
the live table with the files, repairs it, looks again and reports. Hard: it
repairs from files that the commands edit without a lock, each `nft add` may fail
silently. Correct when its report is true and its repair neither misses nor
revives anything.

**Service versions and deploy (M)** `deploy/upload.go`, `run.go`,
`cmd/sdk-ops/deploy.go`, and the runtimes. State on a node: a directory per
version under /opt/sdk-ops/services, links `current` and `previous`, the
containers of the service. Operations: push (list the versions, upload, link,
start, check, roll back), rollback, rollback --version, restart. Hard: nothing is locked
between the listing and the upload, the health check may be answered by another
service, every step is an SSH command that may fail. Correct when: what a version
holds never changes, a broken upload is not served, a push that says OK serves its
own release, a failed push leaves the old version in service.

**libsql failover controller (M)**
`templates/libsql-dockerized/controller/main.go.txt`. State: the containers with
their volumes, the leader key in etcd, and in memory the node map with health
counters. Operations per five-second tick: check every node, fail over, rejoin a
lost replica; on start: load the leader, discover the containers, claim the
leadership. Hard: a failover is a dozen docker commands, each fallible, with the
process able to die between any two; names, network aliases and volumes are tied
together by string cutting. Correct when: one writer per volume, the epoch only
grows, a dead primary is replaced, and no committed data is lost by a promotion.

**libsql router** `router/main.go.txt`. Stateless; forwards writes to the name
sqld-primary.

**Hardening steps (M in part), bans, swap, logrotate** `hardening/apply.go`,
`steps.go` and others. Twelve scripts in order, each writes a configuration file;
errors are warnings. Five of them decide together how the operator gets back in: the
account, sshd, the packet filter, fail2ban and the reconnection. Hard: each may fail or
be the last one that ran, and a boot takes what is written by then. Correct when there is
a way in after every prefix.

**Watchdogs and their timers (M)** `cmd/sdk-ops/ops.go`, `hardening/*_watch.go`. State:
per component a script and a timer. Operations: ops apply, enable, disable, remove, and
the same installs from a fleet apply. Hard: `ops apply` stops the units before it installs,
with a call over SSH for each. Correct when an installed watchdog keeps running. Of the
scripts themselves, the security one reports only; Traefik's starts or recreates the
container.

**Certificates and Traefik (M)** `cmd/sdk-ops/certs.go`, `renew.go`,
`deploy/proxy_traefik.go`, `hardening/cert_renew.go`. State: traefik's acme.json and
traefik.yml, the store (chain, certificate, key per domain), the copies in each service. A
timer copies a new certificate into the store and refreshes the services; an import does
the same for the operator's own. Hard: the skip test looks at the first file written only,
and several writers share the copies. Correct when every service ends up with a chain and
a key that belong together, and a renewal reaches it.

**Fleet provisioning (M)** `cmd/sdk-ops/provision.go`, `provider.go`. State: the
fleet file, machines at the provider, what each host has installed and the init marker
that says so. Operations: create the missing machines, provision in parallel waves, open
peers, join k3s, phases, destroy. Hard: nothing is saved during a run, which may end
anywhere, so the next one decides from markers and the node list; hosts of one run
are initialized concurrently, and an init closes what an earlier run opened. Correct
when a fleet is one cluster and stays one, a host is not given another mode
unasked, a healthy member is left alone, success is complete, a re-run converges, and no
host is provisioned on another's machine.

**Fleet file (M)** the same file: layers (global, group, host), validation, selections. Pure.

**Service templates (M)** `cmd/sdk-ops/services*.go`, `templates/`. State on a host: a
directory per service, what runs, timers. Operations of an apply: the fleet's etcd, then
host by host the removal of what is no longer declared, upload, start, wait. Hard: an
apply remembers nothing but the directories, and replaces a file before the service that
reads it. Correct when success means that what is declared runs and nothing else. The
clusters inside are third-party programs.

**Cloud providers (M in part)** `providers/*/vps.go`, `vultr/firewall.go`: create, wait for an
address, list, delete, and the rules of a cloud firewall. The rest, and the Bunny
SDK, map one method to one request.

**k3s (M)** `k3s/*.go`, `cmd/sdk-ops/cluster.go`. Install, join as server or agent,
wait for Ready, CIS settings, helm, upgrade, snapshots; kubectl wrappers.

**Infra commands, nodes, status (M in part)** `cmd/sdk-ops/infra.go`, `node.go`, `status.go`,
`key.go`, `uninstall.go`: init, airgap, join, adopt, remove, ready, exec. Hard: they take whom to
dial from a list that others write and from options that are never empty.

**Operator's files (M)** `cmd/sdk-ops/state.go`, `config.go`. state.yaml and
config.yaml in the operator's home; load, change, save with no lock. Hard:
deploy --all runs its nodes in goroutines that all do this. Correct when no
recorded resource is lost and no torn file is taken for an empty one.

**Databases, rotation and backup schedules (M)** `deploy/database.go`, `rotate.go`,
`backup.go`, `cmd/sdk-ops/db.go`, `backup.go`. Containers created or recreated; a password
rotated; a timer per kind of backup. Hard: the ledger holds the only copy of a password that
was made up. Correct when the ledger says what the database takes. Archives and
restore are not modelled.

**Source directory of a push (M)** `cmd/sdk-ops/deploy.go`, `secrets/secrets.go`,
`deploy/builder*.go`, `compose/compose.go`. service.yaml, perhaps sealed with sops, and the
compose file; opened in place, built, uploaded, sealed again. Hard: pushes share the
directory and may be killed. Correct when what was sealed stays sealed.

**Reverse proxies (M)** `deploy/proxy*.go`, `bluegreen.go`: Caddy, nginx or Traefik on one pair
of ports. Correct when a set that reports success serves the domain.

**Not modelled**: the libsql router (`router/main.go.txt`, stateless, forwards writes to the
name sqld-primary), `firewall ban`, logging, alerting, TLS of `infra cert`, SSH, docker, terraform, monitor,
notify and the SDK facades: conversions, single commands and clients without protocol
state.

## 2. How the parts interact

- Operator's commands, the daily refresh and the watchdog share the table and its
  files and exclude each other nowhere. `Firewall` interleaves all of them.
- An install is a session of SSH calls during which the node keeps doing all of
  that, and a systemd timer rolls it back. `FirewallInstall` extends `Firewall`.
- Two pushes, an operator's rollback and a restart share a service's directory.
  `ServiceDeploy` interleaves them at the granularity of SSH commands.
- The controller, docker, etcd, the clients and the replication share volumes and
  containers. `LibsqlFailover` interleaves them per docker or etcd command.
- A provisioning run calls hardening, docker and k3s on many hosts at once, then
  joins them through the first server, while the cluster lives on.
  `FleetApply` interleaves the goroutines, the clusters and failures, over repeated
  runs. Of the firewall it keeps what the fleet depends on: peer rules and whether
  the allowlist is there, both flushed by hardening.
- The services phase of an apply runs over hosts that earlier applies left in any state,
  and over apps that `deploy` pushed. `FleetServices` interleaves all hosts' turns with
  both.
- Traefik, its watchdog, the certificate worker, imports, an apply and `ops apply` share
  the container, traefik.yml and the copies of certificates. `TraefikCerts` extends
  `OpsTimers`, so that the watchdog works only while its timer does.
- Deploy, database, rotation and sync commands write the operator's two files. `Databases`
  extends `Ledger`: each command acts on the node and then records, in steps that
  interleave with all others.
- Three pushes of one source share its files. `PushSource` interleaves them.
- Components that share no state are checked side by side in one run: a behaviour belongs to
  one of them, chosen at the start (the variables `part` and `half` of the MC modules), and
  leaves the others' variables as they are. MCCreated puts OpsTimers, Access and CloudHosts beside
  Firewall, MCNode puts TraefikCerts beside it, MCServices puts Databases and PushSource beside
  ServiceDeploy, MCFleet puts FleetServices beside FleetApply. MCMachine keeps removals to
  machines without registered ports, and adds the assumptions of K3sNode and Members to an instance
  of FirewallInstall.

## 3. Modules

| module | models | state | actions |
|---|---|---|---|
| NftTable | the table as the scripts see it | none (sets, records, pure operators) | - |
| PortPolicy | abstract: each port has at most one policy | `policy` | Expose, Unexpose |
| Firewall | a node between installs | live table, boot config, elements files, registry with last line per port, state file, units, last report; heals a family only when it lists one admin | each script is one action: DailyRefresh, RefreshAllowlist, Watch, Install/RemoveStateWatch, AllowlistAdminAdd/Remove, AllowlistExposePort/UnexposePort, ExposePeerPortDirect, NftablesFirewall; environment: StateAges, Loss, Reboot |
| FirewallInstall | the verified install on top of Firewall | adds backup, snapshot, rollback timer, marker, and per operator: position, wanted config, lines to re-expose; whether a removal met a backup that nft refuses (`refused`) | one action per command of the script whose failure matters, one per SSH call after it, Rollback, WindowElapses, Crash, RebootNode, RemoveAllowlist with its three outcomes (ClearFirewall, RestoreBackup, KeepConf) and RestoreFails |
| ServiceDeploy | one service on one node | files per version, broken ones, `current`, `previous`, running releases; per push its release, mode, version, position; history variables | List, Extract, Link, Run, Check, AutoRollback, Rerun, Finish, RollbackPrevious, RollbackTo, Restart |
| LibsqlFailover | the controller's loop | containers, data per volume, epoch in etcd; in memory epoch, nodes, healthy, failure counts, position, captured volumes; history: errors of docker stop and of reading the leader key that were ignored; a docker inspect of the volumes may fail | Start, HealthCheck, NoFailover, Promote, StopAll, CreatePrimary, WaitPrimary, RecreateReplica, ReplicasDone, SaveLeader, Rejoin; environment Crash, Kill, Write, Sync |
| FleetApply | `apply` of a fleet file, again and again | per host: marker, config.yaml, the cluster its k3s belongs to, etcd, place in the node list, peer rules, allowlist; of the run: phase, selection, position of each host's init, rules to open, Ready list, joins left; history variables | Start, Launch, Probe, Harden, Install, Stamp, Late (a goroutine per host), HostsFailed, HostsDone, OpenPeer, PeersDone, NoToken, ReadServer, SkipJoin, Join, JoinFails, JoinsDone, AwaitFleet, FleetIncomplete, PhasesDone; environment Abort, Register, Recover, GoDown |
| OpsTimers | the watchdogs' timers | per component its script's version and its timer; the command's version; position of `ops apply` | OpsApply, StopUnits, Installed, InstallFailed, FinishApply, ApplyDies, InstallPhase, OpsEnable, OpsDisable, OpsRemove, Upgrade, OpsReboot |
| TraefikCerts | Traefik and the certificates of a node, on top of OpsTimers | container, traefik.yml, acme.json, domains to sync, store, copies, what nats serves, per writer its steps left | Issue, StartSync, ConsiderDomain, StartImport, Perform, FailWrite, Kill, StartNats, InstallTraefik, ApplyDomains, WatchTraefik, TraefikHarm, CertsIssue, CertsRemove, RemoveCertRenew, NodeReboot |
| Access | how the operator gets in during init | sshd_config and what sshd loaded, account and its keys, packet filter written and loaded, jail and ban, position of init, what has gone wrong of what WayIn excepts | GiveInit, GivePlainInit, one per command of the steps that matter, KillInit, FleetJail, Probe, Forgive, AccessReboot |
| FleetFile | the fleet file | none (pure) | - |
| FleetServices | the services phase | per host: directory of each service, what runs, timers; of the run: plan, phase, turn, services to remove and to deploy; faults; which templates leave alone what runs (Latched), and of those which do not look whether anything came up (Careless) | StartServices, PushApp, TakeTurn, Uninstall, Cleaned, Upload, Wipe, Wiped, WireService, ComposeUp, NothingToRun, AwaitService, AwaitFails, EndTurn, EtcdDone, ServicesDone |
| NatsMesh | routes, addresses and replicas of nats | none (pure) | - |
| Ledger | state.yaml and config.yaml | the files' entries or a torn file, per recorder what it records and how far it is, the mutex | Load, Empty, Fill, DieRecording |
| Databases | databases and backup schedules, on top of Ledger | password each takes (negative: with the quotes that a postgres rotation adds), timer of each kind, and of which entries the last command met another, was cut or did not do what it recorded (`loose`) | CreateDatabase, RemoveDatabase, RotateUnchecked, RotatePassword, ScheduleBackup, UnscheduleBackup, SyncEntry, RecordService, RemoveNode, DieCommand |
| ServiceFile | what a push reads from service.yaml, the builders, the compose commands, rotation of a variable | none (pure) | - |
| PushSource | service.yaml and the compose file under several pushes | what the file is, what each push has read and where it is | Begin, Decrypt, Build, Parse, WriteCompose, Copy, Paste, Upload, Reencrypt, Kill, EncryptCommand |
| Proxies | the reverse proxies of a node | none (a node is a record that says also whether packages and images can be had, every operation an operator) | - |
| CloudHosts | machines at vendors, the cloud firewall | machines with labels and addresses, what apply holds of them, what was initialized, machines whose wait CreateVPS gave up (`late`), rules of the group and those beyond the listed page | StartApply, Create, Assign, CreateReturned, GiveUp, Wait, Provision, Kill, StartDestroy, Delete, Destroyed, StartSync, DropRule, AddRule, SyncEnds |
| K3sNode | k3s on a machine: install, join, commands, removals | none (machine and computer are records) | - |
| Members | the list of nodes and what commands make of it | none (the list is a sequence) | - |
| ClusterFormation | abstract: one host founds the cluster, every other joins its server | `cluster` | Found, Join |
| MC... | instances for TLC; MCFleetFile, MCServiceFile, MCProxies, MCK3sNode and MCMembers hold what is assumed of the pure modules, which TLC evaluates | - | - |
| ...Proofs | theorems and proofs (section 6); a module holds those of several components that share no names | - | - |

Abstractions. An address is a model value with a family; a table keeps, per family,
whether the allow set has anything in it and which admins are in. A registry is the
set of its lines plus the last line of each port, which is all that the code
reads. A refresh is a count per family (MIN_CIDRS decides on the sum). A release is a value that may be runnable, sound, and
have a health URL; a version directory holds one release or a broken upload. A
volume holds a number of transactions. A fleet file is a record of what decides the course
of a run; groups and tags come down to waves and selections. A cluster is named by the
server that booted it. The history variables of FleetApply say which hosts an
init was cut short on (torn), whose marker a run could not read (blind), and which
nodes a run found Ready and had reason to leave alone (steady).

A pure module (FleetFile, NatsMesh, ServiceFile, Proxies, K3sNode, Members) is checked by
named ASSUMEs in its MC module: each compares the operators with a reference definition, or
states what a sequence of operations keeps, over all small inputs (for K3sNode all machines
that three commands can make, for Proxies all nodes after three `proxy set`). TLC evaluates
them before the run that extends the module starts, and ends the run if one is false.

Where a script is one action: it is one SSH command or one unit, no other script
takes part in it, and its partial failures that the code lets happen are outcomes of the
action. Where it is not (install, push, failover), every command whose failure is
visible is an action, and everything else interleaves.

## 4. Runs and bounds

The types are a theorem of each component that has proofs, and the runs leave them out. A run of several
components side by side has one line for each.

| run | what it checks | instance |
|---|---|---|
| FirewallEdits, firewall | live chain agrees with registry (ExposedAsRegistered), boot config equals live table (SurvivesReboot), but for admins healed alone, whoever is neither admitted nor listed alone stays out until `admin add` (OutStaysOut), refinement of PortPolicy (PolicyKept) | three admins of both families, port 80 under three policies and two protocols, its extension 8080 under two, one peer; every outcome of a fetch; no outside damage, root login |
| - timers | an installed watchdog's timer stays on (WatchdogsStay) | two components, two versions of the scripts, one mishap |
| - access | there is a way in, with three named exceptions (WayIn) | machines on port 22 or 2222, `--ssh-port` none, 2222 or 2200, up to three inits, a ban after two failures |
| - hosts | init runs on own machines, or on 0.0.0.0 where Vultr was given up on (OwnMachineOrLate), destroying again removes all of them (DestroyPersists) | two hosts at three pairs of vendors, with and without peers, up to four machines, one failure, a page of three |
| - sync | an ok sync leaves what it was asked for and what the first page did not show (SyncExact) | two overlapping sets of ranges, pages of four rules, one failure |
| FirewallRepair, firewall | no stale policy (NoStalePolicy), lost rules and an admin listed alone return (LostRulesReturn, BlankFamilyReturns) | admin elements and port rules lost at any time, re-hardening, non-root login, two v4 admins and one v6, one port with two policies |
| - certs | chain and key fit (PairsFit), a renewal reaches nats (RenewalReaches), Traefik returns unless `ops remove` took its template (TraefikReturns) | two domains, one renewed once by Traefik and one imported; any write fails, any writer is killed, one mishap of the timers |
| FirewallAdminReturns | finding 1 | root login, admin commands and refreshes only |
| InstallLockout | a lockout is always armed, lockout recovers | one operator and one more admin, any config, every failure of the script but reboot and unarmed timer; slow and hasty installs |
| InstallFaults | what was committed survives a reboot, re-exposing keeps policies, the original backup is overwritten only after a removal that met a bad one (BackupIsOriginal) | two registry lines for a port, or none and removals between the installs; reboots, unarmed rollbacks, backups that nft refuses or that fail to load, and every failure but slowness |
| InstallRollbackReboot | finding 2 | no fault at all |
| DeployPushes, push | versions kept, no broken upload served, OK means served | two pushes, three kinds of release, four modes, every command fails, rollbacks and restarts at any time |
| - ledger | entries kept (EntriesKept), the ledger tells the truth of entries that are not `loose` (LedgerTrue) | two mysql and one postgres database, one machine, one service, two commands and two goroutines of a sync, three commands in all |
| - source | what was sealed stays sealed (SealedAtRest) | three pushes: with the key, with the key and a builder, with neither; every trouble |
| DeployAutoRollback | finding 3 | two pushes, no fault |
| LibsqlRepair | one writer per volume, epoch steps, a dead primary returns | five events out of kill, controller crash, docker run, docker stop, docker inspect and docker ps failure, etcd get and put failure, slow answer; 1.75 million states |
| LibsqlVolumeLost | finding 4 | three kills, one transaction |
| FleetApply, init | one cluster, modes not switched unasked, joins behind peers, steady nodes spared, success complete, convergence, refinement of ClusterFormation (ClusterFormed) | three hosts, five fleet files: a server and two agents, three servers, the first with its mode guard on and a wave left out, docker only, k3s without a cluster; hosts fresh, legacy or formerly docker; one failure per behaviour at any of nine places; with the services half 1.1 million states |
| - services | success means what is declared runs (ServedAsDeclared) and nothing else (UndeclaredGone), etcd before postgres, only faults fail or the wait for a postgres that leads elsewhere (FailsOnlyByFault) | two hosts, six services, five fleet files applied in any order, an app pushed beside them, one fault |
| FleetReapply | finding 5 | a server and two agents, no failure |

Why the bounds are enough. Firewall: policies interact on one port (dedup by port
against dedup by port/proto/scope) or on two whose numbers share a prefix, so two
lines per port on two ports show every conflict; fetch counts 0, 3 and 4 against
MIN_CIDRS 4 are nothing, too little alone but enough together, and enough alone.
Nothing in the state grows, so the runs are exhaustive over behaviours of any
length. Timers: components share only the command, so two show `ops apply` at one while
another changes; two versions are one upgrade. Access: three inits are the first, one
that retries what the first left, and one after a change of port. Certificates: two
domains with nats overwrite one another's copy; a renewal is the second serial. Hosts: a
name with two machines and another entry's at the same vendor or another. Install: one operator, since the properties about lockouts and the saved
config do not hold when two share the same files (section 8); types and
that a rollback only admits are proved for any number. Deploy: a push meets another push or an operator; two pushes
show the collision of version numbers and `previous` pointing nowhere useful, the
proofs cover any number. Rollbacks and restarts are unbounded. Ledger: an entry is lost when a second
recording comes between the read and the write of a first; three commands add what comes after.
Source: the proof covers any number of pushes. libsql: the loss of
a cluster takes at most a kill, a crash and a failure of one failover; five events
allow two failovers with trouble in each; Threshold is the code's default of 3,
Desired is the 2 of the template; above 2 the names of the replicas run out, which BoundAssumption excludes. Fleet: what a failure
leaves behind is met by the following applies, whose number and selections are not
bounded, and two joiners beside the first server show every order of init and join;
the safety properties are proved for any number of failures and hosts, so one failure is
enough for TLC. Services: a file moves a service from one host to the other, drops it, changes
its version; applies are not bounded.

Deadlock is checked in every run but the two of FleetApply, where an operator with no
reason to apply again leaves the system at rest. `Done` in ServiceDeploy is the stutter after all
pushes have ended, and MCServices has one for databases when all commands are given.

## 5. Fairness

- FirewallRepair: the watchdog with a sufficient fetch is weakly fair
  (`WF(\E n \in Fetch : Enough(n) /\ WatchRun(n))`). It is a persistent systemd
  timer; that a fetch tried every five minutes for ever works some time is an assumption
  about the network, without which no repair can be promised. Losses and operator
  edits are not fair and may go on for ever.
- InstallLockout: the steps of an operator's session are weakly fair (the process
  runs; it may still die at the points where Crash is possible), as are the 30-second window and the
  timer's rollback, which systemd runs whatever the operator does.
- LibsqlRepair: the controller as a whole is weakly fair. It is one goroutine in a
  `for` with a ticker, and docker's restart policy starts it again after a crash.
  Every docker command has a timeout of 30 s, so no step blocks for ever.
- FleetApply: a run that has been started goes on (`WF(Apply)`): it is one process whose
  waits are all bounded, and it may still be killed (Abort). The clusters are fair
  (`WF(Cluster)`): systemd restarts k3s and the kubelets until they answer. Start, Abort and
  every failure are not fair. FleetReapply uses the same specification.
- FirewallRepair also takes the timer of Traefik's watchdog, while it is active, the certificate worker,
  docker's restart of nats and a running `ops apply` as weakly fair: systemd timers that are
  persistent, and processes whose steps end. Imports, issues, writes that fail and kills are not fair.
- FirewallEdits: a destroy that has been started goes on, and the operator runs destroy again
  (CloudHosts' `Persistent`); applies and failures are not fair. DestroyPersists excludes vendors whose
  list has no names, where destroy never finds anything.
- MCFleet states the fairness of FleetApply for the init half only; the services half checks safety.
- Where parts are side by side, the fairness of a part is conditioned on `part` or on what only that part can
  enable, so that it demands nothing of the behaviours of another.
- The other runs check safety only.

## 6. Proofs

Constants are arbitrary within the named assumptions of the modules: MIN_CIDRS is
positive, fetch counts are numbers, the login is root or sdkops, NoLine and NoTable
are no line and no table, operators are admins, None is no release, a recorder records
commands or is a goroutine of the sync (LedgerConstants, DatabaseConstants), an
entry of a provider list has its machine at one of the vendors (CloudConstants), and so on.
TLC evaluates them in the runs. What else a theorem assumes stands in its ASSUME and below.

The theorems named ...TypeCorrect or ...Types are the type invariants that the
others cite. Every safety property that a passing run checks is stated by a theorem.

**FirewallProofs**
- NodeTypeCorrect: the types, by one lemma per script.
- StaleNever: NoStalePolicy. It is not inductive: a repair puts back the rules of
  `newest[p]`, so one must know that this line is about port p (NewestOnPort).
  NoStaleInv adds that and the types. The argument: every step is a quiet step,
  which only removes rules or adds rules of the newest line of uncovered ports, or a port command,
  which replaces a port's rules with those of the line it registers.
  The boot config has to be as good as the table, or a reboot would bring a stale
  policy back.
- ChainAsRegistered: the same with equality in both (AgreesInv), without outside
  damage and re-hardening, the only steps that take rules away by themselves.
- NodeImplementsPolicy, under the same hypotheses: from AgreesInv every step maps to a step of PortPolicy or
  a stutter, with the mapping that reads a port's policy off the live chain.
- RebootChangesNothing: at any login, without outside damage
  and re-hardening, boot config and live table are equal and the sets exist, but for an
  admin the live table has and the boot config has not, and that one is listed alone in
  its family. The exception is needed: a removed admin stays listed (finding 1), and a refresh that
  heals it and then gets too few ranges writes no boot config.
- OutsidersStayOut: OutStaysOut, at any login, with any outside damage and any re-hardening. Every
  step but `admin add` either takes admins away, copies them between table and boot config, or
  heals an address listed alone. So an address that was removed stays out as long as another
  address of its family is listed, and comes back otherwise: finding 1.

**FirewallInstallProofs**
- InstallTypeCorrect, for any number of operators and every fault.
- LockoutAlwaysArmed: for one operator, without reboots, an unarmed timer, outside
  damage, admin edits, re-hardening, or a backup that is bad or fails to load when the allowlist is
  removed, each of which can lock out by itself. LockInv says for every position of the
  session what the snapshot, the marker and the timer are; a node's own steps only
  ever admit more to SSH (AdmittingStep), so they cannot lock the operator out.
- BackupKept, for one operator, every fault, and no edit but removal, until a removal
  meets a backup that nft refuses (`refused`). BackupInv relates the backup to the snapshot, the boot config and the
  position of each session; needed because the saved file is the boot config at
  the first install, which must be shown to be the original one.
- RollbackAdmits: a rollback loads the snapshot into the table, and loading adds. No run
  checks this one.
- CommitSurvives, for one operator, no edit but removal, and a session that is neither
  slow nor hasty: what was committed is what the next boot loads. CommitInv adds to BackupInv that the
  timer is off or not due through the session, and that after the heal nothing is left to
  heal (Settled), so that live table and boot config admit the same. The timing
  hypotheses are needed: a rollback that fires between verification and commit changes the live
  table only.
- ReexposeGivesBack: ReexposeKeepsPolicies, for one operator, sessions neither slow nor hasty,
  no outside damage, re-hardening or edit of ports meanwhile. RedoInv says at each position of the session
  that the registry is the one found (its lines, and which is the last of each port), and that
  each port without a line left to re-expose has the rules of its last line (Redone);
  NodeKeepsRules says that refreshes and the watchdog disturb neither.

**ServiceDeployProofs**
- TypeCorrect: that a version number never exceeds the number of pushes is a counting
  argument: every number in use is at most the number of pushes that have listed
  (Numbered), and a listing takes a number at most one above the largest in use.
- VersionsAreKept: a push's number is above everything it was shown (AboveSeen),
  since nextVersion takes one more than the largest listed (NextVersionIsFresh,
  proved over an arbitrary finite set).
- ServiceIsWhole: WholeInv says that what either link names was named by an operator or
  unpacked by a push that got past its extraction, and that a broken upload belongs to a push
  that failed; so a broken version in service has two pushes, or an operator.
- OkIsServed: ServedInv follows an undisturbed push with its own number from the
  extraction to the check: the version holds its release, then `current` names it,
  then its release runs.
- RollbackRestoresNothing: finding 3 for every constant. Whatever releases, modes and faults,
  a push whose rollback nothing else came between has its own rejected version in service
  afterwards: from its link command on both links lead to that version (LinkedInv).

**LibsqlFailoverProofs**, for every threshold, budget and set of events.
- TypeCorrect. FewOthers counts the replicas still to recreate: three names, less the
  promoted one, leave two, so the two names in the code are enough.
- WatchedAlwaysExist: a name is registered only after docker took it and forgotten
  before its container is removed (WatchedInv).
- EpochNeverSkips: the epoch in memory is that of etcd or none (EpochInv), and only a
  controller that knows a leader fails over. An unreadable leader key breaks this, so
  the property names that exception, which the variable `ignored` remembers.
- OneWriterAlways: no two existing containers share a volume. SoleInv adds what makes that
  inductive: a controller that watches the primary watches every container
  (WatchesAll: it started from all of them or from a failover that removed all), so
  after StopAll none is left, and the volumes captured from distinct containers are distinct
  (ApartOthers). A docker stop that failed is the exception.
- PromotionKeepsVolume and PromotionKeepsAll: what holds of docs/libsql.md:45 in spite of
  finding 4. If no check is slow and no docker inspect of the volumes fails, so that a primary taken for lost is down and nothing is
  written or copied between the choice of a replica and the start over its volume (HeldInv), then
  a promotion of a replica that has a volume starts with all its data. If moreover no replicas are
  asked for, no container without a volume ever exists (AllVolumes: only a rejoin and a failed
  inspect make one), and PromotionKeepsData holds as the run states it. Finding 4 needs the rejoin
  alone.

**FleetApplyProofs**, for every set of hosts, every set of valid fleet files, every
number and kind of failures, under FleetAssumption: hosts are finite and not none, and every
fleet passes validateProvision.
- TypeCorrect. That the first server is a host is shown by well-founded induction on
  the order of the file (FirstServerInHost); etcd is only on servers that booted.
- MarkerAlwaysTrue: a host at `stamp` to be marked k3s has k3s (StampTrue), and nothing
  uninstalls it.
- SwitchOnlyWhenAllowed: past the probe, a host is initialized only when it had no mode, the file
  allows another, or its marker could not be read (MayInit).
- JoinsAlwaysBehindPeers: from `token` on every declared rule is open, and no init
  is under way that could flush one (PeersOpen).
- OneClusterAlways and SteadySpared: only the first server boots (Clustering), a join leads to
  the first server, a steady node's marker keeps its init from the installer and the
  Ready list keeps it from the join (SteadyKept), and a node that is in the list
  runs k3s (NodesRun).
- WholeWhenDone: the rules still to open and those open are together all declared ones
  (Walls, Waves, Whole); every host that had a turn and is not torn has its allowlist;
  as many members in the list as hosts selected, that is all of them, means every host,
  by cardinality.
- ApplyFormsCluster: FleetApply implements ClusterFormation (ClusterFormed), for files that
  make one cluster, with `k3s` for the abstract `cluster`. Every step maps to Found, Join or a
  stutter; Headed adds that whoever is in a cluster is in the one of a first server that runs,
  and that joins begin after it does.
- ReappliesWhereNoneJoins: what holds of docs/commands.md:182 in spite of finding 5. Where the
  file makes no host join another (docker, bare, or k3s on each host by itself) and no fault
  leaves a host half done, applying an unchanged file again refuses nobody: a host that got past its
  probe would pass the next one (PassInv), and after a full apply all do (AllPass).
- CloudTypes. InitsOwnMachines: OwnMachineOrLate, without hypothesis. OwnInv follows an address from the
  vendor to the init: what a machine answers is its own or the vendor's blank, what is filed
  or held of an entry is of a machine created under its name. A vendor that answers 0.0.0.0 for a
  machine that has none yet (Vultr, vultr/vps.go:59), when CreateVPS has stopped waiting for it
  (GiveUp, provision.go:527), is the one exception, and the property names the machine that was late.
- SyncLeavesAsked: SyncExact. While a sync runs, the group is what is yet to be dropped,
  what has been added and what the list did not show (SyncInv).

**FleetServicesProofs**, for every set of hosts, services, fleet files and faults.
- MeshConnected and MeshReachable: whatever the number of seeds, the routes connect all
  nats servers (the first host of the file is in the routes of every other, HubInRoutes), and an advertised private address is
  one its peers use.
- ServicesTypes.
- EtcdComesFirst: after the first pass every host that declares etcd runs it (EtcdInv), and
  nothing in the second takes it away: the cleanup skips declared services, a clustered
  uninstall is never etcd's.
- ApplyFailsOnlyByFault: every step that ends a run in an error spends a fault, but
  for a template that cannot be deployed and ports with nobody to open them to, which the property
  excludes (Deployable), and for the wait of services_pg.go:379 for the first host to lead a postgres that
  an earlier apply left running on another host (LedElsewhere), which the property names.
- SuccessServes: ServedAsDeclared. At any point of an apply the hosts that had their turn, and
  of the host whose turn it is the services that are deployed, run what is declared (Served); a container
  whose configuration cannot be compared is recreated (Recreated), and no turn of a later host
  undoes an earlier one. Of the twelve templates whose init.sh may leave alone what runs (Latched) it
  says that they run in some version, and of the three that do not look whether anything came up
  (Careless) it says nothing.
- SuccessRemoves: UndeclaredGone. What runs has a directory by which it is found, unless a
  removal went wrong (TracesLeft), a service is deployed from the directory just uploaded
  (Uploaded), and hosts that had their turn have none of an undeclared service (Tidy).

**OperatorFilesProofs**, for any pushes, keys, builders and troubles, and for any commands,
databases, nodes and services.
- SourceTypes.
- SourceStaysSealed: SealInv says that the file is sealed unless a push that opened it is at
  work (SealedUnlessOpen), that such a push is past its decryption (Past), that what a push
  will write back was read from a file (SomethingCopied) and that a file once sealed is still there (StillThere).
- LedgerTypes. LedgerKeepsEntries: EntriesKept. Kept says that a goroutine of a sync at work holds the
  mutex (Locked), that who has emptied a file is alone with it (Alone), and that what a recorder has read
  is still what was last recorded (UpToDate), each but for files on which two recordings met.
- LedgerAlwaysTrue: LedgerTrue. Noted relates the nodes to what is about to be recorded: a
  command that has changed a node is the only one about to record that entry, with what is there
  (CommandNotes), a sync notes images only (SyncNotes), and what was last recorded is
  there, an image, or about to be recorded anew (LastTrue). With Kept, the file says so. Entries
  whose last command did not do what it recorded are excepted (`loose`): a rotation of postgres, which
  sets the password with quotes around it, or of redis, and a schedule without root.
- RegisteringKeepsList, of Members: joining and adopting a node, for any list, options and mode, keep
  one entry per address and what is registered of the others, by two lemmas on appending
  to a sequence and on changing one entry.

**NodeProofs**, for any domains, imports, components and versions, ports, commands and logins,
machines and options.
- TimerTypes and TimersStay: a timer that is off was disabled or cut, or is at
  the component `ops apply` is at (AtComponent).
- PairsAlwaysFit: unless something tore, only one writer has steps left (Alone), it finds its directory
  (DirThere), and where chain and key differ, in the store (StoreFits) or a copy (CopiesFit),
  its next step is to write that key, of the certificate whose chain is there. This needs that a
  key follows its chain in every script of steps (Ordered).
- AccessTypes. AlwaysWayIn: WayIn, on any machine, with any ports asked for. Its exceptions are named: root
  refused though the account or its keys were not made, a port moved by --ssh-port that the filter was not
  loaded with since, a filter written for none of SSH's ports. WayInv says that root is denied only once
  the account is whole or excepted (AccountKnown), that it has the keys by then or is excepted (KeysKnown), that some
  port is open now, after the next restart of sshd and after the next load of the rules (PortKnown),
  and that the rules are replaced only after sshd was restarted (Restarted). It is this look
  ahead that makes it inductive under a kill or a boot at any step.
- CommandsKeepServer, of K3sNode: a `cluster` command on any machine keeps flags and version of a server, but for
  the upgrade, and the data, but for a restore; a server appears where there was none only by an upgrade
  or a kubectl command that is not attached. It needs a binary behind each unit, and
  SetUpsHaveBinary shows that set-ups, joins and removals keep that, wherever they stop.
- ProxySetKeepsPorts, of Proxies: `infra proxy set` never takes the web ports from whoever has them, on
  any node; and what is there, or can be had, and finds them free or its own serves the domain.

Only model-checked: the liveness properties (LostRulesReturn, BlankFamilyReturns,
LockoutRecovers, PrimaryReturns, Converges, RenewalReaches, TraefikReturns,
DestroyPersists), which the prover does not reach, and the ASSUMEs about the pure modules other than
those above: what a recursive definition yields for every input is beyond it too. The five
properties of section 7 are violated; of four of them a theorem says how much is true.
WatchedAlwaysExist, MarkerAlwaysTrue and RollbackAdmits are proved of definitions
that no run checks any more.

## 7. Findings

1. `allowlist admin remove` takes the address out of the live set and never out of the
   elements file, at any login: NormalizeCIDR (allowlist.go:105-114) leaves a slash in every
   address, which ends the pattern of `sed -i '/^10.0.0.1/32$/d'`, and the error is discarded
   (allowlist_remote.go:401, run FirewallAdminReturns). As the only address of its family that the file lists,
   it is healed in again by the next refresh or watchdog run; OutsidersStayOut says who else gets in: nobody.
2. The rollback restores the live table and not `/etc/nftables.conf`, which the
   install replaced before verifying: the next reboot loads the config that locked
   the operator out, against docs/commands.md:300 (run InstallRollbackReboot).
3. The automatic rollback of a push does not restore the old version: `previous`
   is linked to the path `current`, which by then names the new version, against
   docs/architecture.md:196 (upload.go:202, run DeployAutoRollback). It never does:
   RollbackRestoresNothing.
4. A replica that was rejoined has no volume; promoting it starts an empty primary,
   against docs/libsql.md:45 (main.go.txt:578, run LibsqlVolumeLost). A replica that has one
   is promoted with its data, as long as docker tells it: PromotionKeepsVolume.
5. A host that joins a k3s cluster is initialized as docker and marked so; the next
   apply of the same file compares that marker with `mode: k3s` and refuses the
   host, or initializes it again where switching is allowed, against
   docs/commands.md:182 (provision.go:1520, run FleetReapply). Where no host joins another it
   does not: ReappliesWhereNoneJoins.

## 8. Other observations

Seen while translating; the models contain these behaviours, and no property
claims their absence.

Firewall. A fetch where one family fails and the other alone is large enough
empties the failed family's allow set (allowlist_remote.go:126), though line 16
says the sets are kept. Only an empty admin set is healed, a partial loss is not
(:93, against docs/commands.md:302), and not when its family lists several admins: the script joins them with
spaces, nft wants commas, and the error is discarded (:91-102, against :83-85). A removal of the allowlist whose
backup nft refuses keeps the allowlist as /etc/nftables.conf and deletes the backup (:337-343); one whose
backup fails to load ends under `set -e` with the table flushed and no rollback (:333-335). Exposing a port over udp closes its tcp rule
while the registry keeps both lines (:540). The daily refresh runs as sdkops and
cannot write the state file (:147), so the watchdog finds it stale every day. A
port of scope traefik has no rules, so the watchdog takes it for uncovered and
reports an incomplete repair for ever (state_watch.go:81). A node that is hardened
again loses the exposed chain and the watchdog cannot recreate it
(state_watch.go:141). Rollback adds the snapshot to the table instead of replacing
it (:216). Two operators share rollback.nft (:180), so the second snapshot can be the
lockout of the first. A retry inside the 30 seconds can be confirmed by the first
one's verification, and old admins stay in the live sets after a reinstall (:205).

Deploy. The zero-downtime, swarm and bare runtimes get the version without its v
and look in a directory that does not exist, after `current` has moved
(deploy.go:659). Hook errors are only logged, though docs/architecture.md:229 says
a pre-hook can abort. The container filter `name=<svc>-` also matches other
services whose names begin so (run.go:83). The fallback health check can be
answered by any service on its ports. A failed link command is only logged.

libsql. An unreadable leader key is taken for a missing one and the epoch falls
back to 1. An ignored `docker stop` failure allows two writers on a volume. A
crash between the removal of the containers and the creation of the primary, or a
primary that is slow to answer, leaves a cluster that no later tick repairs. A dead replica keeps its
name, so the rejoin of that slot fails for ever (against docs/libsql.md:48). The
health of replica-2 is read from replica 1's alias. An error of `docker inspect` is taken for a
container without volume: a failover then starts the new primary without one (main.go.txt:252-255) and
its replicas likewise (:354-357).

Fleet. The marker is stamped before traefik and the allowlist: a host whose init
fails there counts as initialized and gets no allowlist from later applies
(infra.go:2086). A marker that cannot be read counts as none: the full init
runs, past the guard docs/commands.md:446 describes (provision.go:824). The wait for
readiness counts NotReady lines too and wants exactly the number of selected hosts, so an
apply to some hosts of a larger cluster fails (:2259). A node list that fails or is
empty makes every member a candidate for a new join (:2245). `server.PeerIP` is
used without the fallback to the host's address (:2317). deploy_order may leave hosts out,
which are then joined without an init, and a failed wave does not stop the later ones
(:890). Errors of the first server's config.yaml are ignored, which leaves it without
etcd and makes every joining server fail (:1516). registerInitNode
rewrites the operator's config.yaml from every goroutine of a wave.

Fleet file and services. Two hosts may have one name; addresses in VLANs are
compared untrimmed; an ACME email is not asked for when only hosts declare domains; a host's security or
traefik section replaces the whole of the group's. A host left with no services is never
cleaned (services.go:151), and the cleanup removes the directories of pushed apps (services.go:44). A
clustered service that moves to an earlier host is uninstalled by the later one
after its deploy (services.go:69-113). nats is rendered with a new salt and pgsql-cluster recreated at every apply,
against docs/nats.md:93 and docs/pg.md:15. init.sh:24-29 of yuga-docker never
brings a changed service up. Recreating postgres wipes a directory other than its
data (docs/pg.md:30). etcd-bare does not go first. `docker compose up | tail -1` without pipefail hides that nothing came up
(df-dockerized/init.sh:44, libsql-dockerized/init.sh:72, pgsql-docker/init.sh:104);
nats-bare and etcd-bare note the hash of the configuration before they restart. The init.sh of yuga-docker,
yuga-bare and pgsql-bare end well though nothing came up. waitPGPrimaryReady polls the first host only and fails
after 300 s when another leads (services_pg.go:379-390).

Machines. A new machine's address is kept nowhere between runs, so every failed or
repeated apply creates another one. A peer rule from a new host without peer_ip gets its name for an
address, and the first apply fails. Vultr answers 0.0.0.0 until an address is
assigned, and gives up after 150 s (vultr/vps.go:56-67); the wait after it (provision.go:533) takes 0.0.0.0 for an
address, and init dials the operator's own machine, against provision.go:524-526. AWS lists no names, so destroy never finds its machines and reports complete; only the
first page of a list is read; regions of civo that fail are skipped; one entry without a key stops
destroy for those after it; a destroy deletes one match per name. Vultr's firewall sync deletes all rules
on the first page of its list (vultr/firewall.go:153) before it creates any, and attaches the group to nothing.

Watchdogs, Traefik and certificates. `ops apply` calls a stopped timer up to date; its stop
with a failed install leaves the timer stopped until a reboot. ensureTraefikEnv
(provision.go:1914) recreates the container with acme.json read-only, off its network,
and its failures are silent. applyTraefikDomainsOn writes the resolver and nothing restarts
Traefik, whatever the comment at provision.go:1747. traefik_watch.go:11 says a missing container is only
notified; the script recreates it, from an install.sh that `ops remove` deletes with the directory
(traefik_watch.go:128) and `ops apply` does not bring back. Copies go to /opt/sdk-ops/nats/certs, which no template creates, and
nats-bare is no container that a HUP would reach (docs/commands.md:503). A crash after the
store's chain is written makes later syncs skip until the next renewal. Two domains that name nats
overwrite one pair. The `cp` of an import lacks sudo and reports success.

Access. docs/architecture.md:246 and docs/known-issues.md:24 say that the new SSH port is
added beside 22; a Port line in sshd_config replaces it. A second init of a machine that
listens only elsewhere opens 22, 80, 443 and 6443 and locks out. An init with --ssh-port on a hardened machine that is cut between the restart of sshd (steps.go:180) and the
load of the filter (steps.go:250) locks out. Root is denied before the keys are copied, and a copy that fails
is not noticed (steps.go:164). The jail of a
fleet is fixed at port 22. Restarting nftables flushes docker's tables.

Ledger and databases. Two recordings at once lose entries; with an unreadable file
stateRecord silently does nothing, and registerInitNode and join panic. `state sync`
replaces what is known of a database by its image, a rotation by its password. The
password of a redis rotation is recorded and never set; a rotation of mongodb always fails; one of postgres sets
the password with double quotes around it, and psql ends well on an SQL error (rotate.go:27). A backup scheduled or
unscheduled as sdkops changes nothing, says ok and is recorded (backup.go:220-232, 250-256).
A database created again loses its data. The timestamp in a scheduled backup is fixed when it is
scheduled; `pg_dump | gzip` hides a failed dump; a schedule of the same kind replaces the other
container's. RestoreServices extracts to /services (docs/commands.md:241).

Source of a push. sops writes YAML which FileIsEncrypted does not take for sealed, so
that after the first push later ones upload the sealed file, against
docs/commands.md:746. A killed push leaves it open; writing the host of a database back can restore an older
text. A build writes docker-compose.yml into the source, so that later pushes skip the build
and deploy the old image; a build that fails only warns. `push --all` prints errors and succeeds. The
k3s runtime reads service.yaml from a directory that does not exist and takes the defaults, against
docs/commands.md:757. compose commands drop keys they do not know; `rotate env` edits
only `current`, and only lines written KEY=.

Proxies. `infra proxy set`, "Install or switch" (infra.go:1543), never removes the proxy that has the ports, and
reports success. As sdkops the scripts of Caddy and nginx write nothing and report success; so they do when apt fails. A
new Traefik that cannot bind is left created, and the next set calls it running.
DetectProxy never sees Traefik; blue-green takes the first site of Caddy.

k3s and nodes. Read commands of `cluster` install a server on a node without k3s and overwrite
./kubeconfig. An upgrade drops the server's flags and turns an agent into a server as well. `curl | sh` with an
unreachable script succeeds, so an install, upgrade or join may report success and have done
nothing. A failed etcd snapshot or restore reports success. The defaults root and 22 of the
options win over a registered user and port. `infra remove` never finds the k3s uninstaller
and leaves the list as it was. An agent that answers nothing is healthy in `status`;
`exec --all` succeeds whatever fails.

## 9. Not modelled

The components table of PROJECT.json gives the reason for each. In short: read-only
commands, single commands without later consequences, HTTP clients (the Bunny SDK, DNS, load balancers, managed
clusters of the vendors), renderers and third-party
clusters are left out for good; they are most of the lines that the map does not
cover. Inside the modelled parts: the notification
cooldown of the watchdogs; the text of nftables rules beyond
port, protocol and source; what a service does once started; the archives of backups;
replication of sqld beyond `a replica catches up`; a docker run that fails half
way and leaves a created container; of a fleet, VLANs, bans and telegram.
What two operators do at once to one install has a model (`Ops`) and no property that
holds (section 8). What the side by side runs do not show: components that the code does connect and
the models keep apart, such as an init that both flushes the firewall and moves the
SSH port, meet only where a module says so (Firewall's re-hardening, FleetApply's Harden).

## 10. Plan

Order: what can lock out, lose or corrupt comes first.

1. NftTable, Firewall, PortPolicy, FirewallInstall, with proofs: done.
2. ServiceDeploy with proofs: done. PushSource with proofs, ServiceFile: done. To add: RestoreServices as an operator
   action, since it edits the same tree.
3. LibsqlFailover with proofs: done. To add: the promise that the replica
   count is restored (docs/libsql.md:48), which the model violates.
4. FleetApply, FleetServices and CloudHosts with proofs, ClusterFormation, FleetFile, NatsMesh with proofs: done.
5. Ledger, Databases, OpsTimers, TraefikCerts and Access with proofs, Proxies, K3sNode and Members with some: done.
6. Proofs of every safety property the runs check: done. To add: more of the pure modules' operators, for
   every input where nothing is recursive (FleetFile's peers, NatsMesh is done, ServiceFile's keys), and the
   properties of two operators at one install that do hold.
