--------------------------- MODULE FirewallInstall ---------------------------
(***************************************************************************)
(* `infra firewall cf-normal | cf-strict`: replacing the node's table over *)
(* the very SSH access the table controls.  The install snapshots the live *)
(* table, applies the new one, arms a timer on the node that restores the  *)
(* snapshot after 30 s, proves a NEW SSH connection works and only then    *)
(* disarms the timer.  Several operators may install at once, a command    *)
(* can be killed between two SSH calls, the node can reboot, and between   *)
(* the steps the node keeps doing all that Firewall describes.             *)
(* Source: src/hardening/allowlist_remote.go, src/cmd/sdk-ops/infra.go.    *)
(***************************************************************************)
EXTENDS Firewall

CONSTANTS
  Ops,    \* the addresses installs are run from
  Faults, \* what may go wrong: see FaultKinds
  NoTable \* no file

FaultKinds ==
  { "cliCrash",  \* the command dies between two SSH calls
    "reboot",    \* the node restarts
    "badConfig", \* `nft -c` refuses the new file
    "loadFails", \* `nft -f` of the new file fails
    "armFails",  \* systemd-run fails, which the script ignores
    "unitFails", \* enabling the refresh timer fails, which ends the script
    "badBackup", \* `nft -c` refuses the backup a removal is to restore
    "restoreFails", \* `nft -f` of that backup fails
    "slow",      \* seeding and re-exposing take longer than the 30 s window
    "hasty" }    \* an install starts while the timer of another one runs

ASSUME OpsAssumption == Ops \subseteq Admins
ASSUME FaultsAssumption == Faults \subseteq FaultKinds
ASSUME NoTableAssumption == NoTable \notin Table

VARIABLES
  bak,    \* nftables.conf.bak, the config from before the feature
  snap,   \* rollback.nft
  timer,  \* sdk-ops-fw-rollback: "off", "young", or "due" after 30 s
  marker, \* /tmp/sdk-ops-fw-commit exists
  refused, \* history: a removal has met a backup that nft refuses
  pc,     \* where each operator's command is
  want,   \* the config it installs
  todo,   \* the registry lines it has still to re-expose
  seen    \* the registry's last line per port when it read the file

rollbackVars == <<bak, snap, timer, marker, refused>>
installVars  == <<pc, want, todo, seen>>
vars         == <<nodeVars, rollbackVars, installVars>>

\* runAllowlistInstall refuses cf-strict without an admin address.
Config == {c \in [profile : {"normal", "strict"}, admin : SUBSET Admins] :
             c.profile = "strict" => c.admin # {}}

Before   == {"idle", "connected", "snapped"}
Swapping == {"flushed", "loaded"}
After    == {"armed", "installed", "seeded", "reexposed", "verified"}
Over     == {"committed", "rejected", "failed"}

InstallTypeOK ==
  /\ NodeTypeOK
  /\ bak \in Table \cup {NoTable} /\ snap \in Table \cup {NoTable}
  /\ timer \in {"off", "young", "due"}
  /\ marker \in BOOLEAN /\ refused \in BOOLEAN
  /\ pc \in [Ops -> Before \cup Swapping \cup After \cup Over]
  /\ want \in [Ops -> Config]
  /\ todo \in [Ops -> SUBSET Lines]
  /\ seen \in [Ops -> [Port -> Lines \cup {NoLine}]]

LinesOn(p) == {l \in Lines : l.port = p}

\* The last lines a registry can have, one per port it mentions.
LastLines(reg) ==
  {f \in [Port -> Lines \cup {NoLine}] :
     \A p \in Port : IF reg \cap LinesOn(p) = {} THEN f[p] = NoLine
                                               ELSE f[p] \in reg \cap LinesOn(p)}

InForce(f) == UNION {IF f[p] = NoLine THEN {} ELSE RulesOf(f[p]) : p \in Port}

\* A node that is hardened and no more.
Hardened ==
  /\ live = BaseTable /\ conf = BaseTable
  /\ elems = {} /\ registry = {} /\ newest = [p \in Port |-> NoLine]
  /\ stateFile = "missing" /\ units = {}
  /\ bak = NoTable /\ snap = NoTable

\* A node whose install of profile "normal" was committed, ports exposed since.
Installed ==
  /\ elems \in SUBSET Admins
  /\ registry \in SUBSET Lines /\ newest \in LastLines(registry)
  /\ live = [AllowlistTable([profile |-> "normal", admin |-> elems])
               EXCEPT !.allow = Family, !.exposed = InForce(newest)]
  /\ conf = live
  /\ stateFile = "fresh" /\ units = {"allowlist"}
  /\ bak = BaseTable /\ snap = BaseTable

InstallInit ==
  /\ Hardened \/ Installed
  /\ report = "ok"
  /\ timer = "off" /\ marker = FALSE /\ refused = FALSE
  /\ pc = [o \in Ops |-> "idle"]
  /\ want = [o \in Ops |-> [profile |-> "normal", admin |-> {}]]
  /\ todo = [o \in Ops |-> {}]
  /\ seen = [o \in Ops |-> [p \in Port |-> NoLine]]

-------------------------------------------------------------------------------
(* InstallAllowlist: the install script, command by command                *)

At(o, l) == pc[o] = l
Go(o, l) == pc' = [pc EXCEPT ![o] = l]

\* The previous firewall a rollback or a failed load brings back: `nft -f` of
\* the snapshot, which adds to the table it is loaded into.
Reloaded == IF snap = NoTable THEN live ELSE LoadFile(live, snap)

Connect(o, c) ==
  /\ pc[o] \in {"idle"} \cup Over
  /\ MaySSH(live, o)
  /\ "hasty" \in Faults \/ timer = "off"
  /\ Go(o, "connected") /\ want' = [want EXCEPT ![o] = c]
  /\ UNCHANGED <<nodeVars, rollbackVars, todo, seen>>

\* Variant: the pre-feature config is saved by every install.
SnapshotSavesAgain(o) ==
  /\ At(o, "connected")
  /\ snap' = live
  /\ bak' = conf
  /\ elems' = want[o].admin
  /\ Go(o, "snapped")
  /\ UNCHANGED <<live, conf, registry, newest, stateFile, units, report,
                 timer, marker, refused, want, todo, seen>>

\* rollback.nft, nftables.conf.bak (once) and the elements files are written.
Snapshot(o) ==
  /\ At(o, "connected")
  /\ snap' = live
  /\ bak' = IF bak = NoTable THEN conf ELSE bak
  /\ elems' = want[o].admin
  /\ \/ Go(o, "snapped")
     \/ "badConfig" \in Faults /\ Go(o, "failed")
  /\ UNCHANGED <<live, conf, registry, newest, stateFile, units, report,
                 timer, marker, refused, want, todo, seen>>

FlushTable(o) ==
  /\ At(o, "snapped")
  /\ live' = FlushRules(live)
  /\ Go(o, "flushed")
  /\ UNCHANGED <<conf, elems, registry, newest, stateFile, units, report,
                 rollbackVars, want, todo, seen>>

LoadConf(o) ==
  /\ At(o, "flushed")
  /\ \/ live' = LoadFile(live, AllowlistTable(want[o])) /\ Go(o, "loaded")
     \/ "loadFails" \in Faults /\ live' = Reloaded /\ Go(o, "failed")
  /\ UNCHANGED <<conf, elems, registry, newest, stateFile, units, report,
                 rollbackVars, want, todo, seen>>

\* Variant: the marker of an earlier commit is left in place.
ArmKeepsMarker(o) ==
  /\ At(o, "loaded")
  /\ conf' = AllowlistTable(want[o])
  /\ timer' = IF timer = "off" THEN "young" ELSE timer
  /\ Go(o, "armed")
  /\ UNCHANGED <<live, elems, registry, newest, stateFile, units, report,
                 bak, snap, marker, refused, want, todo, seen>>

\* The file becomes the boot config; the marker goes; the timer is started,
\* unless the unit of an earlier install is still waiting.
Arm(o) ==
  /\ At(o, "loaded")
  /\ conf' = AllowlistTable(want[o])
  /\ marker' = FALSE
  /\ \/ timer' = IF timer = "off" THEN "young" ELSE timer
     \/ "armFails" \in Faults /\ timer' = timer
  /\ Go(o, "armed")
  /\ UNCHANGED <<live, elems, registry, newest, stateFile, units, report,
                 bak, snap, refused, want, todo, seen>>

InstallUnits(o) ==
  /\ At(o, "armed")
  /\ \/ units' = units \cup {"allowlist"} /\ Go(o, "installed")
     \/ "unitFails" \in Faults /\ units' = units /\ Go(o, "failed")
  /\ UNCHANGED <<live, conf, elems, registry, newest, stateFile, report,
                 rollbackVars, want, todo, seen>>

-------------------------------------------------------------------------------
(* Seed, re-expose, verify and commit: an SSH call each                    *)

\* allowlist.sh run once; then the registry is read, as the next call does.
Seed(o) ==
  /\ At(o, "installed")
  /\ \E n \in Fetch : /\ Updater("root", n)
                      /\ Go(o, IF live.sets /\ Enough(n) THEN "seeded" ELSE "failed")
  /\ UNCHANGED <<rollbackVars, want, todo, seen>>

ReadRegistry(o) ==
  /\ At(o, "seeded")
  /\ todo' = [todo EXCEPT ![o] = registry] /\ seen' = [seen EXCEPT ![o] = newest]
  /\ Go(o, "reexposed")
  /\ UNCHANGED <<nodeVars, rollbackVars, want>>

\* Variant: the lines are taken in any order.
NextLinesAnyOrder(o) == todo[o]

\* The file is in order of registration: a port's last line comes last.
NextLines(o) == {l \in todo[o] : l = seen[o][l.port] => todo[o] \cap LinesOn(l.port) = {l}}

\* reapplyPortRegistry: each line goes through AllowlistExposePort again.
Reexpose(o) ==
  /\ At(o, "reexposed")
  /\ \E l \in NextLines(o) : AllowlistExposePort(l) /\ todo' = [todo EXCEPT ![o] = @ \ {l}]
  /\ UNCHANGED <<rollbackVars, pc, want, seen>>

\* Variant: the connection that applied the table is taken for the proof.
VerifyOldConnection(o) ==
  /\ At(o, "reexposed") /\ todo[o] = {}
  /\ Go(o, "verified")
  /\ UNCHANGED <<nodeVars, rollbackVars, want, todo, seen>>

\* A new SSH connection to the node.
Verify(o) ==
  /\ At(o, "reexposed") /\ todo[o] = {}
  /\ Go(o, IF MaySSH(live, o) THEN "verified" ELSE "rejected")
  /\ UNCHANGED <<nodeVars, rollbackVars, want, todo, seen>>

CommitAllowlist(o) ==
  /\ At(o, "verified")
  /\ marker' = TRUE /\ timer' = "off"
  /\ Go(o, "committed")
  /\ UNCHANGED <<nodeVars, bak, snap, refused, want, todo, seen>>

\* The command dies between two SSH calls.
Crash(o) ==
  /\ "cliCrash" \in Faults
  /\ pc[o] \in {"installed", "seeded", "reexposed", "verified"}
  /\ Go(o, "failed")
  /\ UNCHANGED <<nodeVars, rollbackVars, want, todo, seen>>

-------------------------------------------------------------------------------
(* The node's side                                                         *)

\* 30 s pass; without "slow" no install that has begun to write takes so long.
WindowElapses ==
  /\ timer = "young"
  /\ "slow" \in Faults \/ \A o \in Ops : pc[o] \notin {"snapped"} \cup Swapping \cup After
  /\ timer' = "due"
  /\ UNCHANGED <<nodeVars, bak, snap, marker, refused, installVars>>

\* Variant: the unit reloads the boot config instead of the snapshot.
RollbackLoadsConf ==
  /\ timer = "due"
  /\ live' = IF marker THEN live ELSE LoadFile(live, conf)
  /\ timer' = "off"
  /\ UNCHANGED <<conf, elems, registry, newest, stateFile, units, report,
                 bak, snap, marker, refused, installVars>>

Rollback ==
  /\ timer = "due"
  /\ live' = IF marker THEN live ELSE Reloaded
  /\ timer' = "off"
  /\ UNCHANGED <<conf, elems, registry, newest, stateFile, units, report,
                 bak, snap, marker, refused, installVars>>

\* A transient unit and /tmp do not survive; neither do the commands.
RebootNode ==
  /\ "reboot" \in Faults
  /\ live' = conf
  /\ timer' = "off" /\ marker' = FALSE
  /\ pc' = [o \in Ops |-> IF pc[o] \in {"idle"} \cup Over THEN pc[o] ELSE "failed"]
  /\ UNCHANGED <<conf, elems, registry, newest, stateFile, units, report,
                 bak, snap, refused, want, todo, seen>>

\* nftables is restarted on the boot config; the feature's files go, the backup
\* and the watchdog's script among them.
ClearFirewall ==
  /\ live' = conf'
  /\ elems' = {} /\ registry' = {} /\ newest' = [p \in Port |-> NoLine]
  /\ stateFile' = "missing" /\ units' = {}
  /\ bak' = NoTable /\ snap' = NoTable

\* The backup becomes the boot config again.
RestoreBackup ==
  /\ conf' = IF bak = NoTable THEN conf ELSE bak
  /\ UNCHANGED refused
  /\ ClearFirewall

\* nft does not take it: the installed config stays, the backup goes all the same.
KeepConf ==
  /\ "badBackup" \in Faults /\ bak # NoTable
  /\ UNCHANGED conf
  /\ refused' = TRUE
  /\ ClearFirewall

\* Loading it fails, which ends the script between the flush and the rest.
RestoreFails ==
  /\ "restoreFails" \in Faults /\ bak # NoTable
  /\ live' = FlushRules(live)
  /\ units' = units \ {"allowlist"}
  /\ UNCHANGED <<conf, elems, registry, newest, stateFile, bak, snap, refused>>

\* `allowlist remove`: the timers and the marker go first.
RemoveAllowlist(o) ==
  /\ pc[o] \in {"idle"} \cup Over
  /\ MaySSH(live, o)
  /\ timer' = "off" /\ marker' = FALSE
  /\ RestoreBackup \/ KeepConf \/ RestoreFails
  /\ UNCHANGED <<report, installVars>>

Session(o) ==
  \/ Snapshot(o) \/ FlushTable(o) \/ LoadConf(o) \/ Arm(o) \/ InstallUnits(o)
  \/ Seed(o) \/ ReadRegistry(o) \/ Reexpose(o) \/ Verify(o) \/ CommitAllowlist(o)

InstallStep ==
  \/ \E o \in Ops : \/ \E c \in Config : Connect(o, c)
                    \/ Session(o) \/ Crash(o)
  \/ WindowElapses \/ Rollback \/ RebootNode
  \/ NodeStep /\ UNCHANGED <<rollbackVars, installVars>>

Removal == "remove" \in Edits /\ \E o \in Ops : RemoveAllowlist(o)

InstallNext == InstallStep \/ Removal

InstallSpec == InstallInit /\ [][InstallNext]_vars

\* The install's commands go on while they can, and systemd's timer fires.
FairInstallSpec ==
  /\ InstallSpec
  /\ \A o \in Ops : WF_vars(Session(o))
  /\ WF_vars(WindowElapses) /\ WF_vars(Rollback)

-------------------------------------------------------------------------------
(* Properties                                                              *)

\* Whenever an operator who is running or has run an install cannot open a new
\* connection, either the script is between the flush and the timer, or the
\* timer is going to restore a table that lets the operator in.
LockoutArmed ==
  \A o \in Ops : \/ MaySSH(live, o)
                 \/ pc[o] \in Swapping
                 \/ timer # "off" /\ ~marker /\ snap # NoTable /\ MaySSH(snap, o)

\* Nobody stays locked out by an install.
LockoutRecovers == \A o \in Ops : ~MaySSH(live, o) ~> MaySSH(live, o)

\* What `allowlist remove` brings back is the config from before the feature: no
\* sequence of installs, failures, removals and reboots overwrites it - until a
\* removal meets a backup that nft refuses.  It deletes that backup and keeps the
\* installed config, which the next install takes for the original.
BackupIsOriginal == bak \in {NoTable, BaseTable} \/ refused

\* Re-exposing the registry line by line, each line re-registering itself, ends
\* with the registry and the chain the install found.
ReexposeKeepsPolicies ==
  [][\A o \in Ops : Reexpose(o) /\ todo'[o] = {} => newest' = seen[o] /\ ExposedAsRegistered']_vars

\* A committed install still lets its operator in after a reboot: what was
\* verified in the kernel is what the boot config holds.
CommitSurvivesReboot == \A o \in Ops : At(o, "committed") => MaySSH(conf, o)

\* Restoring the snapshot never takes away access that was there before it, nor
\* any that there was when the snapshot was taken.
RollbackOnlyAdmits ==
  [][\A a \in Admins :
       Rollback /\ ~marker /\ (MaySSH(live, a) \/ (snap # NoTable /\ MaySSH(snap, a)))
         => MaySSH(live', a)]_vars

-------------------------------------------------------------------------------
(* A claim of the documentation that the code does not keep                *)

\* docs/commands.md:300, when the new connection fails the "auto-rollback
\* restores the previous firewall": after it has run, a reboot (which loads the
\* boot config) lets the rejected operator in too.
RollbackSurvivesReboot ==
  [][\A o \in Ops : Rollback /\ At(o, "rejected") => MaySSH(conf, o)]_vars
===============================================================================
