------------------------- MODULE FirewallInstallProofs -------------------------
(***************************************************************************)
(* Proofs about FirewallInstall: type correctness and the original config  *)
(* for every number of faults; no lockout without a pending rollback, the  *)
(* commit before the reboot and the policies given back for the faults     *)
(* named in each theorem.                                                  *)
(***************************************************************************)
EXTENDS FirewallInstall, FirewallProofs

-------------------------------------------------------------------------------
(* Type correctness                                                        *)

\* Flushing and loading tables give tables.
LEMMA LoadTable ==
  ASSUME NEW t \in Table, NEW c \in Table
  PROVE  FlushRules(t) \in Table /\ LoadFile(t, c) \in Table
  BY DEF FlushRules, LoadFile, Table

LEMMA WantTable ==
  ASSUME InstallTypeOK, NEW o \in Ops
  PROVE  AllowlistTable(want[o]) \in Table
<1>1. want[o] \in [profile : Profile, admin : SUBSET Admins]
  BY DEF InstallTypeOK, Config, Profile
<1>. QED
  BY <1>1, ConfigTables

LEMMA ReloadedTable == ASSUME InstallTypeOK PROVE Reloaded \in Table
  BY LoadTable DEF Reloaded, InstallTypeOK, NodeTypeOK

LEMMA InstallInitType == InstallInit => InstallTypeOK
<1>. SUFFICES ASSUME InstallInit PROVE InstallTypeOK
  OBVIOUS
<1>1. /\ live \in Table /\ conf \in Table /\ bak \in Table \cup {NoTable}
      /\ snap \in Table \cup {NoTable}
      /\ elems \subseteq Admins /\ registry \subseteq Lines
      /\ newest \in [Port -> Lines \cup {NoLine}]
      /\ stateFile \in {"missing", "fresh"} /\ units \subseteq {"allowlist", "state"}
  <2>1. CASE Hardened
    BY <2>1, ConfigTables DEF Hardened
  <2>2. CASE Installed
    <3>1. elems \subseteq Admins /\ newest \in LastLines(registry)
      BY <2>2 DEF Installed
    <3>2. newest \in [Port -> Lines \cup {NoLine}]
      BY <3>1 DEF LastLines
    <3>3. AllowlistTable([profile |-> "normal", admin |-> elems]) \in Table
      BY <3>1, ConfigTables DEF Profile
    <3>4. InForce(newest) \subseteq Lines
      BY <3>2 DEF InForce, RulesOf
    <3>5. live \in Table
      BY <2>2, <3>3, <3>4 DEF Installed, Table
    <3>. QED
      BY <2>2, <3>2, <3>5, ConfigTables DEF Installed
  <2>. QED
    BY <2>1, <2>2 DEF InstallInit
<1>2. [profile |-> "normal", admin |-> {}] \in Config
  BY DEF Config
<1>3. /\ timer = "off" /\ marker = FALSE /\ refused = FALSE /\ report = "ok"
      /\ pc = [o \in Ops |-> "idle"]
      /\ want = [o \in Ops |-> [profile |-> "normal", admin |-> {}]]
      /\ todo = [o \in Ops |-> {}]
      /\ seen = [o \in Ops |-> [p \in Port |-> NoLine]]
  BY DEF InstallInit
<1>. QED
  BY <1>1, <1>2, <1>3 DEF InstallTypeOK, NodeTypeOK, Before

\* The command's own steps.
LEMMA SessionType ==
  ASSUME InstallTypeOK, NEW o \in Ops, Session(o)
  PROVE  InstallTypeOK'
<1>. USE DEF Go, At, Before, Swapping, After, Over
<1>1. CASE Snapshot(o)
  <2>1. want[o].admin \subseteq Admins
    BY DEF InstallTypeOK, Config
  <2>2. bak' \in Table \cup {NoTable} /\ snap' \in Table
    BY <1>1 DEF Snapshot, InstallTypeOK, NodeTypeOK
  <2>3. pc' \in [Ops -> Before \cup Swapping \cup After \cup Over]
    BY <1>1 DEF Snapshot, InstallTypeOK
  <2>4. elems' \subseteq Admins /\ UNCHANGED <<live, conf, registry, newest, stateFile, units, report>>
    BY <1>1, <2>1 DEF Snapshot
  <2>5. UNCHANGED <<timer, marker, refused, want, todo, seen>>
    BY <1>1 DEF Snapshot
  <2>6. NodeTypeOK'
    BY <2>4 DEF InstallTypeOK, NodeTypeOK
  <2>. QED
    BY <2>2, <2>3, <2>5, <2>6 DEF InstallTypeOK
<1>2. CASE FlushTable(o)
  BY <1>2, LoadTable DEF FlushTable, InstallTypeOK, NodeTypeOK, rollbackVars
<1>3. CASE LoadConf(o)
  <2>1. LoadFile(live, AllowlistTable(want[o])) \in Table /\ Reloaded \in Table
    BY LoadTable, WantTable, ReloadedTable DEF InstallTypeOK, NodeTypeOK
  <2>2. live' \in Table
    BY <1>3, <2>1 DEF LoadConf
  <2>3. pc' \in [Ops -> Before \cup Swapping \cup After \cup Over]
    BY <1>3 DEF LoadConf, InstallTypeOK
  <2>4. NodeTypeOK'
    BY <1>3, <2>2 DEF LoadConf, InstallTypeOK, NodeTypeOK
  <2>. QED
    BY <1>3, <2>3, <2>4 DEF LoadConf, InstallTypeOK, rollbackVars
<1>4. CASE Arm(o)
  BY <1>4, WantTable DEF Arm, InstallTypeOK, NodeTypeOK
<1>5. CASE InstallUnits(o)
  BY <1>5 DEF InstallUnits, InstallTypeOK, NodeTypeOK, rollbackVars
<1>6. CASE Seed(o)
  <2>1. NodeTypeOK'
    BY <1>6, UpdaterType DEF Seed, InstallTypeOK
  <2>. QED
    BY <1>6, <2>1 DEF Seed, InstallTypeOK, rollbackVars
<1>7. CASE ReadRegistry(o)
  BY <1>7 DEF ReadRegistry, InstallTypeOK, NodeTypeOK, rollbackVars, nodeVars
<1>8. CASE Reexpose(o)
  <2>1. PICK l \in todo[o] : AllowlistExposePort(l) /\ todo' = [todo EXCEPT ![o] = @ \ {l}]
    BY <1>8 DEF Reexpose, NextLines
  <2>2. l \in Lines
    BY <2>1 DEF InstallTypeOK
  <2>3. NodeTypeOK'
    BY <2>1, <2>2, ExposedTable
       DEF AllowlistExposePort, InstallTypeOK, NodeTypeOK, Dump, Register
  <2>. QED
    BY <1>8, <2>1, <2>3 DEF Reexpose, InstallTypeOK, rollbackVars
<1>9. CASE Verify(o)
  BY <1>9 DEF Verify, InstallTypeOK, NodeTypeOK, rollbackVars, nodeVars
<1>10. CASE CommitAllowlist(o)
  BY <1>10 DEF CommitAllowlist, InstallTypeOK, NodeTypeOK, nodeVars
<1>. QED
  BY <1>1, <1>2, <1>3, <1>4, <1>5, <1>6, <1>7, <1>8, <1>9, <1>10 DEF Session

LEMMA NodeStepType == ASSUME NodeTypeOK, NodeStep PROVE NodeTypeOK'
  BY StepType DEF NodeNext

LEMMA InstallStepType ==
  ASSUME InstallTypeOK, [InstallNext]_vars PROVE InstallTypeOK'
<1>. USE DEF Before, Swapping, After, Over
<1>1. ASSUME NEW o \in Ops, NEW c \in Config, Connect(o, c) PROVE InstallTypeOK'
  BY <1>1 DEF Connect, InstallTypeOK, NodeTypeOK, nodeVars, rollbackVars, Go
<1>2. ASSUME NEW o \in Ops, Session(o) PROVE InstallTypeOK'
  BY <1>2, SessionType
<1>3. ASSUME NEW o \in Ops, Crash(o) PROVE InstallTypeOK'
  BY <1>3 DEF Crash, InstallTypeOK, NodeTypeOK, nodeVars, rollbackVars, Go
<1>4. ASSUME NEW o \in Ops, RemoveAllowlist(o) PROVE InstallTypeOK'
  <2>1. CASE RestoreBackup \/ KeepConf
    BY <1>4, <2>1 DEF RemoveAllowlist, RestoreBackup, KeepConf, ClearFirewall,
                      InstallTypeOK, NodeTypeOK, installVars
  <2>2. CASE RestoreFails
    BY <1>4, <2>2, LoadTable DEF RemoveAllowlist, RestoreFails, InstallTypeOK, NodeTypeOK, installVars
  <2>. QED
    BY <1>4, <2>1, <2>2 DEF RemoveAllowlist
<1>5. CASE WindowElapses
  BY <1>5 DEF WindowElapses, InstallTypeOK, NodeTypeOK, nodeVars, installVars
<1>6. CASE Rollback
  BY <1>6, ReloadedTable DEF Rollback, InstallTypeOK, NodeTypeOK, installVars
<1>7. CASE RebootNode
  BY <1>7 DEF RebootNode, InstallTypeOK, NodeTypeOK
<1>8. CASE NodeStep /\ UNCHANGED <<rollbackVars, installVars>>
  <2>1. NodeTypeOK'
    BY <1>8, NodeStepType DEF InstallTypeOK
  <2>. QED
    BY <1>8, <2>1 DEF InstallTypeOK, rollbackVars, installVars
<1>9. CASE UNCHANGED vars
  BY <1>9 DEF vars, nodeVars, rollbackVars, installVars, InstallTypeOK, NodeTypeOK
<1>. QED
  BY <1>1, <1>2, <1>3, <1>4, <1>5, <1>6, <1>7, <1>8, <1>9 DEF InstallNext, InstallStep, Removal

\* Every step of an install, whatever fails in it, leaves the state well-formed.
THEOREM InstallTypeCorrect == InstallSpec => []InstallTypeOK
  BY InstallInitType, InstallStepType, PTL DEF InstallSpec

-------------------------------------------------------------------------------
(* What the node does by itself never takes access away                    *)

\* u lets in whoever t lets in.
Admits(u, t) == t.rules \subseteq u.rules /\ t.admin \subseteq u.admin

LEMMA AdmitsSSH ==
  ASSUME NEW t, NEW u, Admits(u, t), NEW a, MaySSH(t, a)
  PROVE  MaySSH(u, a)
  BY DEF Admits, MaySSH

LEMMA LoadAdmits ==
  ASSUME NEW t, NEW c
  PROVE  Admits(LoadFile(t, c), t) /\ Admits(LoadFile(t, c), c)
  BY DEF Admits, LoadFile

\* A step that admits whoever is admitted, and may dump the table.
AdmittingStep == Admits(live', live) /\ (conf' = conf \/ conf' = live')

LEMMA UpdaterAdmits ==
  ASSUME NodeTypeOK, NEW user, NEW n \in Fetch, Updater(user, n)
  PROVE  AdmittingStep
<1>1. live \in Table /\ elems \subseteq Admins
  BY DEF NodeTypeOK
<1>2. live'.rules = live.rules /\ live.admin \subseteq live'.admin
  BY <1>1, HealedKeeps, RefreshedKeeps DEF Updater
<1>. QED
  BY <1>2 DEF Updater, AdmittingStep, Admits, Dump

LEMMA WatchAdmits ==
  ASSUME NodeTypeOK, NEW n \in Fetch, WatchRun(n)
  PROVE  AdmittingStep
<1>1. CASE WatchRepairs(n)
  BY <1>1, RestoredKeeps DEF WatchRepairs, WatchRun, AdmittingStep, Admits, Dump
<1>2. CASE WatchFails(n)
  <2>1. /\ WithSets \in Table /\ elems \subseteq Admins
        /\ WithSets.rules = live.rules /\ WithSets.admin = live.admin
    BY DEF WithSets, Table, NodeTypeOK
  <2>2. live'.rules = live.rules /\ live.admin \subseteq live'.admin
    BY <1>2, <2>1, HealedKeeps DEF WatchFails
  <2>. QED
    BY <1>2, <2>2 DEF WatchFails, WatchRun, AdmittingStep, Admits
<1>3. CASE WatchFindsNothing
  BY <1>3 DEF WatchFindsNothing, WatchRun, AdmittingStep, Admits
<1>. QED
  BY <1>1, <1>2, <1>3 DEF WatchRun

LEMMA ExposeAdmits ==
  ASSUME NodeTypeOK, NEW l \in Lines, AllowlistExposePort(l)
  PROVE  AdmittingStep
  BY DEF AllowlistExposePort, Exposed, NodeTypeOK, Table, AdmittingStep, Admits, Dump

LEMMA NodeAdmits ==
  ASSUME NodeTypeOK, NodeStep,
         Losses = {}, "admin" \notin Edits, "harden" \notin Edits
  PROVE  AdmittingStep
<1>1. CASE DailyRefresh \/ RefreshAllowlist
  BY <1>1, UpdaterAdmits DEF DailyRefresh, RefreshAllowlist
<1>2. CASE StateAges
  BY <1>2 DEF StateAges, AdmittingStep, Admits
<1>3. CASE Watch
  BY <1>3, WatchAdmits DEF Watch
<1>4. CASE Edit
  <2>1. ASSUME NEW p \in Port, AllowlistUnexposePort(p) PROVE AdmittingStep
    BY <2>1 DEF AllowlistUnexposePort, NodeTypeOK, Table, AdmittingStep, Admits, Dump
  <2>2. ASSUME NEW q \in Peers, ExposePeerPortDirect(q) PROVE AdmittingStep
    BY <2>2 DEF ExposePeerPortDirect, NodeTypeOK, Table, AdmittingStep, Admits, Dump
  <2>3. ASSUME InstallStateWatch \/ RemoveStateWatch PROVE AdmittingStep
    BY <2>3 DEF InstallStateWatch, RemoveStateWatch, AdmittingStep, Admits
  <2>. QED
    BY <1>4, <2>1, <2>2, <2>3, ExposeAdmits DEF Edit
<1>5. CASE Loss
  BY <1>5 DEF Loss
<1>. QED
  BY <1>1, <1>2, <1>3, <1>4, <1>5 DEF NodeStep

-------------------------------------------------------------------------------
(* One operator is never locked out without a rollback pending             *)

Saved(o) == snap # NoTable /\ MaySSH(snap, o)

\* The strengthening: from the flush on the snapshot lets the operator in, a
\* verified command has access to lose nothing by disarming, and the config
\* `allowlist remove` will restore lets the operator in too.
LockOf(o) ==
  /\ MaySSH(live, o) \/ pc[o] \in Swapping \/ (timer # "off" /\ ~marker /\ Saved(o))
  /\ pc[o] \in {"snapped"} \cup Swapping \cup After => Saved(o)
  /\ pc[o] \in {"connected", "snapped", "verified"} => MaySSH(live, o)
  /\ bak # NoTable => MaySSH(bak, o)
  /\ bak = NoTable => /\ snap = NoTable /\ MaySSH(conf, o)
                      /\ pc[o] \in {"idle", "connected"} \cup Over

LockInv == InstallTypeOK /\ \A o \in Ops : LockOf(o)

LEMMA InitLock == InstallInit => LockInv
<1>. SUFFICES ASSUME InstallInit PROVE LockInv
  OBVIOUS
<1>1. InstallTypeOK
  BY InstallInitType
<1>2. ASSUME NEW o \in Ops PROVE LockOf(o)
  <2>1. pc[o] = "idle"
    BY DEF InstallInit
  <2>2. \A t : "base" \in t.rules \/ "normal" \in t.rules => MaySSH(t, o)
    BY DEF MaySSH
  <2>3. CASE Hardened
    BY <2>1, <2>2, <2>3 DEF Hardened, BaseTable, LockOf, Swapping, After
  <2>4. CASE Installed
    <3>1. live.rules = {"normal"} /\ bak = BaseTable
      BY <2>4 DEF Installed, AllowlistTable
    <3>. QED
      BY <2>1, <2>2, <3>1, ConfigTables, NoTableAssumption
         DEF BaseTable, LockOf, Swapping, After
  <2>. QED
    BY <2>3, <2>4 DEF InstallInit
<1>. QED
  BY <1>1, <1>2 DEF LockInv

\* A step of the node that moves neither the command nor the rollback.
LEMMA AdmittingLock ==
  ASSUME LockInv, NEW o \in Ops, AdmittingStep, UNCHANGED <<rollbackVars, pc>>
  PROVE  LockOf(o)'
<1>. USE DEF LockInv, LockOf, Saved, rollbackVars, Swapping, After, Over
<1>1. MaySSH(live, o) => MaySSH(live', o)
  BY AdmitsSSH DEF AdmittingStep
<1>2. bak = NoTable => MaySSH(live, o) /\ MaySSH(conf, o)
  OBVIOUS
<1>3. bak = NoTable => MaySSH(conf', o)
  BY <1>1, <1>2 DEF AdmittingStep
<1>. QED
  BY <1>1, <1>3

LEMMA SessionLock ==
  ASSUME LockInv, NEW o \in Ops, Session(o), "armFails" \notin Faults
  PROVE  LockOf(o)'
<1>. USE DEF At, Go, Swapping, After, Over
<1>0. /\ LockOf(o) /\ live \in Table /\ NodeTypeOK
      /\ pc \in [Ops -> Before \cup Swapping \cup After \cup Over]
  BY DEF LockInv, InstallTypeOK, NodeTypeOK
<1>1. CASE Snapshot(o)
  <2>1. /\ pc[o] = "connected" /\ pc'[o] \in {"snapped", "failed"}
        /\ snap' = live /\ live' = live /\ UNCHANGED <<timer, marker>>
    BY <1>0, <1>1 DEF Snapshot
  <2>2. Saved(o)' /\ MaySSH(live', o)
    BY <1>0, <2>1, NoTableAssumption DEF LockOf, Saved
  <2>3. bak' # NoTable /\ MaySSH(bak', o)
    BY <1>0, <1>1, NoTableAssumption DEF Snapshot, LockOf, NodeTypeOK
  <2>. QED
    BY <2>1, <2>2, <2>3 DEF LockOf
<1>2. CASE FlushTable(o)
  BY <1>0, <1>2 DEF FlushTable, LockOf, Saved, rollbackVars
<1>3. CASE LoadConf(o)
  <2>1. Saved(o) /\ UNCHANGED <<rollbackVars, conf>> /\ pc[o] = "flushed"
    BY <1>0, <1>3 DEF LoadConf, LockOf
  <2>2. bak' # NoTable /\ MaySSH(bak', o)
    BY <1>0, <2>1 DEF LockOf, rollbackVars
  <2>3. CASE pc' = [pc EXCEPT ![o] = "loaded"]
    BY <1>0, <2>1, <2>2, <2>3 DEF LockOf, Saved, rollbackVars
  <2>4. CASE live' = Reloaded /\ pc' = [pc EXCEPT ![o] = "failed"]
    <3>1. MaySSH(live', o)
      BY <2>1, <2>4, LoadAdmits, AdmitsSSH DEF Reloaded, Saved
    <3>. QED
      BY <1>0, <2>1, <2>2, <2>4, <3>1 DEF LockOf
  <2>. QED
    BY <1>3, <2>3, <2>4 DEF LoadConf
<1>4. CASE Arm(o)
  <2>1. timer' # "off" /\ marker' = FALSE
    BY <1>4 DEF Arm
  <2>. QED
    BY <1>0, <1>4, <2>1 DEF Arm, LockOf, Saved
<1>5. CASE InstallUnits(o)
  BY <1>0, <1>5 DEF InstallUnits, LockOf, Saved, rollbackVars
<1>6. CASE Seed(o)
  <2>1. AdmittingStep
    BY <1>0, <1>6, UpdaterAdmits DEF Seed
  <2>2. MaySSH(live, o) => MaySSH(live', o)
    BY <2>1, AdmitsSSH DEF AdmittingStep
  <2>3. pc[o] = "installed" /\ pc'[o] \in {"seeded", "failed"} /\ UNCHANGED rollbackVars
    BY <1>0, <1>6 DEF Seed
  <2>. QED
    BY <1>0, <2>2, <2>3 DEF LockOf, Saved, rollbackVars
<1>7. CASE ReadRegistry(o)
  BY <1>0, <1>7 DEF ReadRegistry, LockOf, Saved, rollbackVars, nodeVars
<1>8. CASE Reexpose(o)
  <2>1. PICK l \in todo[o] : AllowlistExposePort(l)
    BY <1>8 DEF Reexpose, NextLines
  <2>2. l \in Lines
    BY DEF LockInv, InstallTypeOK
  <2>3. AdmittingStep
    BY <1>0, <2>1, <2>2, ExposeAdmits
  <2>. QED
    BY <1>8, <2>3, AdmittingLock DEF Reexpose
<1>9. CASE Verify(o)
  BY <1>0, <1>9 DEF Verify, LockOf, Saved, rollbackVars, nodeVars
<1>10. CASE CommitAllowlist(o)
  BY <1>0, <1>10 DEF CommitAllowlist, LockOf, Saved, nodeVars
<1>. QED
  BY <1>1, <1>2, <1>3, <1>4, <1>5, <1>6, <1>7, <1>8, <1>9, <1>10 DEF Session

LEMMA LockStep ==
  ASSUME NEW op, Ops = {op}, Losses = {}, "admin" \notin Edits, "harden" \notin Edits,
         {"armFails", "reboot", "badBackup", "restoreFails"} \cap Faults = {},
         LockInv, [InstallNext]_vars
  PROVE  LockInv'
<1>. USE DEF Swapping, After, Over
<1>0. /\ op \in Ops /\ LockOf(op) /\ NodeTypeOK /\ InstallTypeOK'
      /\ pc \in [Ops -> Before \cup Swapping \cup After \cup Over]
  BY InstallStepType DEF LockInv, InstallTypeOK
<1>1. SUFFICES LockOf(op)'
  BY <1>0 DEF LockInv
<1>2. ASSUME NEW c \in Config, Connect(op, c) PROVE LockOf(op)'
  BY <1>0, <1>2 DEF Connect, LockOf, Saved, rollbackVars, nodeVars, Go
<1>3. ASSUME Session(op) PROVE LockOf(op)'
  BY <1>0, <1>3, SessionLock
<1>4. ASSUME Crash(op) PROVE LockOf(op)'
  BY <1>0, <1>4 DEF Crash, LockOf, Saved, rollbackVars, nodeVars, Go
<1>5. ASSUME RemoveAllowlist(op) PROVE LockOf(op)'
  BY <1>0, <1>5 DEF RemoveAllowlist, RestoreBackup, KeepConf, RestoreFails, ClearFirewall,
                    LockOf, Saved, installVars
<1>6. CASE WindowElapses
  BY <1>0, <1>6 DEF WindowElapses, LockOf, Saved, nodeVars, installVars
<1>7. CASE Rollback
  <2>1. timer # "off" /\ timer' = "off" /\ UNCHANGED <<bak, snap, marker, conf, pc>>
    BY <1>7 DEF Rollback, installVars
  <2>2. MaySSH(live, op) => MaySSH(live', op)
    BY <1>7, LoadAdmits, AdmitsSSH DEF Rollback, Reloaded
  <2>3. ~marker /\ Saved(op) => MaySSH(live', op)
    BY <1>7, LoadAdmits, AdmitsSSH DEF Rollback, Reloaded, Saved
  <2>. QED
    BY <1>0, <2>1, <2>2, <2>3 DEF LockOf, Saved
<1>8. CASE NodeStep /\ UNCHANGED <<rollbackVars, installVars>>
  BY <1>0, <1>8, NodeAdmits, AdmittingLock DEF installVars
<1>9. CASE UNCHANGED vars
  BY <1>0, <1>9 DEF vars, nodeVars, rollbackVars, installVars, LockOf, Saved
<1>. QED
  BY <1>0, <1>2, <1>3, <1>4, <1>5, <1>6, <1>7, <1>8, <1>9 DEF InstallNext, InstallStep, Removal, RebootNode

\* A single operator, whatever profile is installed, however the command dies,
\* the script fails or the window elapses early: locked out only with a rollback
\* pending that lets the operator in again.  A removal whose backup nft refuses, or
\* fails to load, has no rollback: it is ruled out here.
THEOREM LockoutAlwaysArmed ==
  ASSUME NEW op, Ops = {op}, Losses = {}, "admin" \notin Edits, "harden" \notin Edits,
         {"armFails", "reboot", "badBackup", "restoreFails"} \cap Faults = {}
  PROVE  InstallSpec => []LockoutArmed
<1>1. LockInv /\ [InstallNext]_vars => LockInv'
  BY LockStep
<1>2. LockInv => LockoutArmed
  BY DEF LockInv, LockOf, LockoutArmed, Saved
<1>. QED
  BY <1>1, <1>2, InitLock, PTL DEF InstallSpec

-------------------------------------------------------------------------------
(* The config from before the feature is never overwritten                 *)

\* While there is no backup the boot config is still the original: nothing that
\* dumps the table is installed, and no command is past its snapshot.
BackupInv ==
  /\ InstallTypeOK
  /\ BackupIsOriginal
  /\ bak = NoTable /\ ~refused =>
       /\ conf = BaseTable /\ units = {}
       /\ \A o \in Ops : pc[o] \in {"idle", "connected"} \cup Over

\* Without edits nothing but the refresh timer's script dumps the table, and
\* nothing but an install adds the timer.
LEMMA NodeBackup ==
  ASSUME NodeStep, Losses = {}, Edits \subseteq {"remove"}
  PROVE  units' = units /\ (units = {} => conf' = conf)
<1>1. CASE DailyRefresh \/ RefreshAllowlist
  BY <1>1 DEF DailyRefresh, RefreshAllowlist, Updater
<1>2. CASE StateAges
  BY <1>2 DEF StateAges
<1>3. CASE Watch
  BY <1>3 DEF Watch, WatchRun
<1>4. CASE Edit
  BY <1>4 DEF Edit
<1>5. CASE Loss
  BY <1>5 DEF Loss
<1>. QED
  BY <1>1, <1>2, <1>3, <1>4, <1>5 DEF NodeStep

LEMMA BackupStep ==
  ASSUME NEW op, Ops = {op}, Losses = {}, Edits \subseteq {"remove"},
         BackupInv, [InstallNext]_vars
  PROVE  BackupInv'
<1>. USE DEF BackupInv, BackupIsOriginal, Over
<1>0. /\ op \in Ops /\ InstallTypeOK' /\ BaseTable # NoTable
      /\ pc \in [Ops -> Before \cup Swapping \cup After \cup Over]
  BY InstallStepType, ConfigTables, NoTableAssumption DEF InstallTypeOK
<1>1. ASSUME NEW c \in Config, Connect(op, c) PROVE BackupInv'
  BY <1>0, <1>1 DEF Connect, rollbackVars, nodeVars, Go
<1>2. ASSUME Snapshot(op) PROVE BackupInv'
  BY <1>0, <1>2 DEF Snapshot, Go
<1>3. ASSUME Session(op), ~Snapshot(op) PROVE BackupInv'
  <2>1. pc[op] \in {"snapped", "flushed", "loaded", "armed", "installed",
                    "seeded", "reexposed", "verified"}
    BY <1>3 DEF Session, FlushTable, LoadConf, Arm, InstallUnits, Seed, ReadRegistry,
                Reexpose, Verify, CommitAllowlist, At
  <2>2. bak' = bak /\ refused' = refused
    BY <1>3 DEF Session, FlushTable, LoadConf, Arm, InstallUnits, Seed, ReadRegistry,
                Reexpose, Verify, CommitAllowlist, rollbackVars
  <2>. QED
    BY <1>0, <2>1, <2>2
<1>4. ASSUME Crash(op) PROVE BackupInv'
  BY <1>0, <1>4 DEF Crash, rollbackVars, nodeVars, Go
<1>5. ASSUME RemoveAllowlist(op) PROVE BackupInv'
  BY <1>0, <1>5 DEF RemoveAllowlist, RestoreBackup, KeepConf, RestoreFails, ClearFirewall, installVars
<1>6. CASE WindowElapses \/ Rollback
  BY <1>0, <1>6 DEF WindowElapses, Rollback, nodeVars, installVars
<1>7. CASE RebootNode
  BY <1>0, <1>7 DEF RebootNode
<1>8. CASE NodeStep /\ UNCHANGED <<rollbackVars, installVars>>
  BY <1>0, <1>8, NodeBackup DEF rollbackVars, installVars
<1>9. CASE UNCHANGED vars
  BY <1>0, <1>9 DEF vars, nodeVars, rollbackVars, installVars
<1>. QED
  BY <1>0, <1>1, <1>2, <1>3, <1>4, <1>5, <1>6, <1>7, <1>8, <1>9 DEF InstallNext, InstallStep, Removal

\* No sequence of installs that fail anywhere, die, roll back or are cut short by
\* a reboot, and of removals, loses the config `allowlist remove` restores, until a
\* removal meets a backup that nft refuses.
THEOREM BackupKept ==
  ASSUME NEW op, Ops = {op}, Losses = {}, Edits \subseteq {"remove"}
  PROVE  InstallSpec => []BackupIsOriginal
<1>1. InstallInit => BackupInv
  <2>. SUFFICES ASSUME InstallInit PROVE BackupInv
    OBVIOUS
  <2>1. InstallTypeOK /\ BaseTable # NoTable
    BY InstallInitType, ConfigTables, NoTableAssumption
  <2>. QED
    BY <2>1 DEF InstallInit, Hardened, Installed, BackupInv, BackupIsOriginal
<1>2. BackupInv /\ [InstallNext]_vars => BackupInv'
  BY BackupStep
<1>3. BackupInv => BackupIsOriginal
  BY DEF BackupInv
<1>. QED
  BY <1>1, <1>2, <1>3, PTL DEF InstallSpec

-------------------------------------------------------------------------------
\* Whatever has happened before, a rollback admits whoever was admitted before
\* the install or just before the rollback.
THEOREM RollbackAdmits == InstallSpec => RollbackOnlyAdmits
<1>1. ASSUME NEW a \in Admins, Rollback, ~marker,
             MaySSH(live, a) \/ (snap # NoTable /\ MaySSH(snap, a))
      PROVE  MaySSH(live', a)
  BY <1>1, LoadAdmits, AdmitsSSH DEF Rollback, Reloaded
<1>2. [InstallNext]_vars =>
        [\A a \in Admins :
           Rollback /\ ~marker /\ (MaySSH(live, a) \/ (snap # NoTable /\ MaySSH(snap, a)))
             => MaySSH(live', a)]_vars
  BY <1>1
<1>. QED
  BY <1>2, PTL DEF InstallSpec, RollbackOnlyAdmits
-------------------------------------------------------------------------------
(* What was committed is what a reboot loads                               *)

\* Nothing is left for the script to heal, so it changes no one's access.
Settled == live.sets /\ \A f \in Emptied(live) : ListedAlone(f) = {}

\* Where there is no backup nothing dumps the table, no rollback is pending, and who
\* is connected would be after a reboot.
UnsavedOf(o) ==
  /\ live = conf /\ units = {} /\ timer = "off"
  /\ pc[o] \in {"idle", "connected"} \cup Over
  /\ pc[o] = "connected" => MaySSH(conf, o)

SavedOf(o) == IF bak = NoTable THEN UnsavedOf(o) ELSE MaySSH(bak, o)

\* Once a removal's restore has failed access is gone, but so is what dumps the table.
CommitOf(o) ==
  /\ pc[o] \in {"connected", "snapped", "committed"} \cup Swapping => timer = "off"
  /\ pc[o] \in After => timer # "due"
  /\ pc[o] \in {"seeded", "reexposed", "verified"} =>
       Settled /\ (MaySSH(live, o) => MaySSH(conf, o))
  /\ pc[o] = "verified" => MaySSH(live, o)
  /\ pc[o] = "committed" => MaySSH(conf, o) /\ (MaySSH(live, o) \/ units = {})

CommitInv == /\ InstallTypeOK /\ units \subseteq {"allowlist"}
             /\ \A o \in Ops : SavedOf(o) /\ CommitOf(o)

\* What the script has healed it heals no further.
LEMMA HealedSettles ==
  ASSUME NEW t \in Table, t.sets, NEW f \in Family, Healed(t).admin \cap OfFamily(f) = {}
  PROVE  ListedAlone(f) = {}
<1> DEFINE gain == UNION {ListedAlone(g) : g \in Emptied(t)}
<1>1. Healed(t).admin = t.admin \cup gain
  BY DEF Healed, Table
<1>2. f \in Emptied(t)
  BY <1>1 DEF Emptied
<1>3. ListedAlone(f) \subseteq gain /\ ListedAlone(f) \subseteq OfFamily(f)
  BY <1>2 DEF ListedAlone
<1> QED
  BY <1>1, <1>3

LEMMA SettledHeals ==
  ASSUME NodeTypeOK, Settled
  PROVE  Healed(live).admin = live.admin
<1> DEFINE gain == UNION {ListedAlone(g) : g \in Emptied(live)}
<1>1. Healed(live).admin = live.admin \cup gain
  BY DEF Healed, Settled, NodeTypeOK, Table
<1>2. gain = {}
  BY DEF Settled
<1> QED
  BY <1>1, <1>2

LEMMA SettledKept ==
  ASSUME Settled, live'.sets = live.sets, live'.admin = live.admin, elems' = elems
  PROVE  Settled'
  BY DEF Settled, Emptied, ListedAlone

\* What the node does by itself leaves what is settled, and who may enter, as it is.
LEMMA NodeCommit ==
  ASSUME NodeTypeOK, NodeStep, Losses = {}, Edits \subseteq {"remove"},
         units \subseteq {"allowlist"}
  PROVE  /\ units' = units /\ AdmittingStep
         /\ Settled => Settled' /\ live'.rules = live.rules /\ live'.admin = live.admin
<1>1. AdmittingStep
  BY NodeAdmits
<1>2. CASE DailyRefresh \/ RefreshAllowlist
  <2>1. PICK user \in {"root", "sdkops"}, n \in Fetch : Updater(user, n)
    BY <1>2 DEF DailyRefresh, RefreshAllowlist
  <2>2. live \in Table /\ elems \subseteq Admins
    BY DEF NodeTypeOK
  <2>3. /\ live'.rules = live.rules /\ live'.sets = live.sets /\ live'.admin = Healed(live).admin
        /\ units' = units /\ elems' = elems
    BY <2>1, <2>2, HealedKeeps, RefreshedKeeps DEF Updater
  <2> QED
    BY <1>1, <2>3, SettledHeals, SettledKept
<1>3. CASE StateAges
  BY <1>1, <1>3, SettledKept DEF StateAges
<1>4. CASE Watch
  BY <1>4 DEF Watch, WatchRun
<1>5. CASE Edit
  BY <1>5 DEF Edit
<1>6. CASE Loss
  BY <1>6 DEF Loss
<1> QED
  BY <1>2, <1>3, <1>4, <1>5, <1>6 DEF NodeStep

\* What the backup holds lets the operator in, and as long as there is none nothing
\* has changed since it was connected.
LEMMA SavedStep ==
  ASSUME NEW op, Ops = {op}, Losses = {}, Edits \subseteq {"remove"},
         InstallTypeOK, units \subseteq {"allowlist"}, SavedOf(op), [InstallNext]_vars
  PROVE  SavedOf(op)'
<1>. USE DEF Over
<1>0. /\ op \in Ops /\ NodeTypeOK
      /\ pc \in [Ops -> Before \cup Swapping \cup After \cup Over]
  BY DEF InstallTypeOK
<1>1. ASSUME NEW c \in Config, Connect(op, c) PROVE SavedOf(op)'
  BY <1>0, <1>1 DEF Connect, SavedOf, UnsavedOf, rollbackVars, nodeVars, Go
<1>2. ASSUME Snapshot(op) PROVE SavedOf(op)'
  <2>1. bak' # NoTable
    BY <1>0, <1>2, NoTableAssumption DEF Snapshot, NodeTypeOK
  <2>2. MaySSH(bak', op)
    BY <1>2 DEF Snapshot, SavedOf, UnsavedOf, At
  <2>. QED
    BY <2>1, <2>2 DEF SavedOf
<1>3. ASSUME Session(op), ~Snapshot(op) PROVE SavedOf(op)'
  <2>1. pc[op] \in {"snapped", "flushed", "loaded", "armed", "installed",
                    "seeded", "reexposed", "verified"}
    BY <1>3 DEF Session, FlushTable, LoadConf, Arm, InstallUnits, Seed, ReadRegistry,
                Reexpose, Verify, CommitAllowlist, At
  <2>2. bak' = bak
    BY <1>3 DEF Session, FlushTable, LoadConf, Arm, InstallUnits, Seed, ReadRegistry,
                Reexpose, Verify, CommitAllowlist, rollbackVars
  <2>3. bak # NoTable
    BY <2>1 DEF SavedOf, UnsavedOf
  <2>. QED
    BY <2>2, <2>3 DEF SavedOf
<1>4. ASSUME Crash(op) PROVE SavedOf(op)'
  BY <1>0, <1>4 DEF Crash, SavedOf, UnsavedOf, rollbackVars, nodeVars, Go
<1>5. ASSUME RemoveAllowlist(op) PROVE SavedOf(op)'
  <2>1. CASE RestoreBackup \/ KeepConf
    BY <1>5, <2>1 DEF RemoveAllowlist, RestoreBackup, KeepConf, ClearFirewall,
                      SavedOf, UnsavedOf, installVars
  <2>2. CASE RestoreFails
    BY <2>2 DEF RestoreFails, SavedOf
  <2>. QED
    BY <1>5, <2>1, <2>2 DEF RemoveAllowlist
<1>6. CASE WindowElapses \/ Rollback
  BY <1>6 DEF WindowElapses, Rollback, SavedOf, UnsavedOf
<1>7. CASE RebootNode
  <2>1. bak = NoTable => pc'[op] \in {"idle"} \cup Over
    BY <1>0, <1>7 DEF RebootNode, SavedOf, UnsavedOf
  <2>. QED
    BY <1>7, <2>1 DEF RebootNode, SavedOf, UnsavedOf
<1>8. CASE NodeStep /\ UNCHANGED <<rollbackVars, installVars>>
  <2>1. units = {} => UNCHANGED <<live, conf, units>>
    BY <1>8 DEF NodeStep, DailyRefresh, RefreshAllowlist, StateAges, Watch, WatchRun, Edit, Loss
  <2>. QED
    BY <1>8, <2>1 DEF SavedOf, UnsavedOf, rollbackVars, installVars
<1>9. CASE UNCHANGED vars
  BY <1>9 DEF vars, nodeVars, rollbackVars, installVars, SavedOf, UnsavedOf
<1>. QED
  BY <1>0, <1>1, <1>2, <1>3, <1>4, <1>5, <1>6, <1>7, <1>8, <1>9
     DEF InstallNext, InstallStep, Removal

LEMMA SessionCommit ==
  ASSUME CommitInv, NEW o \in Ops, Session(o)
  PROVE  units' \subseteq {"allowlist"} /\ CommitOf(o)'
<1>. USE DEF At, Go, Swapping, After, Over
<1>0. /\ CommitOf(o) /\ live \in Table /\ NodeTypeOK /\ elems \subseteq Admins
      /\ units \subseteq {"allowlist"}
      /\ pc \in [Ops -> Before \cup Swapping \cup After \cup Over]
  BY DEF CommitInv, InstallTypeOK, NodeTypeOK
<1>1. CASE Snapshot(o) \/ FlushTable(o) \/ LoadConf(o)
  BY <1>0, <1>1 DEF Snapshot, FlushTable, LoadConf, rollbackVars, CommitOf
<1>2. CASE Arm(o)
  BY <1>0, <1>2 DEF Arm, CommitOf
<1>3. CASE InstallUnits(o)
  BY <1>0, <1>3 DEF InstallUnits, rollbackVars, CommitOf
<1>4. CASE Seed(o)
  <2>1. PICK m \in Fetch : /\ Updater("root", m)
                           /\ Go(o, IF live.sets /\ Enough(m) THEN "seeded" ELSE "failed")
    BY <1>4 DEF Seed
  <2>2. units' = units /\ elems' = elems /\ timer' = timer /\ pc[o] = "installed"
    BY <1>4, <2>1 DEF Seed, Updater, rollbackVars
  <2>3. CASE live.sets /\ Enough(m)
    <3>1. live'.sets /\ live'.admin = Healed(live).admin /\ conf' = live'
      BY <1>0, <2>1, <2>3, RefreshedKeeps DEF Updater, Dump
    <3>2. Settled'
      <4>1. \A f \in Family : live'.admin \cap OfFamily(f) = {} => ListedAlone(f) = {}
        BY <1>0, <2>3, <3>1, HealedSettles
      <4>2. \A f \in Emptied(live)' : ListedAlone(f)' = {}
        BY <2>2, <4>1 DEF Emptied, ListedAlone
      <4> QED
        BY <3>1, <4>2 DEF Settled
    <3> QED
      BY <1>0, <2>1, <2>2, <2>3, <3>1, <3>2 DEF CommitOf
  <2>4. CASE ~(live.sets /\ Enough(m))
    BY <1>0, <2>1, <2>2, <2>4 DEF CommitOf
  <2> QED
    BY <2>3, <2>4
<1>5. CASE ReadRegistry(o)
  BY <1>0, <1>5, SettledKept DEF ReadRegistry, CommitOf, rollbackVars, nodeVars
<1>6. CASE Reexpose(o)
  <2>1. PICK l \in todo[o] : AllowlistExposePort(l)
    BY <1>6 DEF Reexpose, NextLines
  <2>2. pc[o] = "reexposed" /\ pc' = pc /\ timer' = timer
    BY <1>6 DEF Reexpose, rollbackVars
  <2>3. /\ live'.sets = live.sets /\ live'.rules = live.rules /\ live'.admin = live.admin
        /\ elems' = elems /\ units' = units /\ (conf' = live' \/ UNCHANGED <<live, conf>>)
    BY <1>0, <2>1 DEF AllowlistExposePort, Exposed, Dump, Table
  <2>4. Settled'
    BY <1>0, <2>2, <2>3, SettledKept DEF CommitOf
  <2> QED
    BY <1>0, <2>2, <2>3, <2>4 DEF CommitOf
<1>7. CASE Verify(o)
  BY <1>0, <1>7, SettledKept DEF Verify, CommitOf, rollbackVars, nodeVars
<1>8. CASE CommitAllowlist(o)
  BY <1>0, <1>8 DEF CommitAllowlist, CommitOf, nodeVars
<1> QED
  BY <1>1, <1>2, <1>3, <1>4, <1>5, <1>6, <1>7, <1>8 DEF Session

LEMMA CommitStep ==
  ASSUME NEW op, Ops = {op}, Losses = {}, Edits \subseteq {"remove"},
         "slow" \notin Faults, "hasty" \notin Faults, CommitInv, [InstallNext]_vars
  PROVE  CommitInv'
<1>. USE DEF Swapping, After, Over
<1>0. /\ op \in Ops /\ CommitOf(op) /\ SavedOf(op) /\ NodeTypeOK
      /\ units \subseteq {"allowlist"}
      /\ pc \in [Ops -> Before \cup Swapping \cup After \cup Over]
  BY DEF CommitInv, InstallTypeOK
<1>1. InstallTypeOK' /\ SavedOf(op)'
  BY <1>0, InstallStepType, SavedStep DEF CommitInv
<1>2. SUFFICES units' \subseteq {"allowlist"} /\ CommitOf(op)'
  BY <1>1 DEF CommitInv
<1> DEFINE Goal == units' \subseteq {"allowlist"} /\ CommitOf(op)'
<1>3. ASSUME NEW c \in Config, Connect(op, c) PROVE Goal
  BY <1>0, <1>3 DEF Connect, CommitOf, rollbackVars, nodeVars, Go
<1>4. ASSUME Session(op) PROVE Goal
  BY <1>0, <1>4, SessionCommit
<1>5. ASSUME Crash(op) PROVE Goal
  BY <1>0, <1>5 DEF Crash, CommitOf, rollbackVars, nodeVars, Go
<1>6. ASSUME RemoveAllowlist(op) PROVE Goal
  <2>1. pc' = pc /\ timer' = "off" /\ pc[op] \in {"idle"} \cup Over
    BY <1>6 DEF RemoveAllowlist, installVars
  <2>2. CASE RestoreBackup \/ KeepConf
    <3>1. units' = {} /\ conf' \in {conf, bak} /\ (bak = NoTable => conf' = conf)
      BY <2>2 DEF RestoreBackup, KeepConf, ClearFirewall
    <3>2. pc[op] = "committed" => MaySSH(conf', op)
      BY <1>0, <3>1 DEF CommitOf, SavedOf
    <3>. QED
      BY <2>1, <3>1, <3>2 DEF CommitOf
  <2>3. CASE RestoreFails
    <3>1. units' = {} /\ conf' = conf
      BY <1>0, <2>3 DEF RestoreFails
    <3>. QED
      BY <1>0, <2>1, <3>1 DEF CommitOf
  <2> QED
    BY <1>6, <2>2, <2>3 DEF RemoveAllowlist
<1>7. CASE WindowElapses
  BY <1>0, <1>7, SettledKept DEF WindowElapses, CommitOf, nodeVars, installVars
<1>8. CASE Rollback
  <2>1. pc[op] \notin {"connected", "snapped", "committed"} \cup Swapping \cup After
    BY <1>0, <1>8 DEF Rollback, CommitOf
  <2> QED
    BY <1>0, <1>8, <2>1 DEF Rollback, CommitOf, installVars
<1>9. CASE RebootNode
  BY <1>0, <1>9 DEF RebootNode, CommitOf
<1>10. CASE NodeStep /\ UNCHANGED <<rollbackVars, installVars>>
  <2>1. /\ units' = units /\ AdmittingStep /\ UNCHANGED <<timer, pc>>
        /\ Settled => Settled' /\ live'.rules = live.rules /\ live'.admin = live.admin
    BY <1>0, <1>10, NodeCommit DEF rollbackVars, installVars
  <2>2. MaySSH(live, op) => MaySSH(live', op)
    BY <2>1, AdmitsSSH DEF AdmittingStep
  <2>3. Settled => (MaySSH(live', op) => MaySSH(live, op))
    BY <2>1 DEF MaySSH
  <2>4. conf' = conf \/ conf' = live'
    BY <2>1 DEF AdmittingStep
  <2>5. units = {} => conf' = conf
    BY <1>10, NodeBackup
  <2> QED
    BY <1>0, <2>1, <2>2, <2>3, <2>4, <2>5 DEF CommitOf
<1>11. CASE UNCHANGED vars
  BY <1>0, <1>11, SettledKept DEF vars, nodeVars, rollbackVars, installVars, CommitOf
<1> QED
  BY <1>0, <1>3, <1>4, <1>5, <1>6, <1>7, <1>8, <1>9, <1>10, <1>11 DEF InstallNext, InstallStep, Removal

\* A single operator whose installs and re-exposures stay within the window and do not
\* follow one another too soon: what CommitAllowlist commits, whatever was refused,
\* failed, died or rebooted before, is also what a reboot loads.
THEOREM CommitSurvives ==
  ASSUME NEW op, Ops = {op}, Losses = {}, Edits \subseteq {"remove"},
         "slow" \notin Faults, "hasty" \notin Faults
  PROVE  InstallSpec => []CommitSurvivesReboot
<1>1. InstallInit => CommitInv
  <2>. SUFFICES ASSUME InstallInit PROVE CommitInv
    OBVIOUS
  <2>1. InstallTypeOK /\ BaseTable # NoTable
    BY InstallInitType, ConfigTables, NoTableAssumption
  <2>2. units \subseteq {"allowlist"}
    BY DEF InstallInit, Hardened, Installed
  <2>3. \A o \in Ops : CommitOf(o)
    BY DEF InstallInit, CommitOf, Swapping, After
  <2>4. \A o : MaySSH(BaseTable, o)
    BY DEF MaySSH, BaseTable
  <2>5. \A o \in Ops : SavedOf(o)
    BY <2>1, <2>4 DEF InstallInit, Hardened, Installed, SavedOf, UnsavedOf
  <2>. QED
    BY <2>1, <2>2, <2>3, <2>5 DEF CommitInv
<1>2. CommitInv /\ [InstallNext]_vars => CommitInv'
  BY CommitStep
<1>3. CommitInv => CommitSurvivesReboot
  BY DEF CommitInv, CommitOf, CommitSurvivesReboot, At
<1>. QED
  BY <1>1, <1>2, <1>3, PTL DEF InstallSpec
-------------------------------------------------------------------------------
(* Re-exposing gives back the policies                                     *)

\* A port whose last line has been gone through has no line left, and is again what
\* the registry said it is.
Redone(o, p) == /\ todo[o] \cap LinesOn(p) = {}
                /\ newest[p] = seen[o][p]
                /\ RulesOn(live, p) = PolicyRules(p)

\* From the flush on no port has a rule of another policy than its own; the sets are
\* there to expose into; and no rollback comes in between.
RedoOf(o) ==
  /\ pc[o] \in {"connected", "snapped"} \cup Swapping => timer = "off"
  /\ pc[o] \in After => timer # "due"
  /\ pc[o] \in {"loaded"} \cup After => live.sets
  /\ pc[o] \in Swapping \cup After => NoStaleIn(live)
  /\ pc[o] = "reexposed" =>
       /\ seen[o] \in LastLines(registry) /\ todo[o] \subseteq registry
       /\ \A p \in Port : seen[o][p] \notin todo[o] => Redone(o, p)

RedoInv == /\ InstallTypeOK /\ newest \in LastLines(registry)
           /\ \A o \in Ops : RedoOf(o)

LEMMA LastLineOf ==
  ASSUME NEW reg \in SUBSET Lines, NEW f \in LastLines(reg), NEW p \in Port
  PROVE  /\ f[p] # NoLine => f[p] \in reg /\ f[p].port = p
         /\ f[p] = NoLine => reg \cap LinesOn(p) = {}
<1>1. IF reg \cap LinesOn(p) = {} THEN f[p] = NoLine ELSE f[p] \in reg \cap LinesOn(p)
  BY DEF LastLines
<1>. QED
  BY <1>1, NoLineAssumption DEF LinesOn

\* What the node does by itself leaves the registry as it is, and the rules of every
\* port that has them.
LEMMA NodeKeepsRules ==
  ASSUME NodeTypeOK, NodeStep, Losses = {}, "harden" \notin Edits, "ports" \notin Edits
  PROVE  /\ QuietStep /\ UNCHANGED <<registry, newest>>
         /\ live.sets => live'.sets
<1>0. live \in Table /\ elems \subseteq Admins /\ WithSets \in Table /\ WithSets.sets
  BY DEF NodeTypeOK, WithSets, Table
<1>1. CASE DailyRefresh \/ RefreshAllowlist
  <2>1. PICK user \in {"root", "sdkops"}, n \in Fetch : Updater(user, n)
    BY <1>1 DEF DailyRefresh, RefreshAllowlist
  <2>2. live'.sets = live.sets
    BY <1>0, <2>1, HealedKeeps, RefreshedKeeps DEF Updater
  <2>. QED
    BY <2>1, <2>2, UpdaterQuiet DEF Updater
<1>2. CASE StateAges
  BY <1>2 DEF StateAges, QuietStep
<1>3. CASE Watch
  <2>1. PICK n \in Fetch : WatchRun(n)
    BY <1>3 DEF Watch
  <2>2. CASE WatchRepairs(n)
    <3>1. Refreshed(WithSets, n) \in Table /\ Refreshed(WithSets, n).sets
      BY <1>0, RefreshedKeeps
    <3>2. live'.sets
      BY <2>2, <3>1 DEF WatchRepairs, Restored, Table
    <3>. QED
      BY <2>1, <3>2, WatchQuiet DEF WatchRun
  <2>3. CASE WatchFails(n)
    <3>1. live'.sets
      BY <1>0, <2>3, HealedKeeps DEF WatchFails
    <3>. QED
      BY <2>1, <3>1, WatchQuiet DEF WatchRun
  <2>4. CASE WatchFindsNothing
    BY <2>1, <2>4, WatchQuiet DEF WatchRun, WatchFindsNothing
  <2>. QED
    BY <2>1, <2>2, <2>3, <2>4 DEF WatchRun
<1>4. CASE Edit
  <2>1. ASSUME NEW a \in Admins, AllowlistAdminAdd(a) \/ AllowlistAdminRemove(a)
        PROVE  QuietStep /\ UNCHANGED <<registry, newest>> /\ live'.sets = live.sets
    BY <2>1 DEF AllowlistAdminAdd, AllowlistAdminRemove, NodeTypeOK, Dump, Table, QuietStep
  <2>2. ASSUME NEW q \in Peers, ExposePeerPortDirect(q)
        PROVE  QuietStep /\ UNCHANGED <<registry, newest>> /\ live'.sets = live.sets
    BY <2>2 DEF ExposePeerPortDirect, NodeTypeOK, Dump, Table, QuietStep
  <2>3. ASSUME InstallStateWatch \/ RemoveStateWatch
        PROVE  QuietStep /\ UNCHANGED <<registry, newest>> /\ live'.sets = live.sets
    BY <2>3 DEF InstallStateWatch, RemoveStateWatch, QuietStep
  <2>. QED
    BY <1>4, <2>1, <2>2, <2>3 DEF Edit
<1>5. CASE Loss
  BY <1>5 DEF Loss
<1>. QED
  BY <1>1, <1>2, <1>3, <1>4, <1>5 DEF NodeStep

\* A step that adds nothing but missing rules and takes none away keeps what is clean,
\* and what is complete.
LEMMA QuietKeeps ==
  ASSUME NodeTypeOK, newest \in LastLines(registry), QuietStep, live.exposed \subseteq live'.exposed, NoStaleIn(live)
  PROVE  NoStaleIn(live') /\ \A p \in Port : RulesOn(live, p) = PolicyRules(p) => RulesOn(live', p) = PolicyRules(p)'
<1>1. NewestOnPort
  BY LastLineOf DEF NewestOnPort, NodeTypeOK
<1>2. ASSUME NEW p \in Port, NEW e \in RulesOn(live', p) PROVE e \in PolicyRules(p)
  <2>1. e.port = p /\ (e \in live.exposed \/ e \in Missing)
    BY <1>2 DEF QuietStep, RulesOn
  <2>. QED
    BY <1>1, <2>1, MissingOnPolicy DEF NoStaleIn, RulesOn
<1>3. \A p \in Port : RulesOn(live, p) \subseteq RulesOn(live', p) /\ PolicyRules(p)' = PolicyRules(p)
  BY DEF RulesOn, QuietStep, PolicyRules
<1>4. \A p \in Port : RulesOn(live', p) \subseteq PolicyRules(p)
  BY <1>2
<1>. QED
  BY <1>3, <1>4 DEF NoStaleIn

\* One line, re-exposed.
LEMMA ReexposeStep ==
  ASSUME RedoInv, NEW o \in Ops, Reexpose(o)
  PROVE  RedoOf(o)' /\ newest' \in LastLines(registry') /\ registry' = registry
<1>0. /\ NodeTypeOK /\ RedoOf(o) /\ pc[o] = "reexposed" /\ UNCHANGED <<rollbackVars, pc, want, seen>>
      /\ todo \in [Ops -> SUBSET Lines] /\ registry \subseteq Lines /\ live \in Table
      /\ newest \in [Port -> Lines \cup {NoLine}]
  BY DEF RedoInv, InstallTypeOK, NodeTypeOK, Reexpose, At
<1>1. PICK l \in NextLines(o) : AllowlistExposePort(l) /\ todo' = [todo EXCEPT ![o] = todo[o] \ {l}]
  BY DEF Reexpose
<1>2. /\ seen[o] \in LastLines(registry) /\ todo[o] \subseteq registry /\ live.sets /\ NoStaleIn(live)
      /\ \A p \in Port : seen[o][p] \notin todo[o] => Redone(o, p)
  BY <1>0 DEF RedoOf, After
<1>3. l \in todo[o] /\ l \in registry /\ l \in Lines /\ l.port \in Port
      /\ (l = seen[o][l.port] => todo[o] \cap LinesOn(l.port) = {l})
  BY <1>0, <1>1, <1>2, LinePort DEF NextLines
<1>4. /\ live' = Exposed(live, l) /\ registry' = registry \cup {l} /\ newest' = [newest EXCEPT ![l.port] = l]
  BY <1>1, <1>2 DEF AllowlistExposePort, Register
<1>5. registry' = registry /\ live'.sets
  BY <1>0, <1>2, <1>3, <1>4 DEF Exposed, Table
<1>6. \A p \in Port : newest'[p] = IF p = l.port THEN l ELSE newest[p]
  BY <1>0, <1>4
<1>7. newest' \in LastLines(registry')
  <2>1. l \in registry \cap LinesOn(l.port)
    BY <1>3 DEF LinesOn
  <2>2. newest' \in [Port -> Lines \cup {NoLine}]
    BY <1>0, <1>3, <1>4
  <2>3. \A p \in Port : IF registry \cap LinesOn(p) = {} THEN newest'[p] = NoLine ELSE newest'[p] \in registry \cap LinesOn(p)
    BY <1>6, <2>1 DEF RedoInv, LastLines
  <2>. QED
    BY <1>5, <2>2, <2>3 DEF LastLines
<1>8. /\ RulesOn(live', l.port) = RulesOf(l)
      /\ \A p \in Port \ {l.port} : RulesOn(live', p) = RulesOn(live, p)
  <2>1. live'.exposed = (live.exposed \ RulesOn(live, l.port)) \cup RulesOf(l)
    BY <1>0, <1>3, <1>4, ExposedTable
  <2>. QED
    BY <2>1 DEF RulesOn, RulesOf
<1>9. /\ RulesOn(live', l.port) = PolicyRules(l.port)'
      /\ \A p \in Port \ {l.port} : PolicyRules(p)' = PolicyRules(p)
  BY <1>3, <1>6, <1>8, NoLineAssumption DEF PolicyRules
<1>10. NoStaleIn(live)'
  BY <1>2, <1>3, <1>8, <1>9 DEF NoStaleIn
<1>11. todo'[o] = todo[o] \ {l}
  BY <1>0, <1>1
<1>12. ASSUME NEW p \in Port, seen[o][p] \notin todo'[o] PROVE Redone(o, p)'
  <2>1. CASE p = l.port
    <3>1. seen[o][p] = l
      <4>1. seen[o][p] \notin todo[o] => todo[o] \cap LinesOn(p) = {}
        BY <1>2 DEF Redone
      <4>2. l \in todo[o] \cap LinesOn(p)
        BY <1>3, <2>1 DEF LinesOn
      <4>. QED
        BY <1>11, <1>12, <4>1, <4>2
    <3>2. todo'[o] \cap LinesOn(p) = {}
      BY <1>3, <1>11, <2>1, <3>1
    <3>. QED
      BY <1>0, <1>6, <1>9, <2>1, <3>1, <3>2 DEF Redone, LinesOn
  <2>2. CASE p # l.port
    <3>1. l \notin LinesOn(p)
      BY <2>2 DEF LinesOn
    <3>2. seen[o][p] \notin todo[o]
      <4>1. seen[o][p] # NoLine => seen[o][p].port = p
        BY <1>0, <1>2, LastLineOf
      <4>2. seen[o][p] # l
        BY <1>3, <2>2, <4>1, NoLineAssumption
      <4>. QED
        BY <1>11, <1>12, <4>2
    <3>3. Redone(o, p)
      BY <1>2, <3>2
    <3>. QED
      BY <1>0, <1>6, <1>8, <1>9, <1>11, <2>2, <3>1, <3>3 DEF Redone, LinesOn
  <2>. QED
    BY <2>1, <2>2
<1>. QED
  BY <1>0, <1>2, <1>5, <1>7, <1>10, <1>11, <1>12 DEF RedoOf, rollbackVars, After, Swapping

LEMMA SessionRedo ==
  ASSUME RedoInv, NEW o \in Ops, Session(o)
  PROVE  RedoOf(o)' /\ newest' \in LastLines(registry')
<1>. USE DEF At, Go, Swapping, After, Over
<1>0. /\ NodeTypeOK /\ RedoOf(o) /\ live \in Table /\ newest \in LastLines(registry)
      /\ pc \in [Ops -> Before \cup Swapping \cup After \cup Over]
      /\ todo \in [Ops -> SUBSET Lines] /\ seen \in [Ops -> [Port -> Lines \cup {NoLine}]]
      /\ registry \subseteq Lines
  BY DEF RedoInv, InstallTypeOK, NodeTypeOK
<1>1. CASE Snapshot(o)
  BY <1>0, <1>1 DEF Snapshot, RedoOf
<1>2. CASE FlushTable(o)
  <2>1. live'.exposed = {} /\ UNCHANGED <<newest, registry, timer>> /\ pc' = [pc EXCEPT ![o] = "flushed"] /\ pc[o] = "snapped"
    BY <1>0, <1>2 DEF FlushTable, FlushRules, Table, rollbackVars
  <2>2. NoStaleIn(live)'
    BY <2>1 DEF NoStaleIn, RulesOn
  <2>. QED
    BY <1>0, <2>1, <2>2 DEF RedoOf
<1>3. CASE LoadConf(o)
  <2>1. UNCHANGED <<newest, registry, timer>> /\ pc[o] = "flushed"
    BY <1>3 DEF LoadConf, rollbackVars
  <2>2. CASE live' = LoadFile(live, AllowlistTable(want[o])) /\ pc' = [pc EXCEPT ![o] = "loaded"]
    <3>1. live'.exposed = live.exposed /\ live'.sets
      BY <2>2 DEF LoadFile, AllowlistTable
    <3>2. NoStaleIn(live)'
      BY <1>0, <2>1, <3>1 DEF RedoOf, NoStaleIn, RulesOn, PolicyRules
    <3>. QED
      BY <1>0, <2>1, <2>2, <3>1, <3>2 DEF RedoOf
  <2>3. CASE pc' = [pc EXCEPT ![o] = "failed"]
    BY <1>0, <2>1, <2>3 DEF RedoOf
  <2>. QED
    BY <1>3, <2>2, <2>3 DEF LoadConf
<1>4. CASE Arm(o) \/ InstallUnits(o)
  <2>1. UNCHANGED <<live, newest, registry>> /\ pc'[o] \in {"armed", "installed", "failed"}
        /\ pc[o] \in {"loaded", "armed"} /\ (timer' = "young" \/ timer' = timer)
    BY <1>0, <1>4 DEF Arm, InstallUnits, rollbackVars
  <2>2. NoStaleIn(live) /\ live.sets /\ timer # "due"
    BY <1>0, <2>1 DEF RedoOf
  <2>3. NoStaleIn(live)'
    BY <2>1, <2>2 DEF NoStaleIn, PolicyRules
  <2>. QED
    BY <1>0, <2>1, <2>2, <2>3 DEF RedoOf
<1>5. CASE Seed(o)
  <2>1. PICK m \in Fetch : Updater("root", m)
    BY <1>5 DEF Seed
  <2>2. /\ QuietStep /\ UNCHANGED <<registry, newest, timer>> /\ pc[o] = "installed" /\ pc'[o] \in {"seeded", "failed"}
    BY <1>0, <1>5, <2>1, UpdaterQuiet DEF Seed, Updater, rollbackVars
  <2>3. live'.sets = live.sets /\ live'.exposed = live.exposed
    BY <1>0, <2>1, HealedKeeps, RefreshedKeeps DEF Updater, NodeTypeOK
  <2>4. NoStaleIn(live) /\ live.sets /\ timer # "due"
    BY <1>0, <2>2 DEF RedoOf
  <2>5. NoStaleIn(live)'
    BY <2>2, <2>3, <2>4 DEF NoStaleIn, RulesOn, PolicyRules
  <2>. QED
    BY <1>0, <2>2, <2>3, <2>4, <2>5 DEF RedoOf
<1>6. CASE ReadRegistry(o)
  <2>1. /\ UNCHANGED <<live, registry, newest, timer>> /\ pc[o] = "seeded" /\ pc'[o] = "reexposed"
        /\ todo'[o] = registry /\ seen'[o] = newest
    BY <1>0, <1>6 DEF ReadRegistry, nodeVars, rollbackVars
  <2>2. NoStaleIn(live) /\ live.sets /\ timer # "due"
    BY <1>0, <2>1 DEF RedoOf
  <2>3. NoStaleIn(live)'
    BY <2>1, <2>2 DEF NoStaleIn, PolicyRules
  <2>4. ASSUME NEW p \in Port, newest[p] \notin registry
        PROVE  registry \cap LinesOn(p) = {} /\ newest[p] = NoLine
    BY <1>0, <2>4, LastLineOf
  <2>5. ASSUME NEW p \in Port, seen'[o][p] \notin todo'[o] PROVE Redone(o, p)'
    <3>1. RulesOn(live, p) = {} /\ PolicyRules(p) = {}
      BY <2>1, <2>2, <2>4, <2>5 DEF NoStaleIn, PolicyRules
    <3>2. RulesOn(live', p) = {} /\ PolicyRules(p)' = {}
      BY <2>1, <3>1 DEF PolicyRules
    <3>. QED
      BY <2>1, <2>4, <2>5, <3>2 DEF Redone, LinesOn
  <2>. QED
    BY <1>0, <2>1, <2>2, <2>3, <2>5 DEF RedoOf
<1>7. CASE Reexpose(o)
  BY <1>7, ReexposeStep
<1>8. CASE Verify(o)
  <2>1. UNCHANGED <<live, registry, newest, timer>> /\ pc[o] = "reexposed" /\ pc'[o] \in {"verified", "rejected"}
    BY <1>0, <1>8 DEF Verify, nodeVars, rollbackVars
  <2>2. NoStaleIn(live) /\ live.sets /\ timer # "due"
    BY <1>0, <2>1 DEF RedoOf
  <2>3. NoStaleIn(live)'
    BY <2>1, <2>2 DEF NoStaleIn, PolicyRules
  <2>. QED
    BY <1>0, <2>1, <2>2, <2>3 DEF RedoOf
<1>9. CASE CommitAllowlist(o)
  BY <1>0, <1>9 DEF CommitAllowlist, RedoOf, nodeVars
<1>. QED
  BY <1>1, <1>2, <1>3, <1>4, <1>5, <1>6, <1>7, <1>8, <1>9 DEF Session

LEMMA RedoStep ==
  ASSUME NEW op, Ops = {op}, Losses = {}, "harden" \notin Edits, "ports" \notin Edits,
         "slow" \notin Faults, "hasty" \notin Faults, RedoInv, [InstallNext]_vars
  PROVE  RedoInv'
<1>. USE DEF Swapping, After, Over
<1>0. /\ op \in Ops /\ RedoOf(op) /\ NodeTypeOK /\ newest \in LastLines(registry) /\ registry \subseteq Lines
      /\ pc \in [Ops -> Before \cup Swapping \cup After \cup Over]
  BY DEF RedoInv, InstallTypeOK, NodeTypeOK
<1>1. InstallTypeOK'
  BY InstallStepType DEF RedoInv
<1>2. SUFFICES newest' \in LastLines(registry') /\ RedoOf(op)'
  BY <1>1 DEF RedoInv
<1> DEFINE Goal == newest' \in LastLines(registry') /\ RedoOf(op)'
<1>3. ASSUME UNCHANGED <<live, registry, newest, timer, pc, todo, seen>> PROVE Goal
  <2>1. \A p \in Port : PolicyRules(p)' = PolicyRules(p) /\ RulesOn(live', p) = RulesOn(live, p)
    BY <1>3 DEF PolicyRules
  <2>2. NoStaleIn(live)' <=> NoStaleIn(live)
    BY <1>3, <2>1 DEF NoStaleIn
  <2>3. \A p \in Port : Redone(op, p)' <=> Redone(op, p)
    BY <1>3, <2>1 DEF Redone, LinesOn
  <2>. QED
    BY <1>0, <1>3, <2>2, <2>3 DEF RedoOf
<1>4. ASSUME pc'[op] \in {"idle"} \cup Over, newest' \in LastLines(registry') PROVE Goal
  BY <1>4 DEF RedoOf
<1>5. ASSUME NEW c \in Config, Connect(op, c) PROVE Goal
  <2>1. pc'[op] = "connected" /\ UNCHANGED <<registry, newest, timer>> /\ timer = "off"
    BY <1>0, <1>5 DEF Connect, Go, nodeVars, rollbackVars
  <2>. QED
    BY <1>0, <2>1 DEF RedoOf
<1>6. ASSUME Session(op) PROVE Goal
  BY <1>0, <1>6, SessionRedo
<1>7. ASSUME Crash(op) PROVE Goal
  <2>1. pc'[op] = "failed" /\ UNCHANGED <<registry, newest>>
    BY <1>0, <1>7 DEF Crash, Go, nodeVars
  <2>. QED
    BY <1>0, <1>4, <2>1
<1>8. ASSUME RemoveAllowlist(op) PROVE Goal
  <2>1. pc'[op] \in {"idle"} \cup Over
    BY <1>8 DEF RemoveAllowlist, installVars
  <2>2. CASE RestoreBackup \/ KeepConf
    <3>1. registry' = {} /\ newest' = [p \in Port |-> NoLine]
      BY <2>2 DEF RestoreBackup, KeepConf, ClearFirewall
    <3>2. newest' \in LastLines(registry')
      BY <3>1 DEF LastLines
    <3>. QED
      BY <1>4, <2>1, <3>2
  <2>3. CASE RestoreFails
    <3>1. newest' \in LastLines(registry')
      BY <1>0, <2>3 DEF RestoreFails
    <3>. QED
      BY <1>4, <2>1, <3>1
  <2>. QED
    BY <1>8, <2>2, <2>3 DEF RemoveAllowlist
<1>9. CASE WindowElapses
  <2>1. pc[op] \notin {"snapped"} \cup Swapping \cup After /\ UNCHANGED <<registry, newest, pc>> /\ timer = "young"
    BY <1>0, <1>9 DEF WindowElapses, nodeVars, installVars
  <2>2. pc[op] # "connected"
    BY <1>0, <2>1 DEF RedoOf
  <2>. QED
    BY <1>0, <2>1, <2>2 DEF RedoOf
<1>10. CASE Rollback
  <2>1. timer = "due" /\ UNCHANGED <<registry, newest, pc>>
    BY <1>10 DEF Rollback, installVars
  <2>2. pc[op] \notin {"connected", "snapped"} \cup Swapping \cup After
    BY <1>0, <2>1 DEF RedoOf
  <2>. QED
    BY <1>0, <2>1, <2>2 DEF RedoOf
<1>11. CASE RebootNode
  <2>1. pc'[op] \in {"idle"} \cup Over /\ UNCHANGED <<registry, newest>>
    BY <1>0, <1>11 DEF RebootNode
  <2>. QED
    BY <1>0, <1>4, <2>1
<1>12. CASE NodeStep /\ UNCHANGED <<rollbackVars, installVars>>
  <2>1. QuietStep /\ UNCHANGED <<registry, newest, timer, pc, todo, seen>> /\ (live.sets => live'.sets)
        /\ live.exposed \subseteq live'.exposed
    <3>1. QuietStep /\ UNCHANGED <<registry, newest>> /\ (live.sets => live'.sets)
      BY <1>0, <1>12, NodeKeepsRules
    <3>. QED
      BY <1>12, <3>1 DEF QuietStep, rollbackVars, installVars
  <2>2. NoStaleIn(live) => /\ NoStaleIn(live)'
                           /\ \A p \in Port : RulesOn(live, p) = PolicyRules(p) => RulesOn(live', p) = PolicyRules(p)'
    <3>1. ASSUME NoStaleIn(live)
          PROVE  NoStaleIn(live') /\ \A p \in Port : RulesOn(live, p) = PolicyRules(p) => RulesOn(live', p) = PolicyRules(p)'
      BY <1>0, <2>1, <3>1, QuietKeeps
    <3>2. \A p \in Port : PolicyRules(p)' = PolicyRules(p)
      BY <2>1 DEF PolicyRules
    <3>. QED
      BY <3>1, <3>2 DEF NoStaleIn
  <2>3. NoStaleIn(live) => \A p \in Port : Redone(op, p) => Redone(op, p)'
    BY <2>1, <2>2 DEF Redone, LinesOn
  <2>. QED
    BY <1>0, <2>1, <2>2, <2>3 DEF RedoOf
<1>13. CASE UNCHANGED vars
  BY <1>3, <1>13 DEF vars, nodeVars, rollbackVars, installVars
<1>. QED
  BY <1>0, <1>5, <1>6, <1>7, <1>8, <1>9, <1>10, <1>11, <1>12, <1>13 DEF InstallNext, InstallStep, Removal

\* Re-exposing the registry, line by line and each one registering itself again, ends
\* with the registry and the chain the install found, for any lines, while refreshes
\* and the watchdog run in between.  A single operator, within the window; nobody else
\* edits ports and nothing gets lost.
THEOREM ReexposeGivesBack ==
  ASSUME NEW op, Ops = {op}, Losses = {}, "harden" \notin Edits, "ports" \notin Edits,
         "slow" \notin Faults, "hasty" \notin Faults
  PROVE  InstallSpec => ReexposeKeepsPolicies
<1>1. InstallInit => RedoInv
  <2>. SUFFICES ASSUME InstallInit PROVE RedoInv
    OBVIOUS
  <2>1. InstallTypeOK
    BY InstallInitType
  <2>2. newest \in LastLines(registry)
    <3>1. CASE Hardened
      BY <3>1 DEF Hardened, LastLines
    <3>2. CASE Installed
      BY <3>2 DEF Installed
    <3>. QED
      BY <3>1, <3>2 DEF InstallInit
  <2>3. \A o \in Ops : RedoOf(o)
    BY DEF InstallInit, RedoOf, Swapping, After
  <2>. QED
    BY <2>1, <2>2, <2>3 DEF RedoInv
<1>2. RedoInv /\ [InstallNext]_vars => RedoInv'
  BY RedoStep
<1>3. RedoInv => [\A o \in Ops : Reexpose(o) /\ todo'[o] = {} => newest' = seen[o] /\ ExposedAsRegistered']_vars
  <2>. SUFFICES ASSUME RedoInv, NEW o \in Ops, Reexpose(o), todo'[o] = {}
                PROVE  newest' = seen[o] /\ ExposedAsRegistered'
    OBVIOUS
  <2>1. RedoOf(o)' /\ pc'[o] = "reexposed" /\ seen' = seen
    BY ReexposeStep DEF Reexpose, At
  <2>2. \A p \in Port : Redone(o, p)'
    BY <2>1 DEF RedoOf
  <2>3. newest' \in [Port -> Lines \cup {NoLine}] /\ seen[o] \in [Port -> Lines \cup {NoLine}]
    BY ReexposeStep DEF LastLines, RedoInv, InstallTypeOK
  <2>4. newest' = seen[o]
    BY <2>1, <2>2, <2>3 DEF Redone
  <2>. QED
    BY <2>2, <2>4 DEF Redone, ExposedAsRegistered, PolicyRules
<1>. QED
  BY <1>1, <1>2, <1>3, PTL DEF InstallSpec, ReexposeKeepsPolicies
===============================================================================
