------------------------------- MODULE Firewall -------------------------------
(***************************************************************************)
(* The firewall of one node between installs: the live table, the files    *)
(* that describe it, and everything that edits them - the operator's       *)
(* `allowlist` commands, the daily refresh, the five-minute state watchdog *)
(* and the reboot.  Each edit is one remote script run by one SSH command  *)
(* or one systemd unit, so each is one action; they interleave freely.     *)
(* Source: src/hardening/{allowlist_remote,state_watch,peer,steps}.go.     *)
(***************************************************************************)
EXTENDS NftTable

CONSTANTS
  SshUser,     \* "root", or "sdkops" once hardening has disabled root logins
  MinCidrs,    \* MIN_CIDRS: fewest ranges a refresh may apply
  FetchCounts, \* how many ranges one family of a fetch can return
  Edits,       \* operator edits: subset of {"admin", "ports", "peers", "harden", "watch"}
  Losses,      \* outside damage to the live table: subset of {"admin", "exposed"}
  NoLine       \* no line of ports.yaml

ASSUME FetchAssumption == MinCidrs \in Nat \ {0} /\ FetchCounts \subseteq Nat
ASSUME UserAssumption  == SshUser \in {"root", "sdkops"}
ASSUME NoLineAssumption == NoLine \notin Lines

VARIABLES
  live,      \* the table in the kernel
  conf,      \* /etc/nftables.conf, loaded at boot
  elems,     \* admin4.elements and admin6.elements
  registry,  \* ports.yaml, as the set of its lines
  newest,    \* the last line of ports.yaml for each port
  stateFile, \* age of /etc/sdk-ops/firewall/state
  units,     \* installed timers: "allowlist" (refresh), "state" (watchdog)
  report     \* outcome of the last watchdog run

nodeVars == <<live, conf, elems, registry, newest, stateFile, units, report>>

NodeTypeOK ==
  /\ live \in Table /\ conf \in Table
  /\ elems \subseteq Admins
  /\ registry \subseteq Lines
  /\ newest \in [Port -> Lines \cup {NoLine}]
  /\ stateFile \in {"missing", "fresh", "stale"}
  /\ units \subseteq {"allowlist", "state"}
  /\ report \in {"ok", "repaired", "incomplete", "failed"}

\* A node on which an allowlist install has been committed.
NodeInit ==
  /\ elems \in SUBSET Admins
  /\ live = [AllowlistTable([profile |-> "normal", admin |-> elems])
               EXCEPT !.allow = Family]
  /\ conf = live
  /\ registry = {}
  /\ newest = [p \in Port |-> NoLine]
  /\ stateFile = "fresh"
  /\ units = {"allowlist", "state"}
  /\ report = "ok"

-------------------------------------------------------------------------------
(* The files next to the table                                             *)

\* `nft list table inet filter > /etc/nftables.conf`, as every edit ends.
Dump == conf' = live'

\* The elements files are root's and `admin add` appends to them without sudo.
ListElem(a) == elems' = IF SshUser = "root" THEN elems \cup {a} ELSE elems

\* The registry line of this port, proto and scope is deleted and re-appended.
Register(l) == /\ registry' = registry \cup {l}
               /\ newest' = [newest EXCEPT ![l.port] = l]

Unregister(p) == /\ registry' = {l \in registry : l.port # p}
                 /\ newest' = [newest EXCEPT ![p] = NoLine]

-------------------------------------------------------------------------------
(* allowlist.sh: self_heal_admin, then update                              *)

Fetch == [Family -> FetchCounts]

Enough(n) == n["v4"] + n["v6"] >= MinCidrs

\* The one address a family's elements file lists, when it lists just one.
ListedAlone(f) == {a \in elems : elems \cap OfFamily(f) = {a}}

Emptied(t) == {f \in Family : t.admin \cap OfFamily(f) = {}}

\* Variant: only admin4 is ever healed.
HealedV4Only(t) ==
  IF t.sets /\ "v4" \in Emptied(t) THEN [t EXCEPT !.admin = @ \cup ListedAlone("v4")] ELSE t

\* self_heal_admin: when a family's set is empty its elements are added again.
\* They are joined with spaces, which nft refuses when there are several, and
\* the error is discarded: only an address listed alone comes back.
Healed(t) ==
  IF t.sets THEN [t EXCEPT !.admin = @ \cup UNION {ListedAlone(f) : f \in Emptied(t)}] ELSE t

\* Both allow sets are flushed and refilled from the fetch in one transaction.
Refreshed(t, n) == [Healed(t) EXCEPT !.allow = {f \in Family : n[f] > 0}]

\* One run of the script; only root can write the state file.
Updater(user, n) ==
  /\ live' = IF live.sets /\ Enough(n) THEN Refreshed(live, n) ELSE Healed(live)
  /\ IF live.sets /\ Enough(n)
     THEN Dump /\ stateFile' = IF user = "root" THEN "fresh" ELSE stateFile
     ELSE UNCHANGED <<conf, stateFile>>
  /\ UNCHANGED <<elems, registry, newest, units, report>>

\* sdk-ops-allowlist.timer: the unit runs the script as user sdkops.
DailyRefresh == "allowlist" \in units /\ \E n \in Fetch : Updater("sdkops", n)

\* `allowlist refresh`: the operator runs it with sudo.
RefreshAllowlist == "allowlist" \in units /\ \E n \in Fetch : Updater("root", n)

\* 25 hours pass without the state file being written.
StateAges == /\ stateFile = "fresh" /\ stateFile' = "stale"
             /\ UNCHANGED <<live, conf, elems, registry, newest, units, report>>

-------------------------------------------------------------------------------
(* state_watch.sh, every five minutes                                      *)

\* Registered ports without any `dport` rule in the exposed chain.
Uncovered == {p \in Port : newest[p] # NoLine /\ RulesOn(live, p) = {}}

Diverged == \/ ~live.sets
            \/ ~(elems \subseteq live.admin)
            \/ stateFile # "fresh"
            \/ Uncovered # {}

WithSets == [live EXCEPT !.sets = TRUE]

\* Variant: a repair re-adds every registry line of the port, not the last.
RestoredAnyLine(n) ==
  [Refreshed(WithSets, n) EXCEPT
     !.exposed = IF live.chain
                 THEN @ \cup UNION {RulesOf(l) : l \in {k \in registry : k.port \in Uncovered}}
                 ELSE @]

\* Variant: the repair re-runs allowlist.sh and forgets the exposed chain.
RestoredSetsOnly(n) == Refreshed(WithSets, n)

\* Variant: the repair adds every listed admin element it found missing.
RestoredElements(n) ==
  [Refreshed(WithSets, n) EXCEPT
     !.admin = @ \cup elems,
     !.exposed = IF live.chain THEN @ \cup UNION {RulesOf(newest[p]) : p \in Uncovered} ELSE @]

\* Missing rules are added back from the port's last registry line; without
\* the exposed chain `nft add rule` fails and its error is discarded.
Restored(n) ==
  [Refreshed(WithSets, n) EXCEPT
     !.exposed = IF live.chain THEN @ \cup UNION {RulesOf(newest[p]) : p \in Uncovered} ELSE @]

RepairComplete == /\ elems \subseteq live'.admin
                  /\ \A p \in Uncovered : RulesOn(live', p) # {}

WatchRepairs(n) ==
  /\ "allowlist" \in units /\ Enough(n)
  /\ live' = Restored(n)
  /\ Dump
  /\ stateFile' = "fresh"
  /\ report' = IF RepairComplete THEN "repaired" ELSE "incomplete"

WatchFails(n) ==
  /\ ~("allowlist" \in units /\ Enough(n))
  /\ live' = IF "allowlist" \in units THEN Healed(WithSets) ELSE WithSets
  /\ report' = "failed"
  /\ UNCHANGED <<conf, stateFile>>

WatchFindsNothing == report' = "ok" /\ UNCHANGED <<live, conf, stateFile>>

WatchRun(n) ==
  /\ "state" \in units
  /\ IF Diverged THEN WatchRepairs(n) \/ WatchFails(n) ELSE WatchFindsNothing
  /\ UNCHANGED <<elems, registry, newest, units>>

Watch == \E n \in Fetch : WatchRun(n)

InstallStateWatch == /\ units' = units \cup {"state"}
                     /\ UNCHANGED <<live, conf, elems, registry, newest, stateFile, report>>

RemoveStateWatch == /\ units' = units \ {"state"}
                    /\ UNCHANGED <<live, conf, elems, registry, newest, stateFile, report>>

-------------------------------------------------------------------------------
(* Operator edits                                                          *)

AllowlistAdminAdd(a) ==
  /\ live.sets
  /\ live' = [live EXCEPT !.admin = @ \cup {a}]
  /\ Dump
  /\ ListElem(a)
  /\ UNCHANGED <<registry, newest, stateFile, units, report>>

\* The line of the elements file stays: every address is normalized to a prefix,
\* its slash ends the address of `sed -i '/^10.0.0.1/32$/d'`, and sed's complaint
\* is discarded.
AllowlistAdminRemove(a) ==
  /\ live.sets
  /\ live' = [live EXCEPT !.admin = @ \ {a}]
  /\ Dump
  /\ UNCHANGED <<elems, registry, newest, stateFile, units, report>>

\* Variant: only rules of the same protocol are replaced.
ExposedSameProto(t, l) ==
  [t EXCEPT !.chain = TRUE,
            !.exposed = {e \in @ : ~(e.port = l.port /\ e.proto = l.proto)} \cup RulesOf(l)]

\* The chain and its jumps are created if missing, the port's rules replaced.
Exposed(t, l) ==
  [t EXCEPT !.chain = TRUE, !.exposed = (@ \ RulesOn(t, l.port)) \cup RulesOf(l)]

AllowlistExposePort(l) ==
  /\ IF live.sets
     THEN live' = Exposed(live, l) /\ Dump /\ Register(l)
     ELSE UNCHANGED <<live, conf, registry, newest>>
  /\ UNCHANGED <<elems, stateFile, units, report>>

\* Variant: the table is not dumped after the rules are deleted.
UnexposeWithoutDump(p) ==
  /\ live' = [live EXCEPT !.exposed = @ \ RulesOn(live, p)]
  /\ Unregister(p)
  /\ UNCHANGED <<conf, elems, stateFile, units, report>>

AllowlistUnexposePort(p) ==
  /\ live' = [live EXCEPT !.exposed = @ \ RulesOn(live, p)]
  /\ Dump
  /\ Unregister(p)
  /\ UNCHANGED <<elems, stateFile, units, report>>

ExposePeerPortDirect(q) ==
  /\ live' = [live EXCEPT !.peers = @ \cup {q}]
  /\ Dump
  /\ UNCHANGED <<elems, registry, newest, stateFile, units, report>>

\* nftablesFirewall, when `infra init` hardens the node again: the base config
\* is written and nftables restarted, which flushes the whole ruleset.
NftablesFirewall ==
  /\ live' = BaseTable
  /\ Dump
  /\ UNCHANGED <<elems, registry, newest, stateFile, units, report>>

Edit ==
  \/ /\ "admin" \in Edits
     /\ \E a \in Admins : AllowlistAdminAdd(a) \/ AllowlistAdminRemove(a)
  \/ /\ "ports" \in Edits
     /\ \/ live.sets /\ \E l \in Lines : AllowlistExposePort(l)
        \/ \E p \in Port : AllowlistUnexposePort(p)
  \/ "peers" \in Edits /\ \E q \in Peers : ExposePeerPortDirect(q)
  \/ "harden" \in Edits /\ NftablesFirewall
  \/ "watch" \in Edits /\ (InstallStateWatch \/ RemoveStateWatch)

-------------------------------------------------------------------------------
(* The environment                                                         *)

\* Somebody deletes an admin element or a port's rules behind sdk-ops' back.
Loss ==
  /\ \/ /\ "admin" \in Losses
        /\ \E a \in live.admin : live' = [live EXCEPT !.admin = @ \ {a}]
     \/ /\ "exposed" \in Losses
        /\ \E p \in Port : live' = [live EXCEPT !.exposed = @ \ RulesOn(live, p)]
  /\ UNCHANGED <<conf, elems, registry, newest, stateFile, units, report>>

Reboot == live' = conf /\ UNCHANGED <<conf, elems, registry, newest, stateFile, units, report>>

\* Everything that happens to a running node.
NodeStep == DailyRefresh \/ RefreshAllowlist \/ StateAges \/ Watch \/ Edit \/ Loss

NodeNext == NodeStep \/ Reboot

NodeSpec == NodeInit /\ [][NodeNext]_nodeVars

\* The watchdog's timer keeps firing and a fetch that keeps being tried works.
TimedWatch == \E n \in Fetch : Enough(n) /\ WatchRun(n)

FairNodeSpec == NodeSpec /\ WF_nodeVars(TimedWatch)

-------------------------------------------------------------------------------
(* Properties                                                              *)

\* The live rules of every port are exactly those of its last registry line:
\* the chain dedup (all rules of the port) and the registry dedup (one line
\* per port, proto and scope) stay in step over any sequence of commands.
ExposedAsRegistered ==
  \A p \in Port : RulesOn(live, p) = IF newest[p] = NoLine THEN {} ELSE RulesOf(newest[p])

\* Even when rules get lost, the node is re-hardened and the watchdog repairs,
\* no rule of an older or removed policy of a port is ever in force.
NoStalePolicy ==
  \A p \in Port : RulesOn(live, p) \subseteq IF newest[p] = NoLine THEN {} ELSE RulesOf(newest[p])

\* The elements files list this address and no other of its family.
SoleListed(a) == \E f \in Family : elems \cap OfFamily(f) = {a}

\* A reboot changes nothing, every script that edits the table dumping it, but
\* for an admin listed alone in its family: a refresh that brings it back and
\* then gets too few ranges heals the live set and dumps nothing.
SurvivesReboot ==
  /\ conf = [live EXCEPT !.admin = conf.admin]
  /\ conf.admin \subseteq live.admin
  /\ \A a \in live.admin \ conf.admin : SoleListed(a)

\* An address that neither the table nor the boot config admits stays out: no
\* refresh, repair, hardening or reboot lets it in, only `admin add` does - or a
\* healing, if it is the only one listed.
Admitted(t, c) == t.admin \cup c.admin

OutStaysOut ==
  [][\A a \in Admitted(live', conf') \ Admitted(live, conf) :
       AllowlistAdminAdd(a) \/ SoleListed(a)]_nodeVars

\* The live chain implements the policy the exposure commands promise.
PolicyInForce ==
  [p \in Port |-> IF RulesOn(live, p) = {} THEN NoLine ELSE CHOOSE e \in RulesOn(live, p) : TRUE]

Promise == INSTANCE PortPolicy WITH policy <- PolicyInForce

PolicyKept == Promise!Spec

\* A watchdog run that reports `ok` or `[OK] allowlist repaired` leaves nothing
\* diverged: every set, admin element and registered port is really back.
WatchTellsTruth ==
  [][Watch /\ report' \in {"ok", "repaired"} => ~Diverged']_nodeVars

\* A registered port whose rules were lost gets them back, as long as the node
\* is not re-hardened: the repair cannot recreate the chain itself.
LostRulesReturn ==
  \A p \in Port : (p \in Uncovered /\ live.chain) ~> (p \notin Uncovered \/ ~live.chain)

\* When the one admin a family lists is lost from the live set it comes back (of
\* several, none does: see Healed).
BlankFamilyReturns ==
  \A f \in Family : (ListedAlone(f) # {} /\ f \in Emptied(live))
                   ~> (ListedAlone(f) = {} \/ f \notin Emptied(live))

-------------------------------------------------------------------------------
(* A claim of the documentation that the code does not keep                *)

\* allowlist_remote.go:384, `allowlist admin remove` "removes a permanent admin
\* IP": no refresh lets an address in again.
RemovedAdminStaysOut ==
  [][DailyRefresh \/ RefreshAllowlist => live'.admin \subseteq live.admin]_nodeVars
===============================================================================
