---------------------------- MODULE FirewallProofs ----------------------------
(***************************************************************************)
(* Proofs about Firewall, for every set of lines, admins, peers and users. *)
(***************************************************************************)
EXTENDS Firewall, TLAPS

-------------------------------------------------------------------------------
(* The operators of the model                                              *)

\* A registered line names one of the ports.
LEMMA LinePort == \A l \in Lines : l.port \in Port
  BY DEF Port

\* The hardening ruleset and the allowlist config are tables.
LEMMA ConfigTables ==
  /\ BaseTable \in Table
  /\ \A c \in [profile : Profile, admin : SUBSET Admins] : AllowlistTable(c) \in Table
  BY DEF BaseTable, AllowlistTable, Table, Profile

\* Healing admits admins of the elements files and touches nothing else.
LEMMA HealedKeeps ==
  ASSUME NEW t \in Table, elems \subseteq Admins
  PROVE  /\ Healed(t) \in Table
         /\ Healed(t).sets = t.sets /\ Healed(t).chain = t.chain
         /\ Healed(t).exposed = t.exposed /\ Healed(t).rules = t.rules
         /\ t.admin \subseteq Healed(t).admin
         /\ Healed(t).admin \subseteq t.admin \cup elems
  BY DEF Healed, ListedAlone, Emptied, Table

\* A refresh changes the allow sets and what healing changes.
LEMMA RefreshedKeeps ==
  ASSUME NEW t \in Table, elems \subseteq Admins, NEW n \in Fetch
  PROVE  /\ Refreshed(t, n) \in Table
         /\ Refreshed(t, n).sets = t.sets /\ Refreshed(t, n).chain = t.chain
         /\ Refreshed(t, n).exposed = t.exposed /\ Refreshed(t, n).rules = t.rules
         /\ Refreshed(t, n).admin = Healed(t).admin
  BY HealedKeeps DEF Refreshed, Table, Family

\* What a repair of the exposed chain may add.
LEMMA RestoredKeeps ==
  ASSUME NodeTypeOK, NEW n \in Fetch
  PROVE  /\ Restored(n) \in Table
         /\ Restored(n).rules = live.rules /\ live.admin \subseteq Restored(n).admin
         /\ live.exposed \subseteq Restored(n).exposed
         /\ Restored(n).exposed \subseteq
              live.exposed \cup UNION {RulesOf(newest[p]) : p \in Uncovered}
<1>1. /\ WithSets \in Table /\ elems \subseteq Admins
      /\ WithSets.exposed = live.exposed
      /\ WithSets.rules = live.rules /\ WithSets.admin = live.admin
  BY DEF WithSets, Table, NodeTypeOK
<1>2. /\ Refreshed(WithSets, n) \in Table
      /\ Refreshed(WithSets, n).exposed = live.exposed
      /\ Refreshed(WithSets, n).rules = live.rules
      /\ live.admin \subseteq Refreshed(WithSets, n).admin
  BY <1>1, HealedKeeps, RefreshedKeeps
<1>3. UNION {RulesOf(newest[p]) : p \in Uncovered} \subseteq Lines
  BY DEF NodeTypeOK, Uncovered, RulesOf
<1>. QED
  BY <1>2, <1>3 DEF Restored, Table

-------------------------------------------------------------------------------
(* Type correctness                                                        *)

\* One run of allowlist.sh keeps every variable in its type.
LEMMA UpdaterType ==
  ASSUME NodeTypeOK, NEW user, NEW n \in Fetch, Updater(user, n)
  PROVE  NodeTypeOK'
<1>1. live \in Table /\ elems \subseteq Admins
  BY DEF NodeTypeOK
<1>2. live' \in Table
  BY <1>1, HealedKeeps, RefreshedKeeps DEF Updater
<1>. QED
  BY <1>2 DEF Updater, NodeTypeOK, Dump

\* So does one run of the watchdog.
LEMMA WatchType ==
  ASSUME NodeTypeOK, NEW n \in Fetch, WatchRun(n)
  PROVE  NodeTypeOK'
<1>1. live \in Table /\ elems \subseteq Admins /\ WithSets \in Table
  BY DEF NodeTypeOK, WithSets, Table
<1>2. CASE WatchRepairs(n)
  BY <1>2, RestoredKeeps DEF WatchRepairs, WatchRun, NodeTypeOK, Dump
<1>3. CASE WatchFails(n)
  <2>1. live' \in Table
    BY <1>1, <1>3, HealedKeeps DEF WatchFails
  <2>. QED
    BY <1>3, <2>1 DEF WatchFails, WatchRun, NodeTypeOK
<1>4. CASE WatchFindsNothing
  BY <1>4 DEF WatchFindsNothing, WatchRun, NodeTypeOK
<1>. QED
  BY <1>2, <1>3, <1>4 DEF WatchRun

\* Removing an exposure keeps a table a table.
LEMMA ExposedTable ==
  ASSUME NEW t \in Table, NEW l \in Lines
  PROVE  /\ Exposed(t, l) \in Table
         /\ Exposed(t, l).exposed = (t.exposed \ RulesOn(t, l.port)) \cup RulesOf(l)
  BY DEF Exposed, Table, RulesOf

\* And so does every operator's edit.
LEMMA EditType == ASSUME NodeTypeOK, Edit PROVE NodeTypeOK'
<1>1. ASSUME NEW a \in Admins, AllowlistAdminAdd(a) PROVE NodeTypeOK'
  BY <1>1 DEF AllowlistAdminAdd, NodeTypeOK, Dump, ListElem, Table
<1>2. ASSUME NEW a \in Admins, AllowlistAdminRemove(a) PROVE NodeTypeOK'
  BY <1>2 DEF AllowlistAdminRemove, NodeTypeOK, Dump, Table
<1>3. ASSUME NEW l \in Lines, AllowlistExposePort(l) PROVE NodeTypeOK'
  BY <1>3, ExposedTable DEF AllowlistExposePort, NodeTypeOK, Dump, Register
<1>4. ASSUME NEW p \in Port, AllowlistUnexposePort(p) PROVE NodeTypeOK'
  BY <1>4 DEF AllowlistUnexposePort, NodeTypeOK, Dump, Unregister, Table
<1>5. ASSUME NEW q \in Peers, ExposePeerPortDirect(q) PROVE NodeTypeOK'
  BY <1>5 DEF ExposePeerPortDirect, NodeTypeOK, Dump, Table
<1>6. ASSUME NftablesFirewall PROVE NodeTypeOK'
  BY <1>6, ConfigTables DEF NftablesFirewall, NodeTypeOK, Dump
<1>7. ASSUME InstallStateWatch \/ RemoveStateWatch PROVE NodeTypeOK'
  BY <1>7 DEF InstallStateWatch, RemoveStateWatch, NodeTypeOK
<1>. QED
  BY <1>1, <1>2, <1>3, <1>4, <1>5, <1>6, <1>7 DEF Edit

LEMMA InitType == NodeInit => NodeTypeOK
<1>. SUFFICES ASSUME NodeInit PROVE NodeTypeOK
  OBVIOUS
<1>1. elems \subseteq Admins
  BY DEF NodeInit
<1>2. AllowlistTable([profile |-> "normal", admin |-> elems]) \in Table
  BY <1>1, ConfigTables DEF Profile
<1>3. live \in Table
  BY <1>2 DEF NodeInit, Table
<1>. QED
  BY <1>1, <1>3 DEF NodeInit, NodeTypeOK

LEMMA StepType == ASSUME NodeTypeOK, [NodeNext]_nodeVars PROVE NodeTypeOK'
<1>1. CASE DailyRefresh
  BY <1>1, UpdaterType DEF DailyRefresh
<1>2. CASE RefreshAllowlist
  BY <1>2, UpdaterType DEF RefreshAllowlist
<1>3. CASE StateAges
  BY <1>3 DEF StateAges, NodeTypeOK
<1>4. CASE Watch
  BY <1>4, WatchType DEF Watch
<1>5. CASE Edit
  BY <1>5, EditType
<1>6. CASE Loss
  BY <1>6 DEF Loss, NodeTypeOK, Table
<1>7. CASE Reboot
  BY <1>7 DEF Reboot, NodeTypeOK
<1>8. CASE UNCHANGED nodeVars
  BY <1>8 DEF nodeVars, NodeTypeOK
<1>. QED
  BY <1>1, <1>2, <1>3, <1>4, <1>5, <1>6, <1>7, <1>8 DEF NodeNext, NodeStep

\* Every program that touches the node leaves it well-formed.
THEOREM NodeTypeCorrect == NodeSpec => []NodeTypeOK
  BY InitType, StepType, PTL DEF NodeSpec

-------------------------------------------------------------------------------
(* The exposed chain follows the registry                                  *)

\* The policy of a port, as its last registry line states it.
PolicyRules(p) == IF newest[p] = NoLine THEN {} ELSE RulesOf(newest[p])

\* What a repair of the exposed chain puts back.
Missing == UNION {RulesOf(newest[p]) : p \in Uncovered}

\* The last line registered for a port is a line of that port.
NewestOnPort == \A p \in Port : newest[p] # NoLine => newest[p].port = p

\* A table holds for each port no rule, or exactly the rules, of its policy.
NoStaleIn(t) == \A p \in Port : RulesOn(t, p) \subseteq PolicyRules(p)
AgreesIn(t)  == \A p \in Port : RulesOn(t, p) = PolicyRules(p)

\* A step that is none of the port commands and no reboot leaves the registry
\* alone, adds nothing to the chain but missing rules, and writes the boot
\* config only as a dump of the table; only damage and re-hardening take rules.
QuietStep ==
  /\ newest' = newest
  /\ live'.exposed \subseteq live.exposed \cup Missing
  /\ conf' = conf \/ conf' = live'
  /\ Losses = {} /\ "harden" \notin Edits => live.exposed \subseteq live'.exposed

PortCommand == \/ \E l \in Lines : AllowlistExposePort(l) /\ live.sets
               \/ \E p \in Port : AllowlistUnexposePort(p)

LEMMA UpdaterQuiet ==
  ASSUME NodeTypeOK, NEW user, NEW n \in Fetch, Updater(user, n)
  PROVE  QuietStep
<1>1. live \in Table /\ elems \subseteq Admins
  BY DEF NodeTypeOK
<1>2. live'.exposed = live.exposed
  BY <1>1, HealedKeeps, RefreshedKeeps DEF Updater
<1>. QED
  BY <1>2 DEF Updater, QuietStep, Dump

LEMMA WatchQuiet ==
  ASSUME NodeTypeOK, NEW n \in Fetch, WatchRun(n)
  PROVE  QuietStep
<1>1. CASE WatchRepairs(n)
  BY <1>1, RestoredKeeps DEF WatchRepairs, WatchRun, QuietStep, Missing, Dump
<1>2. CASE WatchFails(n)
  <2>1. WithSets \in Table /\ WithSets.exposed = live.exposed /\ elems \subseteq Admins
    BY DEF WithSets, Table, NodeTypeOK
  <2>2. live'.exposed = live.exposed
    BY <1>2, <2>1, HealedKeeps DEF WatchFails
  <2>. QED
    BY <1>2, <2>2 DEF WatchFails, WatchRun, QuietStep
<1>3. CASE WatchFindsNothing
  BY <1>3 DEF WatchFindsNothing, WatchRun, QuietStep
<1>. QED
  BY <1>1, <1>2, <1>3 DEF WatchRun

LEMMA EditQuiet == ASSUME NodeTypeOK, Edit PROVE QuietStep \/ PortCommand
<1>1. ASSUME NEW a \in Admins, AllowlistAdminAdd(a) \/ AllowlistAdminRemove(a)
      PROVE QuietStep
  BY <1>1 DEF AllowlistAdminAdd, AllowlistAdminRemove, NodeTypeOK, Dump, Table, QuietStep
<1>2. ASSUME NEW q \in Peers, ExposePeerPortDirect(q) PROVE QuietStep
  BY <1>2 DEF ExposePeerPortDirect, NodeTypeOK, Dump, Table, QuietStep
<1>3. ASSUME NftablesFirewall, "harden" \in Edits PROVE QuietStep
  BY <1>3 DEF NftablesFirewall, BaseTable, Dump, QuietStep
<1>4. ASSUME InstallStateWatch \/ RemoveStateWatch PROVE QuietStep
  BY <1>4 DEF InstallStateWatch, RemoveStateWatch, QuietStep
<1>. QED
  BY <1>1, <1>2, <1>3, <1>4 DEF Edit, PortCommand

LEMMA LossQuiet == ASSUME NodeTypeOK, Loss PROVE QuietStep
  BY DEF Loss, NodeTypeOK, Table, QuietStep

\* Every step of the node is one of these.
LEMMA StepKinds ==
  ASSUME NodeTypeOK, [NodeNext]_nodeVars
  PROVE  QuietStep \/ PortCommand \/ Reboot
<1>1. CASE DailyRefresh \/ RefreshAllowlist
  BY <1>1, UpdaterQuiet DEF DailyRefresh, RefreshAllowlist
<1>2. CASE StateAges \/ UNCHANGED nodeVars
  BY <1>2 DEF StateAges, nodeVars, QuietStep
<1>3. CASE Watch
  BY <1>3, WatchQuiet DEF Watch
<1>4. CASE Edit
  BY <1>4, EditQuiet
<1>5. CASE Loss
  BY <1>5, LossQuiet
<1>. QED
  BY <1>1, <1>2, <1>3, <1>4, <1>5 DEF NodeNext, NodeStep

\* An expose leaves the port with the rules of the new line, an unexpose with
\* none, and both leave every other port alone.
LEMMA PortCommandEffect ==
  ASSUME NodeTypeOK, PortCommand
  PROVE  /\ conf' = live'
         /\ \E p \in Port :
              /\ newest'[p] \in Lines \cup {NoLine}
              /\ newest'[p] # NoLine => newest'[p].port = p
              /\ RulesOn(live', p) = PolicyRules(p)'
              /\ \A q \in Port \ {p} : /\ newest'[q] = newest[q]
                                       /\ RulesOn(live', q) = RulesOn(live, q)
<1>1. ASSUME NEW l \in Lines, AllowlistExposePort(l), live.sets
      PROVE /\ conf' = live' /\ l.port \in Port
            /\ newest'[l.port] = l
            /\ RulesOn(live', l.port) = RulesOf(l)
            /\ \A q \in Port \ {l.port} : /\ newest'[q] = newest[q]
                                          /\ RulesOn(live', q) = RulesOn(live, q)
  <2>1. live \in Table /\ l.port \in Port /\ live' = Exposed(live, l)
    BY <1>1, LinePort DEF NodeTypeOK, AllowlistExposePort
  <2>2. live'.exposed = (live.exposed \ RulesOn(live, l.port)) \cup RulesOf(l)
    BY <2>1, ExposedTable
  <2>3. newest' = [newest EXCEPT ![l.port] = l] /\ conf' = live'
    BY <1>1 DEF AllowlistExposePort, Register, Dump
  <2>. QED
    BY <2>1, <2>2, <2>3 DEF RulesOn, RulesOf, NodeTypeOK
<1>2. ASSUME NEW p \in Port, AllowlistUnexposePort(p)
      PROVE /\ conf' = live'
            /\ newest'[p] = NoLine
            /\ RulesOn(live', p) = {}
            /\ \A q \in Port \ {p} : /\ newest'[q] = newest[q]
                                     /\ RulesOn(live', q) = RulesOn(live, q)
  <2>1. live'.exposed = live.exposed \ RulesOn(live, p)
    BY <1>2 DEF AllowlistUnexposePort, NodeTypeOK, Table
  <2>2. newest' = [newest EXCEPT ![p] = NoLine] /\ conf' = live'
    BY <1>2 DEF AllowlistUnexposePort, Unregister, Dump
  <2>. QED
    BY <2>1, <2>2 DEF RulesOn, NodeTypeOK
<1>. QED
  BY <1>1, <1>2, NoLineAssumption DEF PortCommand, PolicyRules

\* The invariants: the boot config is as good as the live table, or a reboot
\* would bring an old policy back.
NoStaleInv == /\ NodeTypeOK /\ NewestOnPort
              /\ NoStaleIn(live) /\ NoStaleIn(conf)

AgreesInv == /\ NodeTypeOK /\ NewestOnPort
             /\ AgreesIn(live) /\ AgreesIn(conf)

\* Missing rules belong to the policy of their port.
LEMMA MissingOnPolicy ==
  ASSUME NodeTypeOK, NewestOnPort, NEW e \in Missing, NEW p \in Port, e.port = p
  PROVE  e \in PolicyRules(p)
<1>1. PICK q \in Uncovered : e \in RulesOf(newest[q])
  BY DEF Missing
<1>2. q \in Port /\ newest[q] # NoLine
  BY <1>1 DEF Uncovered
<1>3. e = newest[q] /\ q = p
  BY <1>1, <1>2 DEF RulesOf, NewestOnPort
<1>. QED
  BY <1>1, <1>2, <1>3 DEF PolicyRules

LEMMA QuietNoStale ==
  ASSUME NoStaleInv, QuietStep
  PROVE  NoStaleIn(live)' /\ NoStaleIn(conf)'
<1>1. ASSUME NEW p \in Port, NEW e \in RulesOn(live', p)
      PROVE  e \in PolicyRules(p)
  <2>1. e.port = p /\ (e \in live.exposed \/ e \in Missing)
    BY <1>1 DEF QuietStep, RulesOn
  <2>. QED
    BY <2>1, MissingOnPolicy DEF NoStaleInv, NoStaleIn, RulesOn
<1>. QED
  BY <1>1 DEF QuietStep, NoStaleInv, NoStaleIn, PolicyRules

LEMMA NoStaleStep == ASSUME NoStaleInv, [NodeNext]_nodeVars PROVE NoStaleInv'
<1>1. NodeTypeOK /\ NodeTypeOK'
  BY StepType DEF NoStaleInv
<1>2. CASE QuietStep
  BY <1>1, <1>2, QuietNoStale DEF NoStaleInv, QuietStep, NewestOnPort
<1>3. CASE PortCommand
  <2>1. PICK p \in Port :
          /\ newest'[p] # NoLine => newest'[p].port = p
          /\ RulesOn(live', p) = PolicyRules(p)'
          /\ \A q \in Port \ {p} : newest'[q] = newest[q] /\ RulesOn(live', q) = RulesOn(live, q)
    BY <1>1, <1>3, PortCommandEffect
  <2>2. conf' = live'
    BY <1>1, <1>3, PortCommandEffect
  <2>3. NewestOnPort'
    BY <2>1 DEF NoStaleInv, NewestOnPort
  <2>4. NoStaleIn(live)'
    BY <2>1 DEF NoStaleInv, NoStaleIn, PolicyRules
  <2>. QED
    BY <1>1, <2>2, <2>3, <2>4 DEF NoStaleInv, NoStaleIn
<1>4. CASE Reboot
  BY <1>1, <1>4 DEF Reboot, NoStaleInv, NoStaleIn, NewestOnPort, PolicyRules
<1>. QED
  BY <1>1, <1>2, <1>3, <1>4, StepKinds

LEMMA InitAgrees == NodeInit => AgreesInv
<1>. SUFFICES ASSUME NodeInit PROVE AgreesInv
  OBVIOUS
<1>1. NodeTypeOK
  BY InitType
<1>2. live.exposed = {} /\ conf = live /\ newest = [p \in Port |-> NoLine]
  BY DEF NodeInit, AllowlistTable
<1>. QED
  BY <1>1, <1>2 DEF AgreesInv, AgreesIn, NewestOnPort, PolicyRules, RulesOn

\* However rules get lost, restored and re-hardened, and however the node
\* reboots, no rule of an older or removed policy of a port is ever in force.
THEOREM StaleNever == NodeSpec => []NoStalePolicy
<1>1. NodeInit => NoStaleInv
  BY InitAgrees DEF AgreesInv, NoStaleInv, AgreesIn, NoStaleIn
<1>2. NoStaleInv /\ [NodeNext]_nodeVars => NoStaleInv'
  BY NoStaleStep
<1>3. NoStaleInv => NoStalePolicy
  BY DEF NoStaleInv, NoStaleIn, NoStalePolicy, PolicyRules
<1>. QED
  BY <1>1, <1>2, <1>3, PTL DEF NodeSpec

-------------------------------------------------------------------------------
(* Without outside damage the chain is exactly the registry's              *)

LEMMA QuietAgrees ==
  ASSUME AgreesInv, QuietStep, Losses = {}, "harden" \notin Edits
  PROVE  /\ \A p \in Port : RulesOn(live', p) = RulesOn(live, p)
         /\ AgreesIn(live)' /\ AgreesIn(conf)'
<1>1. ASSUME NEW p \in Port, NEW e \in RulesOn(live', p)
      PROVE  e \in RulesOn(live, p)
  <2>1. e.port = p /\ (e \in live.exposed \/ e \in Missing)
    BY <1>1 DEF QuietStep, RulesOn
  <2>. QED
    BY <2>1, MissingOnPolicy DEF AgreesInv, AgreesIn, RulesOn
<1>2. \A p \in Port : RulesOn(live', p) = RulesOn(live, p)
  BY <1>1 DEF QuietStep, RulesOn
<1>. QED
  BY <1>2 DEF QuietStep, AgreesInv, AgreesIn, PolicyRules

LEMMA AgreesStep ==
  ASSUME AgreesInv, [NodeNext]_nodeVars, Losses = {}, "harden" \notin Edits
  PROVE  AgreesInv'
<1>1. NodeTypeOK /\ NodeTypeOK'
  BY StepType DEF AgreesInv
<1>2. CASE QuietStep
  BY <1>1, <1>2, QuietAgrees DEF AgreesInv, QuietStep, NewestOnPort
<1>3. CASE PortCommand
  <2>1. PICK p \in Port :
          /\ newest'[p] # NoLine => newest'[p].port = p
          /\ RulesOn(live', p) = PolicyRules(p)'
          /\ \A q \in Port \ {p} : newest'[q] = newest[q] /\ RulesOn(live', q) = RulesOn(live, q)
    BY <1>1, <1>3, PortCommandEffect
  <2>2. conf' = live'
    BY <1>1, <1>3, PortCommandEffect
  <2>3. NewestOnPort'
    BY <2>1 DEF AgreesInv, NewestOnPort
  <2>4. AgreesIn(live)'
    BY <2>1 DEF AgreesInv, AgreesIn, PolicyRules
  <2>. QED
    BY <1>1, <2>2, <2>3, <2>4 DEF AgreesInv, AgreesIn
<1>4. CASE Reboot
  BY <1>1, <1>4 DEF Reboot, AgreesInv, AgreesIn, NewestOnPort, PolicyRules
<1>. QED
  BY <1>1, <1>2, <1>3, <1>4, StepKinds

LEMMA AgreesAlways ==
  ASSUME Losses = {}, "harden" \notin Edits
  PROVE  NodeSpec => []AgreesInv
<1>1. AgreesInv /\ [NodeNext]_nodeVars => AgreesInv'
  BY AgreesStep
<1>. QED
  BY <1>1, InitAgrees, PTL DEF NodeSpec

\* Over any sequence of expose and unexpose commands, refreshes, watchdog runs
\* and reboots, each port's rules are those of its last registry line.
THEOREM ChainAsRegistered ==
  ASSUME Losses = {}, "harden" \notin Edits
  PROVE  NodeSpec => []ExposedAsRegistered
<1>1. AgreesInv => ExposedAsRegistered
  BY DEF AgreesInv, AgreesIn, ExposedAsRegistered, PolicyRules
<1>. QED
  BY <1>1, AgreesAlways, PTL

-------------------------------------------------------------------------------
(* The chain implements PortPolicy                                         *)

LEMMA PolicyStep ==
  ASSUME AgreesInv, [NodeNext]_nodeVars, Losses = {}, "harden" \notin Edits
  PROVE  [Promise!Next]_PolicyInForce
<1>1. NodeTypeOK /\ NodeTypeOK' /\ AgreesInv'
  BY StepType, AgreesStep DEF AgreesInv
<1>2. PolicyInForce = [p \in Port |-> IF RulesOn(live, p) = {} THEN NoLine ELSE newest[p]]
  <2>1. ASSUME NEW p \in Port, RulesOn(live, p) # {}
        PROVE  (CHOOSE e \in RulesOn(live, p) : TRUE) = newest[p]
    BY <2>1 DEF AgreesInv, AgreesIn, PolicyRules, RulesOf
  <2>. QED
    BY <2>1, Zenon DEF PolicyInForce
<1>3. PolicyInForce' = [p \in Port |-> IF RulesOn(live', p) = {} THEN NoLine ELSE newest'[p]]
  <2>1. ASSUME NEW p \in Port, RulesOn(live', p) # {}
        PROVE  (CHOOSE e \in RulesOn(live', p) : TRUE) = newest'[p]
    BY <1>1, <2>1 DEF AgreesInv, AgreesIn, PolicyRules, RulesOf
  <2>. QED
    BY <2>1, Zenon DEF PolicyInForce
<1>4. CASE QuietStep
  <2>1. \A p \in Port : RulesOn(live', p) = RulesOn(live, p)
    BY <1>4, QuietAgrees
  <2>. QED
    BY <1>2, <1>3, <1>4, <2>1 DEF QuietStep
<1>5. CASE Reboot
  <2>1. \A p \in Port : RulesOn(live', p) = RulesOn(live, p)
    BY <1>5 DEF Reboot, AgreesInv, AgreesIn
  <2>. QED
    BY <1>2, <1>3, <1>5, <2>1 DEF Reboot
<1>6. CASE PortCommand
  <2>1. PICK p \in Port :
          /\ newest'[p] \in Lines \cup {NoLine}
          /\ newest'[p] # NoLine => newest'[p].port = p
          /\ RulesOn(live', p) = PolicyRules(p)'
          /\ \A q \in Port \ {p} : newest'[q] = newest[q] /\ RulesOn(live', q) = RulesOn(live, q)
    BY <1>1, <1>6, PortCommandEffect
  <2>2. CASE RulesOn(live', p) = {}
    <3>1. PolicyInForce' = [PolicyInForce EXCEPT ![p] = NoLine]
      BY <1>2, <1>3, <2>1, <2>2
    <3>. QED
      BY <3>1 DEF Promise!Next, Promise!Unexpose, Promise!Port, Port
  <2>3. CASE RulesOn(live', p) # {}
    <3>1. newest'[p] \in Lines /\ newest'[p].port = p
      BY <2>1, <2>3 DEF PolicyRules
    <3>2. PolicyInForce' = [PolicyInForce EXCEPT ![p] = newest'[p]]
      BY <1>2, <1>3, <2>1, <2>3
    <3>. QED
      BY <3>1, <3>2 DEF Promise!Next, Promise!Expose
  <2>. QED
    BY <2>2, <2>3
<1>. QED
  BY <1>1, <1>4, <1>5, <1>6, StepKinds

\* The node's programs implement the promise of the exposed-ports commands.
THEOREM NodeImplementsPolicy ==
  ASSUME Losses = {}, "harden" \notin Edits
  PROVE  NodeSpec => PolicyKept
<1>1. NodeInit => Promise!Init
  <2>. SUFFICES ASSUME NodeInit PROVE PolicyInForce = [p \in Port |-> NoLine]
    BY DEF Promise!Init, Promise!Port, Port
  <2>1. live.exposed = {}
    BY DEF NodeInit, AllowlistTable
  <2>. QED
    BY <2>1 DEF PolicyInForce, RulesOn
<1>2. AgreesInv /\ [NodeNext]_nodeVars => [Promise!Next]_PolicyInForce
  BY PolicyStep
<1>. QED
  BY <1>1, <1>2, AgreesAlways, PTL DEF NodeSpec, PolicyKept, Promise!Spec

-------------------------------------------------------------------------------
(* What is in force, what a reboot brings back, and who gets in              *)

\* Whom a healing lets in is the only one listed of its family, and it touches
\* nothing else.
LEMMA HealedAlone ==
  ASSUME NEW t \in Table, elems \subseteq Admins
  PROVE  /\ Healed(t) = [t EXCEPT !.admin = Healed(t).admin]
         /\ \A a \in Healed(t).admin \ t.admin : SoleListed(a)
<1>. DEFINE gain == UNION {ListedAlone(f) : f \in Emptied(t)}
<1>1. \A a \in gain : SoleListed(a)
  BY DEF ListedAlone, Emptied, SoleListed
<1>2. CASE t.sets
  <2>1. Healed(t) = [t EXCEPT !.admin = t.admin \cup gain]
    BY <1>2 DEF Healed
  <2>. HIDE DEF gain
  <2>. QED
    BY <1>1, <2>1 DEF Table
<1>3. CASE ~t.sets
  BY <1>3 DEF Healed, Table
<1>. QED
  BY <1>2, <1>3

\* The same of a refresh, and of a repair.
LEMMA RestoredAlone ==
  ASSUME NodeTypeOK, NEW n \in Fetch
  PROVE  /\ \A a \in Refreshed(live, n).admin \ live.admin : SoleListed(a)
         /\ \A a \in Restored(n).admin \ live.admin : SoleListed(a)
         /\ \A a \in Healed(live).admin \ live.admin : SoleListed(a)
         /\ \A a \in Healed(WithSets).admin \ live.admin : SoleListed(a)
<1>1. /\ live \in Table /\ elems \subseteq Admins
      /\ WithSets \in Table /\ WithSets.admin = live.admin
  BY DEF NodeTypeOK, WithSets, Table
<1>2. Refreshed(WithSets, n) \in Table /\ Refreshed(WithSets, n).admin = Healed(WithSets).admin
  BY <1>1, RefreshedKeeps
<1>3. Restored(n).admin = Healed(WithSets).admin
  BY <1>2 DEF Restored, Table
<1>. QED
  BY <1>1, <1>2, <1>3, HealedAlone, RefreshedKeeps

\* Steps that let in nobody but the only one listed, and dump or leave the config.
AloneStep == /\ \A a \in live'.admin \ live.admin : SoleListed(a)
             /\ conf' = live' \/ conf' = conf

LEMMA EditAdmits ==
  ASSUME NodeTypeOK, Edit
  PROVE  AloneStep \/ \E a \in Admins : AllowlistAdminAdd(a) /\ conf' = live'
                                          /\ live'.admin = live.admin \cup {a}
<1>1. live \in Table
  BY DEF NodeTypeOK
<1>2. ASSUME NEW a \in Admins, AllowlistAdminAdd(a)
      PROVE  conf' = live' /\ live'.admin = live.admin \cup {a}
  BY <1>1, <1>2 DEF AllowlistAdminAdd, Table, Dump
<1>3. ASSUME NEW a \in Admins, AllowlistAdminRemove(a) PROVE AloneStep
  BY <1>1, <1>3 DEF AllowlistAdminRemove, Table, Dump, AloneStep
<1>4. ASSUME NEW l \in Lines, AllowlistExposePort(l) PROVE AloneStep
  BY <1>1, <1>4 DEF AllowlistExposePort, Exposed, Table, Dump, AloneStep
<1>5. ASSUME NEW p \in Port, AllowlistUnexposePort(p) PROVE AloneStep
  BY <1>1, <1>5 DEF AllowlistUnexposePort, Table, Dump, AloneStep
<1>6. ASSUME NEW q \in Peers, ExposePeerPortDirect(q) PROVE AloneStep
  BY <1>1, <1>6 DEF ExposePeerPortDirect, Table, Dump, AloneStep
<1>7. ASSUME NftablesFirewall PROVE AloneStep
  BY <1>7 DEF NftablesFirewall, BaseTable, Dump, AloneStep
<1>8. ASSUME InstallStateWatch \/ RemoveStateWatch PROVE AloneStep
  BY <1>8 DEF InstallStateWatch, RemoveStateWatch, AloneStep
<1>. QED
  BY <1>2, <1>3, <1>4, <1>5, <1>6, <1>7, <1>8 DEF Edit

LEMMA AdmitStep ==
  ASSUME NodeTypeOK, [NodeNext]_nodeVars
  PROVE  \A a \in Admitted(live', conf') \ Admitted(live, conf) :
           AllowlistAdminAdd(a) \/ SoleListed(a)
<1>1. ASSUME AloneStep
      PROVE  \A a \in Admitted(live', conf') \ Admitted(live, conf) : SoleListed(a)
  BY <1>1 DEF AloneStep, Admitted
<1>2. CASE DailyRefresh \/ RefreshAllowlist
  <2>1. ASSUME NEW user, NEW n \in Fetch, Updater(user, n) PROVE AloneStep
    BY <2>1, RestoredAlone DEF Updater, Dump, AloneStep
  <2>. QED
    BY <1>1, <1>2, <2>1 DEF DailyRefresh, RefreshAllowlist
<1>3. CASE Watch
  <2>1. PICK n \in Fetch : WatchRun(n)
    BY <1>3 DEF Watch
  <2>2. CASE WatchRepairs(n)
    BY <1>1, <2>2, RestoredAlone DEF WatchRepairs, Dump, AloneStep
  <2>3. CASE WatchFails(n)
    <3>1. WithSets.admin = live.admin
      BY DEF WithSets, NodeTypeOK, Table
    <3>. QED
      BY <1>1, <2>3, <3>1, RestoredAlone DEF WatchFails, AloneStep
  <2>4. CASE WatchFindsNothing
    BY <1>1, <2>4 DEF WatchFindsNothing, AloneStep
  <2>. QED
    BY <2>1, <2>2, <2>3, <2>4 DEF WatchRun
<1>4. CASE Edit
  BY <1>1, <1>4, EditAdmits DEF Admitted
<1>5. CASE Loss
  BY <1>1, <1>5 DEF Loss, NodeTypeOK, Table, AloneStep
<1>6. CASE StateAges \/ Reboot \/ UNCHANGED nodeVars
  BY <1>6 DEF StateAges, Reboot, nodeVars, Admitted
<1>. QED
  BY <1>2, <1>3, <1>4, <1>5, <1>6 DEF NodeNext, NodeStep

\* Whatever gets lost, is refreshed, repaired, re-hardened or rebooted, over any
\* login: whom neither the table nor the boot config admits gets in only by
\* `admin add`, or as the only address of its family that is listed.
THEOREM OutsidersStayOut == NodeSpec => OutStaysOut
<1>1. NodeTypeOK /\ [NodeNext]_nodeVars =>
        [\A a \in Admitted(live', conf') \ Admitted(live, conf) :
           AllowlistAdminAdd(a) \/ SoleListed(a)]_nodeVars
  BY AdmitStep
<1>. QED
  BY <1>1, NodeTypeCorrect, PTL DEF NodeSpec, OutStaysOut

\* The table and the boot config differ in admins that are listed alone.
RebootInv == NodeTypeOK /\ SurvivesReboot /\ live.sets

\* A dump makes them equal.
LEMMA DumpedReboot ==
  ASSUME live' \in Table, conf' = live'
  PROVE  SurvivesReboot'
  BY DEF SurvivesReboot, Table

\* A healing without a dump adds to the difference whom it lets in.
LEMMA HealedReboot ==
  ASSUME RebootInv, live' = Healed(live), conf' = conf, elems' = elems
  PROVE  SurvivesReboot' /\ live'.sets
<1>1. live \in Table /\ conf \in Table /\ elems \subseteq Admins
  BY DEF RebootInv, NodeTypeOK
<1>2. /\ live' = [live EXCEPT !.admin = live'.admin]
      /\ \A a \in live'.admin \ live.admin : SoleListed(a)
      /\ live.admin \subseteq live'.admin /\ live'.sets = live.sets
  BY <1>1, HealedAlone, HealedKeeps
<1>3. conf' = [live' EXCEPT !.admin = conf'.admin]
  BY <1>1, <1>2 DEF RebootInv, SurvivesReboot, Table
<1>4. \A a \in live'.admin \ conf'.admin : SoleListed(a)'
  BY <1>2 DEF RebootInv, SurvivesReboot, SoleListed
<1>5. conf'.admin \subseteq live'.admin
  BY <1>2 DEF RebootInv, SurvivesReboot
<1>. QED
  BY <1>2, <1>3, <1>4, <1>5 DEF RebootInv, SurvivesReboot

LEMMA UpdaterReboot ==
  ASSUME RebootInv, NEW user, NEW n \in Fetch, Updater(user, n)
  PROVE  RebootInv'
<1>1. NodeTypeOK' /\ elems' = elems /\ live \in Table /\ elems \subseteq Admins
  BY UpdaterType DEF RebootInv, Updater, NodeTypeOK
<1>2. CASE Enough(n)
  <2>1. live' = Refreshed(live, n) /\ conf' = live'
    BY <1>2 DEF Updater, Dump, RebootInv
  <2>2. live'.sets
    BY <1>1, <2>1, RefreshedKeeps DEF RebootInv
  <2>3. live' \in Table
    BY <1>1 DEF NodeTypeOK
  <2>. QED
    BY <1>1, <2>1, <2>2, <2>3, DumpedReboot DEF RebootInv
<1>3. CASE ~Enough(n)
  BY <1>1, <1>3, HealedReboot DEF Updater, RebootInv
<1>. QED
  BY <1>2, <1>3

LEMMA WatchReboot ==
  ASSUME RebootInv, NEW n \in Fetch, WatchRun(n)
  PROVE  RebootInv'
<1>1. NodeTypeOK' /\ elems' = elems /\ live \in Table /\ elems \subseteq Admins
  BY WatchType DEF RebootInv, WatchRun, NodeTypeOK
<1>2. WithSets = live
  BY <1>1 DEF WithSets, RebootInv, Table
<1>3. CASE WatchRepairs(n)
  <2>1. Refreshed(live, n) \in Table /\ Refreshed(live, n).sets
    BY <1>1, RefreshedKeeps DEF RebootInv
  <2>2. Restored(n).sets
    BY <1>2, <2>1 DEF Restored, Table
  <2>3. live' \in Table
    BY <1>1 DEF NodeTypeOK
  <2>. QED
    BY <1>1, <1>3, <2>2, <2>3, DumpedReboot DEF WatchRepairs, Dump, RebootInv
<1>4. CASE WatchFails(n)
  <2>1. CASE "allowlist" \in units
    BY <1>1, <1>2, <1>4, <2>1, HealedReboot DEF WatchFails, RebootInv
  <2>2. CASE "allowlist" \notin units
    <3>1. live' = live /\ conf' = conf
      BY <1>2, <1>4, <2>2 DEF WatchFails
    <3>. QED
      BY <1>1, <3>1 DEF RebootInv, SurvivesReboot, SoleListed
  <2>. QED
    BY <2>1, <2>2
<1>5. CASE WatchFindsNothing
  BY <1>1, <1>5 DEF WatchFindsNothing, RebootInv, SurvivesReboot, SoleListed
<1>. QED
  BY <1>3, <1>4, <1>5 DEF WatchRun

LEMMA EditReboot ==
  ASSUME RebootInv, Edit, "harden" \notin Edits
  PROVE  RebootInv'
<1>1. NodeTypeOK' /\ live \in Table /\ live' \in Table
  BY EditType DEF RebootInv, NodeTypeOK
<1>2. ASSUME NEW a \in Admins, AllowlistAdminAdd(a) \/ AllowlistAdminRemove(a)
      PROVE  live'.sets /\ conf' = live'
  BY <1>1, <1>2 DEF AllowlistAdminAdd, AllowlistAdminRemove, RebootInv, Table, Dump
<1>3. ASSUME NEW l \in Lines, AllowlistExposePort(l) PROVE live'.sets /\ conf' = live'
  BY <1>1, <1>3 DEF AllowlistExposePort, Exposed, RebootInv, Table, Dump
<1>4. ASSUME NEW p \in Port, AllowlistUnexposePort(p) PROVE live'.sets /\ conf' = live'
  BY <1>1, <1>4 DEF AllowlistUnexposePort, RebootInv, Table, Dump
<1>5. ASSUME NEW q \in Peers, ExposePeerPortDirect(q) PROVE live'.sets /\ conf' = live'
  BY <1>1, <1>5 DEF ExposePeerPortDirect, RebootInv, Table, Dump
<1>6. ASSUME InstallStateWatch \/ RemoveStateWatch PROVE RebootInv'
  BY <1>1, <1>6 DEF InstallStateWatch, RemoveStateWatch, RebootInv, SurvivesReboot, SoleListed
<1>7. ASSUME live'.sets, conf' = live' PROVE RebootInv'
  BY <1>1, <1>7, DumpedReboot DEF RebootInv
<1>. QED
  BY <1>2, <1>3, <1>4, <1>5, <1>6, <1>7 DEF Edit

LEMMA RebootInvStep ==
  ASSUME RebootInv, [NodeNext]_nodeVars, Losses = {}, "harden" \notin Edits
  PROVE  RebootInv'
<1>0. NodeTypeOK'
  BY StepType DEF RebootInv
<1>1. CASE DailyRefresh \/ RefreshAllowlist
  BY <1>1, UpdaterReboot DEF DailyRefresh, RefreshAllowlist
<1>2. CASE StateAges
  BY <1>0, <1>2 DEF StateAges, RebootInv, SurvivesReboot, SoleListed
<1>3. CASE Watch
  BY <1>3, WatchReboot DEF Watch
<1>4. CASE Edit
  BY <1>4, EditReboot
<1>5. CASE Loss
  BY <1>5 DEF Loss
<1>6. CASE Reboot
  <2>1. live' = conf /\ conf' = conf /\ live' \in Table
    BY <1>0, <1>6 DEF Reboot, NodeTypeOK
  <2>2. conf.sets
    BY DEF RebootInv, SurvivesReboot, NodeTypeOK, Table
  <2>. QED
    BY <1>0, <2>1, <2>2, DumpedReboot DEF RebootInv
<1>7. CASE UNCHANGED nodeVars
  BY <1>0, <1>7 DEF nodeVars, RebootInv, SurvivesReboot, SoleListed
<1>. QED
  BY <1>1, <1>2, <1>3, <1>4, <1>5, <1>6, <1>7 DEF NodeNext, NodeStep

\* Over any login, and as long as nothing is lost behind sdk-ops' back and the node
\* is not hardened again, a reboot changes nothing but admins that are listed alone
\* and were healed by a refresh that then gave up.
THEOREM RebootChangesNothing ==
  ASSUME Losses = {}, "harden" \notin Edits
  PROVE  NodeSpec => []SurvivesReboot
<1>1. NodeInit => RebootInv
  <2>. SUFFICES ASSUME NodeInit PROVE RebootInv
    OBVIOUS
  <2>1. NodeTypeOK
    BY InitType
  <2>. QED
    BY <2>1 DEF NodeInit, AllowlistTable, RebootInv, SurvivesReboot, NodeTypeOK, Table
<1>2. RebootInv /\ [NodeNext]_nodeVars => RebootInv'
  BY RebootInvStep
<1>3. RebootInv => SurvivesReboot
  BY DEF RebootInv
<1>. QED
  BY <1>1, <1>2, <1>3, PTL DEF NodeSpec
===============================================================================
