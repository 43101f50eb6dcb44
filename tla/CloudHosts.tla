------------------------------ MODULE CloudHosts ------------------------------
(***************************************************************************)
(* The hosts of a fleet file that declare a provider: `apply` creates a    *)
(* machine for each one without an address, waits for the address, and     *)
(* provisions it; `destroy` deletes them by name; `infra firewall          *)
(* allowlist` replaces the rules of the provider's own firewall.  Nothing  *)
(* is saved between two commands: the operator copies addresses into the   *)
(* file.  An address is the machine's number, Self is 0.0.0.0.             *)
(* Source: src/cmd/sdk-ops/provision.go, infra.go, src/providers.          *)
(***************************************************************************)
EXTENDS Integers, Sequences, FiniteSets

CONSTANTS
  Entries,    \* the names of those hosts, in the order of the file
  Placements, \* the vendor of each entry, and the label Other of machines the file lacks
  Other,
  Keyed,      \* vendors the operator has a key for
  Peerings,   \* the peers section: sets of pairs of entries, from and to
  PeerIPs,    \* entries with a peer_ip of their own
  Page,       \* how many machines, or rules, the first page of a list shows
  Ranges,     \* lists of ranges for the cloud firewall
  Limit,      \* bound: machines the account ever gets
  Failures    \* bound: what goes wrong

Entry   == {Entries[i] : i \in DOMAIN Entries}
Nowhere == -1
Self    == 0

\* What each vendor does: does CreateVPS wait for the address, what address does a
\* machine have until then, has its list names, and which machines does it show.
CubePath     == [waits |-> TRUE,  blank |-> Nowhere, named |-> TRUE,  shows |-> "all"]
Vultr        == [waits |-> TRUE,  blank |-> Self,    named |-> TRUE,  shows |-> "page"]
Civo         == [waits |-> TRUE,  blank |-> Nowhere, named |-> TRUE,  shows |-> "regions"]
Hetzner      == [waits |-> FALSE, blank |-> Nowhere, named |-> TRUE,  shows |-> "page"]
Aws          == [waits |-> FALSE, blank |-> Nowhere, named |-> FALSE, shows |-> "all"]
DigitalOcean == [waits |-> FALSE, blank |-> Nowhere, named |-> TRUE,  shows |-> "page"]

Vendor == [cubepath |-> CubePath, vultr |-> Vultr, civo |-> Civo,
           hetzner |-> Hetzner, aws |-> Aws, digitalocean |-> DigitalOcean]

ASSUME CloudConstants ==
  /\ Entries \in Seq(Entry) /\ Entries # <<>> /\ Placements \subseteq [Entry -> DOMAIN Vendor]
  /\ Page \in Nat \ {0} /\ Failures \in Nat

VARIABLES
  vendor,   \* per entry, fixed
  peering,  \* the peers section of the file, fixed
  filed,    \* per entry: the address in the file
  machines, \* the machines in the order they were created; late: CreateVPS gave up on the address
  command,  \* what runs, over which entries, on which machine or entry
  held,     \* per entry: the address the command holds
  inited,   \* per entry: the addresses its init has run on
  group,    \* the rules of the cloud firewall
  sync,     \* the sync of it: what it asked for, has yet to delete and to create, was not shown
  failures  \* what went wrong so far

cloudVars == <<vendor, peering, filed, machines, command, held, inited, group, sync, failures>>

Idle(how)  == [kind |-> "idle", over |-> {}, at |-> 0, how |-> how]
Quiet(how) == [asked |-> {}, drop |-> {}, add |-> {}, unseen |-> {}, how |-> how]

CloudTypeOK ==
  /\ vendor \in Placements /\ peering \in Peerings
  /\ filed \in [Entry -> Int] /\ held \in [Entry -> Int] /\ inited \in [Entry -> SUBSET Int]
  /\ machines \in Seq([label : Entry \cup {Other}, vendor : DOMAIN Vendor, ip : Int,
                       alive : BOOLEAN, late : BOOLEAN])
  /\ command \in [kind : {"idle", "create", "wait", "destroy"}, over : SUBSET Entry, at : Nat,
                  how : {"none", "running", "failed", "killed", "applied", "destroyed"}]
  /\ group \subseteq UNION Ranges
  /\ sync \in [asked : SUBSET UNION Ranges, drop : SUBSET UNION Ranges, add : SUBSET UNION Ranges,
               unseen : SUBSET UNION Ranges, how : {"none", "running", "failed", "ok"}]
  /\ failures \in 0 .. Failures

Standing(v) == {m \in DOMAIN machines : machines[m].alive /\ machines[m].vendor = v}

CloudInit ==
  /\ vendor \in Placements /\ peering \in Peerings
  /\ filed = [e \in Entry |-> Nowhere] /\ held = filed
  /\ machines = <<[label |-> Other, vendor |-> vendor[Head(Entries)], ip |-> 1, alive |-> TRUE, late |-> FALSE]>>
  /\ command = Idle("none") /\ inited = [e \in Entry |-> {}]
  /\ group = {} /\ sync = Quiet("none") /\ failures = 0

Fails == failures < Failures /\ failures' = failures + 1

----------------------------------------------------------------------------
(* apply.                                                                    *)
StartApply(over) ==
  /\ command.kind = "idle" /\ over # {}
  /\ command' = [kind |-> "create", over |-> over, at |-> 0, how |-> "running"]
  /\ held' = filed
  /\ UNCHANGED <<vendor, peering, filed, machines, inited, group, sync, failures>>

\* ensureTopologyVPS: the hosts that have no address, in the order of the file.
Addressless == {i \in DOMAIN Entries : Entries[i] \in command.over /\ held[Entries[i]] = Nowhere}
NextHost == Entries[CHOOSE i \in Addressless : \A j \in Addressless : i <= j]

\* getInfraProvider.
HasKey(e) == vendor[e] \in Keyed

NewMachine(e) ==
  [label |-> e, vendor |-> vendor[e], ip |-> Vendor[vendor[e]].blank, alive |-> TRUE, late |-> FALSE]

Create ==
  /\ command.kind = "create" /\ Addressless # {}
  /\ LET e == NextHost
     IN \/ /\ HasKey(e) /\ Len(machines) < Limit
           /\ machines' = Append(machines, NewMachine(e))
           /\ \/ /\ command' = [command EXCEPT !.kind = "wait", !.at = Len(machines) + 1]
                 /\ UNCHANGED failures
              \/ command' = Idle("failed") /\ Fails      \* the answer is lost
        \/ /\ ~HasKey(e) \/ Len(machines) = Limit
           /\ command' = Idle("failed") /\ UNCHANGED <<machines, failures>>
        \/ command' = Idle("failed") /\ Fails /\ UNCHANGED machines
  /\ UNCHANGED <<vendor, peering, filed, held, inited, group, sync>>

\* The vendor gives a machine its address.
Assign(m) ==
  /\ machines[m].alive /\ machines[m].ip <= Self
  /\ machines' = [machines EXCEPT ![m].ip = m]
  /\ UNCHANGED <<vendor, peering, filed, command, held, inited, group, sync, failures>>

\* Variant: the wait of CreateVPS takes 0.0.0.0 for an address.
CreateReturnedAnyhow(m) ==
  machines[m].ip # Nowhere \/ ~Vendor[machines[m].vendor].waits \/ machines[m].late

\* CreateVPS returns with the address, or when its wait is over.
CreateReturned(m) ==
  machines[m].ip > Self \/ ~Vendor[machines[m].vendor].waits \/ machines[m].late

\* Its wait is over, after 30 looks five seconds apart.
GiveUp ==
  /\ command.kind = "wait" /\ ~CreateReturned(command.at)
  /\ machines' = [machines EXCEPT ![command.at].late = TRUE] /\ Fails
  /\ UNCHANGED <<vendor, peering, filed, command, held, inited, group, sync>>

\* waitForVPSIP takes what GetVPS gives, unless it is empty.
Wait ==
  /\ command.kind = "wait" /\ CreateReturned(command.at)
  /\ \/ /\ machines[command.at].ip # Nowhere
        /\ held' = [held EXCEPT ![machines[command.at].label] = machines[command.at].ip]
        /\ command' = [command EXCEPT !.kind = "create", !.at = 0] /\ UNCHANGED failures
     \/ machines[command.at].ip <= Self /\ command' = Idle("failed") /\ Fails /\ UNCHANGED held
  /\ UNCHANGED <<vendor, peering, filed, machines, inited, group, sync>>

\* The map of names was made before any machine was: it has the name of a host whose
\* address was not in the file, and no rule can be written for that.
PeerKnown(e) == e \in PeerIPs \/ filed[e] # Nowhere

\* The hosts of the file have the new addresses only when none was left out by a tag.
TargetKnown(e) == command.over = Entry \/ filed[e] # Nowhere

Up(a) == a \in DOMAIN machines /\ machines[a].alive

\* provisionHosts, and the peers after it: all is well only if every host answers.
Provision ==
  /\ command.kind = "create" /\ Addressless = {}
  /\ inited' = [e \in Entry |-> IF e \in command.over /\ (Up(held[e]) \/ held[e] = Self)
                                  THEN inited[e] \cup {held[e]} ELSE inited[e]]
  /\ \/ /\ \A e \in command.over : Up(held[e])
        /\ \A p \in peering : PeerKnown(p[1]) /\ TargetKnown(p[2])
        /\ command' = Idle("applied") /\ UNCHANGED failures
     \/ /\ \/ \E e \in command.over : ~Up(held[e])
           \/ \E p \in peering : ~PeerKnown(p[1]) \/ ~TargetKnown(p[2])
        /\ command' = Idle("failed") /\ UNCHANGED failures
     \/ command' = Idle("failed") /\ Fails
  /\ UNCHANGED <<vendor, peering, filed, machines, held, group, sync>>

\* The command is stopped between two calls.
Kill ==
  /\ command.kind # "idle" /\ Fails /\ command' = Idle("killed")
  /\ UNCHANGED <<vendor, peering, filed, machines, held, inited, group, sync>>

\* The operator copies the address of the host's machine into the file, or takes it out.
Copy(e) ==
  /\ command.kind = "idle"
  /\ \E a \in {Nowhere} \cup {m \in Standing(vendor[e]) : machines[m].label = e /\ machines[m].ip > Self} :
        filed' = [filed EXCEPT ![e] = a]
  /\ UNCHANGED <<vendor, peering, machines, command, held, inited, group, sync, failures>>

----------------------------------------------------------------------------
(* destroy.                                                                  *)
StartDestroy ==
  /\ command.kind = "idle"
  /\ command' = [kind |-> "destroy", over |-> Entry, at |-> 1, how |-> "running"]
  /\ UNCHANGED <<vendor, peering, filed, machines, held, inited, group, sync, failures>>

\* ListVPS: everything, the first page, or what the regions that answer have.
Lists(v) ==
  LET all == Standing(v)
  IN CASE Vendor[v].shows = "all"  -> {all}
       [] Vendor[v].shows = "page" -> {l \in SUBSET all : Cardinality(l) = IF Cardinality(all) < Page THEN Cardinality(all) ELSE Page}
       [] OTHER -> {all} \cup IF failures < Failures THEN {{}} ELSE {}

\* Variant: by label alone, which the lists that come in pages leave empty.
MatchLabel(l, e) ==
  {m \in l : Vendor[machines[m].vendor].shows # "page" /\ machines[m].label = e}

Match(l, e) == {m \in l : Vendor[machines[m].vendor].named /\ machines[m].label = e}

\* runDestroy for one host, deleteProviderVPS: the first machine of that name, if any.
Delete ==
  /\ command.kind = "destroy" /\ command.at \in DOMAIN Entries
  /\ LET e == Entries[command.at]
         next == [command EXCEPT !.at = @ + 1]
     IN \/ /\ HasKey(e)
           /\ \E l \in Lists(vendor[e]) :
                /\ \/ /\ Match(l, e) = {} /\ UNCHANGED machines
                   \/ \E m \in Match(l, e) : machines' = [machines EXCEPT ![m].alive = FALSE]
                /\ failures' = IF l = {} /\ Standing(vendor[e]) # {} THEN failures + 1 ELSE failures
           /\ command' = next
        \/ ~HasKey(e) /\ command' = Idle("failed") /\ UNCHANGED <<machines, failures>>
        \/ HasKey(e) /\ command' = Idle("failed") /\ Fails /\ UNCHANGED machines
  /\ UNCHANGED <<vendor, peering, filed, held, inited, group, sync>>

Destroyed ==
  /\ command.kind = "destroy" /\ command.at > Len(Entries)
  /\ command' = Idle("destroyed")
  /\ UNCHANGED <<vendor, peering, filed, machines, held, inited, group, sync, failures>>

----------------------------------------------------------------------------
(* SyncFirewallAllowlist: the rules it is shown go first, then the new ones   *)
(* come, one call for each.                                                   *)
Begun(ranges, shown, drop) ==
  sync' = [asked |-> ranges, drop |-> drop, add |-> ranges, unseen |-> group \ shown, how |-> "running"]

\* ListFirewallRules: the first page of them.
Shown == {l \in SUBSET group : Cardinality(l) = IF Cardinality(group) < Page THEN Cardinality(group) ELSE Page}

\* Variant: the rules there are stay.
StartSyncOnTop(ranges) ==
  /\ sync.how # "running"
  /\ \E shown \in Shown : Begun(ranges, shown, {})
  /\ UNCHANGED <<vendor, peering, filed, machines, command, held, inited, group, failures>>

StartSync(ranges) ==
  /\ sync.how # "running"
  /\ \E shown \in Shown : Begun(ranges, shown, shown)
  /\ UNCHANGED <<vendor, peering, filed, machines, command, held, inited, group, failures>>

DropRule ==
  /\ sync.how = "running"
  /\ \E r \in sync.drop : group' = group \ {r} /\ sync' = [sync EXCEPT !.drop = @ \ {r}]
  /\ UNCHANGED <<vendor, peering, filed, machines, command, held, inited, failures>>

AddRule ==
  /\ sync.how = "running" /\ sync.drop = {}
  /\ \E r \in sync.add : group' = group \cup {r} /\ sync' = [sync EXCEPT !.add = @ \ {r}]
  /\ UNCHANGED <<vendor, peering, filed, machines, command, held, inited, failures>>

SyncEnds ==
  /\ sync.how = "running"
  /\ \/ sync.drop = {} /\ sync.add = {} /\ sync' = [sync EXCEPT !.how = "ok"] /\ UNCHANGED failures
     \/ Fails /\ sync' = Quiet("failed")
  /\ UNCHANGED <<vendor, peering, filed, machines, command, held, inited, group>>

----------------------------------------------------------------------------
HostsNext ==
  \/ \E over \in SUBSET Entry : StartApply(over)
  \/ Create \/ GiveUp \/ Wait \/ Provision \/ Kill
  \/ \E m \in DOMAIN machines : Assign(m)
  \/ \E e \in Entry : Copy(e)
  \/ StartDestroy \/ Delete \/ Destroyed

SyncNext ==
  \/ \E r \in Ranges : StartSync(r)
  \/ DropRule \/ AddRule \/ SyncEnds

CloudSpec == CloudInit /\ [][HostsNext \/ SyncNext]_cloudVars

(* A started destroy goes on, and the operator runs destroy again.            *)
Persistent == WF_cloudVars(StartDestroy) /\ WF_cloudVars(Delete) /\ WF_cloudVars(Destroyed)

----------------------------------------------------------------------------
(* Whatever the vendors answer and whenever the commands are stopped, the     *)
(* init of a host runs on machines that were created under its name, with one *)
(* exception: where CreateVPS gave up on a machine that the vendor lists at   *)
(* 0.0.0.0 (Vultr), waitForVPSIP takes that for its address, and init dials   *)
(* the operator's own machine.                                                *)
LateSelf(e) ==
  \E m \in DOMAIN machines :
    machines[m].label = e /\ machines[m].late /\ Vendor[machines[m].vendor].blank = Self

OwnMachineOrLate ==
  \A e \in Entry : \A a \in inited[e] :
    \/ a > Self /\ machines[a].label = e
    \/ a = Self /\ LateSelf(e)

(* However many machines failed and repeated applies have left under a name,  *)
(* running destroy again gets rid of all of them, where the vendor's list has *)
(* names and shows them.                                                      *)
DestroyPersists ==
  \A e \in Entry :
    /\ <>[](command.kind \in {"idle", "destroy"})
    /\ \A f \in Entry : HasKey(f)
    /\ Vendor[vendor[e]].named
    /\ <>[](Cardinality(Standing(vendor[e])) <= Page)
    => <>[](\A m \in Standing(vendor[e]) : machines[m].label # e)

(* A sync that answers ok leaves the rules it was asked for and no other,     *)
(* whatever earlier syncs have left half done, but for rules that were beyond *)
(* the first page of the list: those stay.                                    *)
SyncExact == sync.how = "ok" => group = sync.asked \cup sync.unseen
==============================================================================
