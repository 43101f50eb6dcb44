------------------------------- MODULE NftTable -------------------------------
(***************************************************************************)
(* The nftables table `inet filter` of a managed node, as data: what the   *)
(* programs in src/hardening put into it and read back from it.  A rule    *)
(* block, a set element or an exposed port is abstracted to the fact that  *)
(* it is there; the order of rules inside a block is not kept.             *)
(***************************************************************************)
EXTENDS Naturals

CONSTANTS
  Admins,   \* addresses an operator can list as a permanent admin
  V6Admins, \* those of them that are IPv6 (they live in set admin6)
  Lines,    \* the port exposures an operator can ask for: [port, proto, scope]
  Peers     \* fleet peers that get a direct accept in the input chain

Family  == {"v4", "v6"}
Proto   == {"tcp", "udp"}
Scope   == {"admin", "global", "ips", "traefik"}
Profile == {"base", "normal", "strict"}

Port == {l.port : l \in Lines}

ASSUME LinesAssumption ==
  /\ V6Admins \subseteq Admins
  /\ \A l \in Lines : l \in [port : {l.port}, proto : Proto, scope : Scope]

Table ==
  [ rules   : SUBSET Profile,  \* profiles whose rule block the input chain holds
    sets    : BOOLEAN,         \* the sets admin4/6 and allow4/6 exist
    chain   : BOOLEAN,         \* the chain `exposed` exists and is jumped to
    admin   : SUBSET Admins,   \* elements of admin4 and admin6
    allow   : SUBSET Family,   \* families whose allow set has elements
    exposed : SUBSET Lines,    \* port exposures with rules in the chain
    peers   : SUBSET Peers ]   \* direct peer accepts

OfFamily(f) == IF f = "v6" THEN V6Admins ELSE Admins \ V6Admins

\* The plain hardening ruleset: default drop, SSH open to everyone, no sets.
BaseTable ==
  [rules |-> {"base"}, sets |-> FALSE, chain |-> FALSE, admin |-> {},
   allow |-> {}, exposed |-> {}, peers |-> {}]

\* GenerateAllowlistConfig: one profile block, empty allow sets, the admins.
AllowlistTable(cfg) ==
  [rules |-> {cfg.profile}, sets |-> TRUE, chain |-> TRUE, admin |-> cfg.admin,
   allow |-> {}, exposed |-> {}, peers |-> {}]

\* `nft flush table`: every rule goes, chains, sets and set elements stay.
FlushRules(t) == [t EXCEPT !.rules = {}, !.exposed = {}, !.peers = {}]

\* `nft -f file` with no flush in the file: declarations add to what is there.
LoadFile(t, c) ==
  [rules   |-> t.rules \cup c.rules,
   sets    |-> t.sets \/ c.sets,
   chain   |-> t.chain \/ c.chain,
   admin   |-> t.admin \cup c.admin,
   allow   |-> t.allow \cup c.allow,
   exposed |-> t.exposed \cup c.exposed,
   peers   |-> t.peers \cup c.peers]

\* buildExposeRules: what a registered exposure puts into the chain.
RulesOf(l) == IF l.scope = "traefik" THEN {} ELSE {l}

\* Variant: `grep "dport p"` without the word boundary, so 80 matches 8080.
RulesOnPrefix(t, p) == {e \in t.exposed : e.port = p \/ e.port \div 100 = p}

\* Every rule whose text matches `dport p`, whatever its protocol.
RulesOn(t, p) == {e \in t.exposed : e.port = p}

\* A new SSH connection from address a is accepted.
MaySSH(t, a) == \/ t.rules \cap {"base", "normal"} # {}
                \/ "strict" \in t.rules /\ a \in t.admin
===============================================================================
