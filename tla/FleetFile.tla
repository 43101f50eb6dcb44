------------------------------ MODULE FleetFile ------------------------------
(***************************************************************************)
(* The fleet file: the layers it has (global, group, host), the settings   *)
(* each host ends up with, and what is refused before a host is touched.   *)
(* Every operator is pure.                                                 *)
(* Source: src/cmd/sdk-ops/provision.go.                                   *)
(***************************************************************************)
EXTENDS Integers, Sequences, FiniteSets, TLC

CONSTANTS
  Unset,                \* an empty string, a nil pointer or a missing key
  Address, Network      \* texts that parse as an address, and as a network

Settings == {"allowlist", "admins", "https", "security", "traefik"}

\* A layer: what it sets, its swap section, its services and its tags.
NothingSet == [set |-> [s \in Settings |-> Unset], swap |-> Unset, services |-> <<>>, tags |-> <<>>]

\* normalizeProvision: hosts, and a mode that is docker unless one is given.
Normal(pf) ==
  IF pf.hosts = <<>> \/ pf.mode \notin {Unset, "k3s", "docker", "bare"} THEN {}
  ELSE {[pf EXCEPT !.mode = IF @ = Unset THEN "docker" ELSE @]}

----------------------------------------------------------------------------
(* selectHostsByTags: the hosts themselves, or copies of those that match.    *)
Tagged(hosts, want) ==
  IF want = {} THEN hosts
  ELSE SelectSeq(hosts, LAMBDA h : \E i \in DOMAIN h.layer.tags : h.layer.tags[i] \in want)

mergeServices(dst, src) == src @@ dst

Over(lower, upper) == [s \in Settings |-> IF upper[s] = Unset THEN lower[s] ELSE upper[s]]

\* applyGroup: a group replaces the sections it has.
applyGroup(r, g) ==
  [set |-> Over(r.set, g.set), swap |-> IF g.swap = Unset THEN r.swap ELSE g.swap,
   services |-> mergeServices(r.services, g.services), tags |-> r.tags \o g.tags]

\* applyHost: of the swap, a host says only the size.
applyHost(r, h) ==
  [set |-> Over(r.set, h.layer.set), swap |-> IF h.swapMB > 0 THEN [r.swap EXCEPT !.size = h.swapMB] ELSE r.swap,
   services |-> mergeServices(r.services, h.layer.services), tags |-> r.tags \o h.layer.tags]

resolveHostConfig(pf, h) ==
  LET global == [pf.global EXCEPT !.tags = <<>>]
  IN applyHost(IF h.group \in DOMAIN pf.groups THEN applyGroup(global, pf.groups[h.group]) ELSE global, h)

----------------------------------------------------------------------------
(* What validateProvision refuses.                                            *)

\* validateHosts.  Nothing asks that names differ.
ValidHosts(pf) ==
  \A i \in DOMAIN pf.hosts :
    LET h == pf.hosts[i]
    IN /\ h.name # Unset /\ (h.host # Unset \/ h.provider # Unset)
       /\ h.host \in {Unset} \cup Address /\ h.peerIP \in {Unset} \cup Address \cup Network
       /\ h.group \in {Unset} \cup DOMAIN pf.groups

\* The map it returns: a name's last host, and the name itself for want of an address.
PeerAddress(pf) ==
  [n \in {pf.hosts[i].name : i \in DOMAIN pf.hosts} |->
     LET h == pf.hosts[CHOOSE i \in DOMAIN pf.hosts : /\ pf.hosts[i].name = n
                         /\ \A j \in i + 1 .. Len(pf.hosts) : pf.hosts[j].name # n]
     IN IF h.peerIP # Unset THEN h.peerIP ELSE IF h.host # Unset THEN h.host ELSE n]

\* findProvisionHost: a name's first host.
HostNamed(pf, n) ==
  pf.hosts[CHOOSE i \in DOMAIN pf.hosts : pf.hosts[i].name = n /\ \A j \in 1 .. i - 1 : pf.hosts[j].name # n]

ValidPeers(pf) ==
  \A p \in pf.peers : {p.from, p.to} \subseteq DOMAIN PeerAddress(pf) /\ p.ports # {}

\* A step names a group before it names a host.
ValidDeployOrder(pf) ==
  \A i \in DOMAIN pf.order :
    LET step == pf.order[i]
    IN IF step.group # Unset THEN step.group \in DOMAIN pf.groups
       ELSE step.host \in DOMAIN PeerAddress(pf)

ValidBansAndTelegram(pf) ==
  /\ pf.bans \subseteq Address \cup Network
  /\ pf.telegram.enabled => pf.telegram.key # Unset /\ pf.telegram.chat # Unset

\* A role makes one cluster of the fleet.
ValidK3sRoles(pf) ==
  LET servers == {i \in DOMAIN pf.hosts : pf.hosts[i].role = "server"}
  IN (\E i \in DOMAIN pf.hosts : pf.hosts[i].role # Unset) =>
        /\ \A i \in DOMAIN pf.hosts : pf.hosts[i].role \in {Unset, "server", "agent"}
        /\ pf.mode = "k3s" /\ servers # {} /\ (Cardinality(servers) > 1 => pf.ha)

\* An address is compared as it is spelled.
ValidVLANs(pf) ==
  LET seats == UNION {{<<v, a>> : a \in DOMAIN pf.vlans[v].hosts} : v \in DOMAIN pf.vlans}
      Seat(s) == pf.vlans[s[1]].hosts[s[2]]
  IN /\ \A v \in DOMAIN pf.vlans : pf.vlans[v].name # Unset
     /\ \A s \in seats :
          /\ \E i \in DOMAIN pf.hosts : pf.hosts[i].name = Seat(s).name
          /\ Seat(s).iface # Unset /\ Seat(s).ip \in pf.vlans[s[1]].cidr
          /\ \A t \in seats : Seat(t).ip = Seat(s).ip /\ Seat(t).spelled = Seat(s).spelled => t = s

vlansForHost(pf, name) ==
  SelectSeq(pf.vlans, LAMBDA v : \E a \in DOMAIN v.hosts : v.hosts[a].name = name)

----------------------------------------------------------------------------
(* Domains: the global ones, those of the groups and those of the hosts.      *)
DomainsIn(layer) == IF layer.set["traefik"] = Unset THEN {} ELSE layer.set["traefik"].domains

GlobalDomains(pf) == DomainsIn(pf.global)
GroupDomains(pf)  == UNION {DomainsIn(pf.groups[g]) : g \in DOMAIN pf.groups}
HostDomains(pf)   == UNION {DomainsIn(pf.hosts[i].layer) : i \in DOMAIN pf.hosts}

\* hasAnyTraefikDomains: those of the hosts are not looked at.
AnyDomains(pf) == GlobalDomains(pf) \cup GroupDomains(pf) # {}

\* validateTraefikDomain, validateDNS01Token: a wildcard needs a DNS provider.
ValidDomain(d, dns01) ==
  d.domain # Unset /\ d.port > 0 /\ (d.wildcard => dns01.provider \in {"cloudflare", "bunny"})

ValidDNS01Token(dns01) == dns01.provider # Unset => dns01.token # Unset

ValidTraefikDomains(pf) ==
  AnyDomains(pf) =>
    /\ pf.email # Unset /\ ValidDNS01Token(pf.dns01)
    /\ \A d \in GlobalDomains(pf) \cup GroupDomains(pf) \cup HostDomains(pf) : ValidDomain(d, pf.dns01)

ValidHTTPSMode(pf) ==
  {pf.global.set["https"]} \cup {pf.groups[g].set["https"] : g \in DOMAIN pf.groups}
    \cup {pf.hosts[i].layer.set["https"] : i \in DOMAIN pf.hosts} \subseteq {Unset, "cf", "all"}

validateProvision(pf) ==
  /\ ValidHosts(pf) /\ ValidPeers(pf) /\ ValidBansAndTelegram(pf) /\ ValidTraefikDomains(pf)
  /\ ValidHTTPSMode(pf) /\ ValidDeployOrder(pf) /\ ValidVLANs(pf) /\ ValidK3sRoles(pf)
==============================================================================
