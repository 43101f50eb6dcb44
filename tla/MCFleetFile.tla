----------------------------- MODULE MCFleetFile -----------------------------
(* Small fleet files, and what the resolution and the checks of FleetFile give *)
(* on all of them.                                                              *)
EXTENDS FleetFile

LOCAL OneSet(s, x) == [NothingSet EXCEPT !.set[s] = x]
LOCAL Says == {Unset, "cf", "all"}

PlainHost == [name |-> "a", host |-> "ip1", peerIP |-> Unset, provider |-> Unset, group |-> Unset,
              role |-> Unset, swapMB |-> 0, layer |-> NothingSet]
PlainFile == [mode |-> "k3s", ha |-> FALSE, global |-> NothingSet, groups |-> <<>>, hosts |-> <<PlainHost>>,
              peers |-> {}, order |-> <<>>, vlans |-> <<>>, bans |-> {}, email |-> Unset,
              telegram |-> [enabled |-> FALSE, key |-> Unset, chat |-> Unset],
              dns01 |-> [provider |-> Unset, token |-> Unset]]

\* Three layers, each saying or not saying a setting, a service and a swap size.
Layered(x, y, z, s) ==
  [PlainFile EXCEPT !.global = OneSet(s, x), !.groups = "g" :> OneSet(s, y),
                    !.hosts[1].layer = OneSet(s, z), !.hosts[1].group = "g"]

\* The most specific layer that says a setting decides it.
ASSUME Precedence ==
  \A s \in Settings, x, y, z \in Says :
    LET r == resolveHostConfig(Layered(x, y, z, s), Layered(x, y, z, s).hosts[1])
        said == {i \in 1 .. 3 : <<x, y, z>>[i] # Unset}
    IN r.set[s] = IF said = {} THEN Unset ELSE <<x, y, z>>[CHOOSE i \in said : \A j \in said : j <= i]

\* Services are merged by name; a host changes the size of the swap and not whether
\* there is any.
ASSUME Merged ==
  \A d1, d2, d3 \in SUBSET {"etcd", "nats"}, off \in BOOLEAN, mb \in {0, 512} :
    LET of(D, v) == [n \in D |-> v]
        swap == [enabled |-> off, size |-> 1024]
        pf == [PlainFile EXCEPT !.global = [@ EXCEPT !.services = of(d1, 1), !.swap = swap],
                 !.groups = "g" :> [NothingSet EXCEPT !.services = of(d2, 2)],
                 !.hosts[1] = [@ EXCEPT !.group = "g", !.swapMB = mb, !.layer.services = of(d3, 3)]]
        r == resolveHostConfig(pf, pf.hosts[1])
    IN /\ DOMAIN r.services = d1 \cup d2 \cup d3
       /\ \A n \in DOMAIN r.services : r.services[n] = IF n \in d3 THEN 3 ELSE IF n \in d2 THEN 2 ELSE 1
       /\ r.swap = [enabled |-> off, size |-> IF mb > 0 THEN mb ELSE 1024]

\* Files of up to three hosts with roles and names of their own or not.
RoleFiles ==
  UNION {{[PlainFile EXCEPT !.mode = m, !.ha = ha,
             !.hosts = [i \in 1 .. n |-> [PlainHost EXCEPT !.name = names[i], !.role = roles[i],
                                            !.host = <<"ip1", "ip2", "ip3">>[i]]]] :
            m \in {"k3s", "docker"}, ha \in BOOLEAN, names \in [1 .. n -> {"a", "b", "c"}],
            roles \in [1 .. n -> {Unset, "server", "agent"}]} : n \in 1 .. 3}

\* A file with roles that is let through has a server to join, and more than one only
\* under k3s_ha.
ASSUME RolesMakeOneCluster ==
  \A pf \in RoleFiles :
    validateProvision(pf) /\ (\E i \in DOMAIN pf.hosts : pf.hosts[i].role = "agent") =>
      LET servers == {i \in DOMAIN pf.hosts : pf.hosts[i].role = "server"}
      IN servers # {} /\ (~pf.ha => Cardinality(servers) = 1)

\* With names of their own, the rule of a peer opens the host it names to the address
\* of the host it names; with a name twice it opens the first to the last.
ASSUME PeersAreTheHostsNamed ==
  \A pf \in RoleFiles :
    LET distinct == \A i, j \in DOMAIN pf.hosts : pf.hosts[i].name = pf.hosts[j].name => i = j
    IN distinct <=> \A n \in DOMAIN PeerAddress(pf) : HostNamed(pf, n).host = PeerAddress(pf)[n]
                    /\ Cardinality(DOMAIN PeerAddress(pf)) = Len(pf.hosts)

Wild == [domain |-> "*.x", port |-> 80, wildcard |-> TRUE]
Site == [domain |-> "x", port |-> 80, wildcard |-> FALSE]

DomainFiles ==
  {[PlainFile EXCEPT !.global.set["traefik"] = x, !.groups = "g" :> OneSet("traefik", y),
      !.hosts[1].layer = OneSet("traefik", z), !.email = e, !.dns01 = [provider |-> p, token |-> t]] :
     x, y, z \in {Unset} \cup [domains : SUBSET {Wild, Site}], e, t \in {Unset, "x"},
     p \in {Unset, "cloudflare", "other"}}

\* A file with a global or a group's domain is let through only with what every domain
\* in it needs; one whose domains are the hosts' alone is let through without.
ASSUME DomainsAsked ==
  /\ \A pf \in DomainFiles : validateProvision(pf) /\ AnyDomains(pf) =>
       pf.email # Unset /\ (Wild \in HostDomains(pf) => pf.dns01.provider = "cloudflare" /\ pf.dns01.token # Unset)
  /\ \E pf \in DomainFiles : validateProvision(pf) /\ Wild \in HostDomains(pf) /\ pf.dns01.provider = Unset

Seats(n) == [1 .. n -> [name : {"a"}, iface : {"eth1", Unset}, ip : {1, 2, 9}, spelled : {"1", " 1"}]]
VLANFiles ==
  {[PlainFile EXCEPT !.vlans = <<[name |-> "v", cidr |-> {1, 2}, hosts |-> s]>>] : s \in UNION {Seats(n) : n \in 0 .. 2}}

\* Two seats let through may have one address only when it is spelled in two ways.
ASSUME AddressesOnce ==
  /\ \A pf \in VLANFiles : ValidVLANs(pf) =>
       \A a, b \in DOMAIN pf.vlans[1].hosts :
         LET s == pf.vlans[1].hosts
         IN a # b /\ s[a].ip = s[b].ip => s[a].spelled # s[b].spelled
  /\ \A pf \in VLANFiles : pf.vlans[1].hosts # <<>> <=> vlansForHost(pf, "a") # <<>>

\* What is refused, and the mode that is taken for granted.
ASSUME Refused ==
  /\ Normal([PlainFile EXCEPT !.hosts = <<>>]) = {} /\ Normal([PlainFile EXCEPT !.mode = "lxc"]) = {}
  /\ Normal([PlainFile EXCEPT !.mode = Unset]) = {[PlainFile EXCEPT !.mode = "docker"]}
  /\ \A bad \in {[PlainFile EXCEPT !.hosts[1].host = "name"], [PlainFile EXCEPT !.hosts[1].host = Unset],
                 [PlainFile EXCEPT !.hosts[1].group = "g"], [PlainFile EXCEPT !.hosts[1].peerIP = "name"],
                 [PlainFile EXCEPT !.peers = {[from |-> "a", to |-> "b", ports |-> {1}]}],
                 [PlainFile EXCEPT !.order = <<[group |-> Unset, host |-> Unset]>>],
                 [PlainFile EXCEPT !.bans = {"name"}], [PlainFile EXCEPT !.telegram.enabled = TRUE],
                 [PlainFile EXCEPT !.global.set["https"] = "none"]} : ~validateProvision(bad)
  /\ validateProvision([PlainFile EXCEPT !.hosts[1].host = Unset, !.hosts[1].provider = "vultr"])
  /\ Tagged(<<[PlainHost EXCEPT !.layer.tags = <<"x">>], PlainHost>>, {"x"}) = <<[PlainHost EXCEPT !.layer.tags = <<"x">>]>>
==============================================================================
