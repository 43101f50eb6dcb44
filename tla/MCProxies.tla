------------------------------ MODULE MCProxies ------------------------------
(* Proxies over every node that up to three `infra proxy set` can make.      *)
EXTENDS Proxies

MCSets == UNION {[1 .. n -> Backend \X {"d", "e"}] : n \in 0 .. 3}

MCBare == {BareNode(r, v, n) : r, v, n \in BOOLEAN}

MCNodeAfter[f \in MCSets, s \in MCBare] ==
  IF f = <<>> THEN s
  ELSE ProxySet(MCNodeAfter[SubSeq(f, 1, Len(f) - 1), s], f[Len(f)][1], f[Len(f)][2]).node

MCNodes == {MCNodeAfter[f, s] : f \in MCSets, s \in MCBare}

\* The first proxy that got the web ports keeps them: setting another writes its
\* configuration and, but for a Traefik container that is new, reports success, even
\* when there is no such program and none to be had.
PortsNeverSwitch ==
  \A s \in MCNodes, b \in Backend :
    LET r == ProxySet(s, b, "d")
    IN /\ s.ports # NoSite => r.node.ports = s.ports
       /\ ~r.ok => b = "traefik" /\ s.box = "absent" /\ (s.ports \notin {NoSite, "traefik"} \/ ~s.net)
ASSUME PortsNeverSwitch

\* A set that may write, gets at packages and finds the ports free or its own serves the
\* domain.
SetServes ==
  \A s \in MCNodes, b \in Backend :
    s.root /\ s.net /\ s.ports \in {NoSite, b} =>
      LET r == ProxySet(s, b, "d") IN r.ok /\ r.node.ports = b /\ r.node.sites[b] = Site("d", 8080)
ASSUME SetServes

\* Status sees Caddy before nginx, and Traefik never.
StatusSeesPrograms ==
  \A s \in MCNodes : DetectProxy(s) # "traefik" /\ (s.programs = {} <=> DetectProxy(s) = NoSite)
ASSUME StatusSeesPrograms

\* The green container gets another port than the one in service, and the proxy
\* that is told of it has its site at that port, if it may be written.
GreenApart ==
  \A s \in MCNodes, published \in {0, 80, 1023, 3000} :
    LET g == GreenPort(s, published)
        t == SwitchToGreen(s, "app", published, TRUE)
    IN /\ g >= 1024 /\ g # CurrentPort(s, published)
       /\ s.root /\ DetectProxy(s) # NoSite => t.sites[DetectProxy(s)].port = g
       /\ SwitchToGreen(s, "app", published, FALSE) = s
ASSUME GreenApart

\* Removing what holds the ports lets another have them, nginx apart.
RemovalFrees ==
  \A s \in MCNodes : s.root =>
    /\ s.ports = "caddy" => RemoveCaddy(s).ports = NoSite
    /\ s.ports = "traefik" => RemoveTraefik(s).ports = NoSite
    /\ RemoveNginx(s).ports = s.ports
ASSUME RemovalFrees
==============================================================================
