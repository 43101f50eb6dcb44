------------------------------- MODULE Proxies -------------------------------
(***************************************************************************)
(* The reverse proxy of a node: what `infra proxy set` and a blue/green    *)
(* deploy leave on a machine where Caddy, nginx or a Traefik container may *)
(* already hold the web ports.  A node is a record and every operator is   *)
(* pure; the scripts go on after a command that failed, Traefik's apart.   *)
(* Source: src/deploy/proxy*.go, src/deploy/bluegreen.go.                  *)
(***************************************************************************)
EXTENDS Integers, FiniteSets, Sequences

CONSTANT NoSite     \* no configuration, or no holder of the web ports

Backend == {"caddy", "nginx", "traefik"}

\* sites: the domain and port each backend's configuration names; programs: those
\* `command -v` finds; box: the Traefik container; ports: who listens on 80;
\* root: whether the scripts may write; v4: whether the machine has an IPv4 address;
\* net: whether it gets at packages and images.
BareNode(root, v4, net) ==
  [root |-> root, v4 |-> v4, net |-> net, programs |-> {}, box |-> "absent", ports |-> NoSite,
   sites |-> [b \in Backend |-> NoSite]]

\* A backend that (re)starts listens if nobody else does.
Listens(s, b) == s.ports \in {NoSite, b}
Serving(s, b) == IF Listens(s, b) THEN [s EXCEPT !.ports = b] ELSE s

Site(d, p) == [domain |-> d, port |-> IF p = 0 THEN 8080 ELSE p]

----------------------------------------------------------------------------
(* Install: what the machine becomes, and whether the command reports it.    *)

\* It is there, or apt can get it.
Obtains(s, b) == s.net \/ b \in s.programs

Served(s, b, d, p) == Serving([s EXCEPT !.programs = @ \cup {b}, !.sites[b] = Site(d, p)], b)

\* A Caddyfile of one site replaces what was there, for a Caddy that may be missing.
InstallCaddy(s, d, p) ==
  [ok |-> TRUE,
   node |-> IF ~s.root THEN s
            ELSE IF Obtains(s, "caddy") THEN Served(s, "caddy", d, p)
            ELSE [s EXCEPT !.sites["caddy"] = Site(d, p)]]

\* So does nginx's one site, in a directory that comes with nginx, and the default one goes.
InstallNginx(s, d, p) ==
  [ok |-> TRUE,
   node |-> IF s.root /\ Obtains(s, "nginx") THEN Served(s, "nginx", d, p) ELSE s]

\* baseTraefikScript uses sudo and stops at a failure.  A container there is
\* taken to run; a new one that cannot have the ports is left behind, created
\* (on the host's network it runs, and keeps trying).
InstallTraefikProxy(s, d, p) ==
  LET fits == Listens(s, "traefik")
  IN IF s.box # "absent" \/ (s.net /\ (fits \/ ~s.v4))
     THEN [ok |-> TRUE,
           node |-> [s EXCEPT !.sites["traefik"] = IF d = NoSite THEN @ ELSE Site(d, p),
                              !.box = IF @ = "absent" THEN "running" ELSE @,
                              !.ports = IF s.box = "absent" /\ fits THEN "traefik" ELSE @]]
     ELSE [ok |-> FALSE, node |-> IF s.net THEN [s EXCEPT !.box = "created"] ELSE s]

\* NewProxy: anything else is Caddy.
Install(s, b, d, p) ==
  CASE b = "traefik" -> InstallTraefikProxy(s, d, p)
    [] b = "nginx"   -> InstallNginx(s, d, p)
    [] OTHER         -> InstallCaddy(s, d, p)

\* `infra proxy set`: the port is always 8080.
ProxySet(s, b, d) == IF d = NoSite THEN [ok |-> FALSE, node |-> s] ELSE Install(s, b, d, 8080)

\* DetectProxy, `infra proxy status`: a container is not a program.
DetectProxy(s) ==
  IF "caddy" \in s.programs THEN "caddy" ELSE IF "nginx" \in s.programs THEN "nginx" ELSE NoSite

----------------------------------------------------------------------------
(* UpdateTargetPort and Remove.                                              *)

\* Caddy's site keeps its domain.
UpdateCaddy(s, d, p) ==
  IF s.root /\ s.sites["caddy"] # NoSite THEN [s EXCEPT !.sites["caddy"].port = p] ELSE s

UpdateNginx(s, d, p) == IF s.root THEN [s EXCEPT !.sites["nginx"] = Site(d, p)] ELSE s

UpdateTraefik(s, d, p) ==
  LET t == IF s.root THEN [s EXCEPT !.sites["traefik"] = Site(d, p)] ELSE s
  IN IF s.box = "created" /\ Listens(s, "traefik") THEN [t EXCEPT !.box = "running", !.ports = "traefik"] ELSE t

UpdateTargetPort(s, b, d, p) ==
  CASE b = "traefik" -> UpdateTraefik(s, d, p)
    [] b = "nginx"   -> UpdateNginx(s, d, p)
    [] OTHER         -> UpdateCaddy(s, d, p)

Stopped(s, b) == [s EXCEPT !.ports = IF @ = b THEN NoSite ELSE @]

RemoveCaddy(s) ==
  IF ~s.root THEN s
  ELSE Stopped([s EXCEPT !.programs = @ \ {"caddy"}, !.sites["caddy"] = NoSite], "caddy")

\* nginx stays, with no site.
RemoveNginx(s) == IF ~s.root THEN s ELSE [s EXCEPT !.sites["nginx"] = NoSite]

RemoveTraefik(s) ==
  LET t == Stopped([s EXCEPT !.box = "absent"], "traefik")
  IN IF s.root THEN [t EXCEPT !.sites["traefik"] = NoSite] ELSE t

----------------------------------------------------------------------------
(* A blue/green deploy, once the green container answers.                    *)

\* getCurrentPort: the port the version in service publishes, or else Caddy's.
CurrentPort(s, published) ==
  IF published # 0 THEN published
  ELSE IF s.sites["caddy"] # NoSite THEN s.sites["caddy"].port ELSE 8080

GreenPort(s, published) ==
  LET next == CurrentPort(s, published) + 1 IN IF next < 1024 THEN 8080 ELSE next

\* getAppDomains: Caddy's first site, whatever the service.
AppDomain(s, name) == IF s.sites["caddy"] # NoSite THEN s.sites["caddy"].domain ELSE <<name, "local">>

\* healthCheckGreen, switchToGreen: the proxy detected is told; errors are logged.
SwitchToGreen(s, name, published, healthy) ==
  IF ~healthy \/ DetectProxy(s) = NoSite THEN s
  ELSE UpdateTargetPort(s, DetectProxy(s), AppDomain(s, name), GreenPort(s, published))
==============================================================================
