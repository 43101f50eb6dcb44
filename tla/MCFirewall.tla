------------------------------ MODULE MCFirewall ------------------------------
(* Instances of Firewall for TLC: two v4 admins and a v6 one, a database    *)
(* port exposed under several policies and a port whose number extends it.  *)
EXTENDS Firewall

CONSTANTS a4, b4, a6, k1

MCAdmins   == {a4, b4, a6}
MCV6Admins == {a6}
MCPeers    == {k1}
MCNone     == {}

Line(p, proto, scope) == [port |-> p, proto |-> proto, scope |-> scope]

\* Port 80 under three policies and both protocols, and its extension 8080.
MCLines == { Line(80, "tcp", "admin"), Line(80, "tcp", "global"), Line(80, "udp", "ips"),
             Line(8080, "tcp", "global"), Line(8080, "tcp", "traefik") }

\* One line per port, for the runs about the admin sets.
MCOneLine == {Line(80, "tcp", "admin")}

\* A port that changes policy.
MCTwoLines == {Line(80, "tcp", "admin"), Line(80, "tcp", "global")}

\* A fetch of a family fails, returns too few ranges alone, or enough alone.
MCFetchCounts == {0, 3, 4}
MCAllOrNothing == {0, 4}
===============================================================================
