------------------------------ MODULE MCCreated ------------------------------
(* A node and what is around it, side by side: its firewall, the timers of    *)
(* its watchdogs, the way in while it is hardened, the machines a fleet file  *)
(* has created, and the cloud firewall.  They share no state, so a behaviour  *)
(* is of one of them, and the others' variables stay put.                     *)
EXTENDS MCFirewall, OpsTimers, Access, CloudHosts, TLC

CONSTANTS e1, e2

VARIABLE part

\* A machine as it is rented, and one whose SSH was moved before.
MCBornPorts == {{22}, {2222}}

\* Two hosts to create, at a pair of vendors.  There is no key for DigitalOcean.
MCEntries    == <<e1, e2>>
MCPlacements == {e1 :> "vultr" @@ e2 :> "cubepath", e1 :> "civo" @@ e2 :> "aws",
                 e1 :> "hetzner" @@ e2 :> "digitalocean"}
MCPeerings   == {{}, {<<e1, e2>>, <<e2, e1>>}}

MCInit ==
  /\ part \in {"firewall", "timers", "access", "hosts", "sync"}
  /\ NodeInit /\ OpsInit /\ AccessInit /\ CloudInit
  /\ part # "firewall" => elems = {}
  /\ part # "access" => sshdConf.ports = {22}
  /\ part # "hosts" => vendor = (CHOOSE p \in MCPlacements : TRUE) /\ peering = {}

MCNext ==
  \/ part = "firewall" /\ NodeNext /\ UNCHANGED <<opsVars, accessVars, cloudVars, part>>
  \/ part = "timers" /\ OpsNext /\ UNCHANGED <<nodeVars, accessVars, cloudVars, part>>
  \/ part = "access" /\ AccessNext /\ UNCHANGED <<nodeVars, opsVars, cloudVars, part>>
  \/ part = "hosts" /\ HostsNext /\ UNCHANGED <<nodeVars, opsVars, accessVars, part>>
  \/ part = "sync" /\ SyncNext /\ UNCHANGED <<nodeVars, opsVars, accessVars, part>>

\* The fairness of CloudHosts, in its part.
MCSpec ==
  /\ MCInit /\ [][MCNext]_<<nodeVars, opsVars, accessVars, cloudVars, part>>
  /\ WF_cloudVars(part = "hosts" /\ StartDestroy) /\ WF_cloudVars(part = "hosts" /\ Delete)
  /\ WF_cloudVars(part = "hosts" /\ Destroyed)
==============================================================================
