-------------------------------- MODULE MCNode --------------------------------
(* A node's firewall with its watchdog, and beside it Traefik with its        *)
(* certificates and the timer of its watchdog.  They share no state, so a     *)
(* behaviour is of one of them, and the other's variables stay put.           *)
EXTENDS MCFirewall, TraefikCerts

CONSTANTS d1, d2

VARIABLE part

\* Two domains, both for nats alone: one Traefik renews, and one is imported.
MCDomains  == {d1, d2}
MCImported == {d2}
MCProxied  == {}
MCSerials  == [d \in MCDomains |-> IF d = d1 THEN 2 ELSE 1]

\* Two v4 admins and one v6 are listed: the v6 one alone.
MCInit ==
  /\ part \in {"firewall", "certs"} /\ NodeInit /\ CertInit
  /\ elems = IF part = "firewall" THEN MCAdmins ELSE {}

MCNext ==
  \/ part = "firewall" /\ NodeNext /\ UNCHANGED <<certVars, opsVars, part>>
  \/ part = "certs" /\ CertNext /\ UNCHANGED <<nodeVars, part>>

mcVars == <<nodeVars, certVars, opsVars, part>>

FairMCSpec ==
  /\ MCInit /\ [][MCNext]_mcVars
  /\ WF_mcVars(part = "firewall" /\ TimedWatch /\ UNCHANGED <<certVars, opsVars, part>>)
  /\ WF_mcVars(part = "certs" /\ TimedTraefikWatch /\ UNCHANGED <<nodeVars, part>>)
  /\ WF_mcVars(part = "certs" /\ Worker /\ UNCHANGED <<nodeVars, part>>)
  /\ WF_mcVars(part = "certs" /\ NatsReturns /\ UNCHANGED <<nodeVars, part>>)
  /\ WF_mcVars(part = "certs" /\ ApplyGoesOn /\ UNCHANGED <<nodeVars, part>>)
===============================================================================
