-------------------------- MODULE MCFirewallInstall --------------------------
(* Instances of FirewallInstall for TLC: an operator, configs that admit or  *)
(* lock it out, and a port with two policies.                               *)
EXTENDS FirewallInstall

CONSTANTS a4, b4

MCAdmins == {a4, b4}
MCNone   == {}
MCSolo   == {a4}

\* A port that changes policy.
MCTwoLines == {[port |-> 80, proto |-> "tcp", scope |-> sc] : sc \in {"admin", "global"}}

\* A fetch returns nothing or enough.
MCAllOrNothing == {0, 4}
MCEnough == {4}
===============================================================================
