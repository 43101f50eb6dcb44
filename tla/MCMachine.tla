------------------------------ MODULE MCMachine -------------------------------
(* The install of the allowlist on a machine: over a registry of exposed      *)
(* ports, or without one and with removals between the installs.  k3s on the  *)
(* machine and the operator's list of nodes have no state here, only          *)
(* assumptions, which come with it.                                           *)
EXTENDS MCFirewallInstall, MCK3sNode, MCMembers, TLC

\* No line is registered but what InstallInit finds, so that the machines that
\* removals are for stay without one.
MCNext == InstallStep \/ (registry = {} /\ Removal)

MCSpec == InstallInit /\ [][MCNext]_vars
===============================================================================
