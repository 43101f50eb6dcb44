----------------------------- MODULE MCFleetApply -----------------------------
(* Fleet files of three hosts for TLC: one server and two agents, three      *)
(* servers, one server among hosts that are no cluster, and one that may not *)
(* switch modes; in one wave or two, two hosts at a time or one.             *)
EXTENDS FleetApply, TLC

CONSTANTS h1, h2, h3

MCHost == {h1, h2, h3}

MCRoles == h1 :> "server" @@ h2 :> "agent" @@ h3 :> ""
MCNoRoles == [h \in MCHost |-> ""]

MCAgents ==
  [order |-> <<h2, h1, h3>>, waves |-> <<{h1}, {h1, h2, h3}>>, mode |-> "k3s",
   role |-> MCRoles, ha |-> FALSE, allow |-> TRUE, hardening |-> TRUE, wall |-> TRUE,
   peers |-> {<<h2, h1>>}, parallel |-> 2]

MCServers ==
  [MCAgents EXCEPT !.waves = <<MCHost>>, !.role = MCNoRoles, !.ha = TRUE,
                   !.peers = {<<h1, h2>>, <<h3, h2>>}, !.parallel = 1]

MCStrict == [MCAgents EXCEPT !.allow = FALSE, !.waves = <<{h1}>>, !.parallel = 1]

MCDocker == [MCAgents EXCEPT !.mode = "docker", !.role = MCNoRoles, !.waves = <<MCHost>>]

MCApart == [MCServers EXCEPT !.ha = FALSE, !.hardening = FALSE, !.waves = <<{h1}>>]

MCFleets    == {MCAgents, MCServers, MCStrict, MCDocker, MCApart}
MCUnchanged == {[MCAgents EXCEPT !.allow = FALSE]}

MCFaults == {"crash", "probe", "init", "config", "marker", "list", "join", "slow", "down"}
MCNone   == {}
===============================================================================
