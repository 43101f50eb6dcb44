---------------------------- MODULE MCServiceDeploy ----------------------------
(* Instances of ServiceDeploy for TLC: a good release, one that fails its  *)
(* health check and one with nothing to start; pushes are interchangeable. *)
EXTENDS ServiceDeploy, TLC

CONSTANTS p1, p2, p3, good, bad, plain

MCTwoPushes   == {p1, p2}
MCThreePushes == {p1, p2, p3}
MCReleases == {good, bad, plain}
MCRunnable == {good, bad}
MCSound    == {good}
MCWithUrl  == {good, bad}
MCModes    == {"default", "zero-downtime", "swarm", "bare"}
MCDefault  == {"default"}
MCFaults   == {"list", "extract", "link", "run", "init"}
MCNone     == {}
MCOperator == {"rollback", "restart"}

MCSymmetry == Permutations(Pushes)
===============================================================================
