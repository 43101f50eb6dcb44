------------------------------ MODULE MCServices ------------------------------
(* The services of a node, its databases with the operator's ledger, and the *)
(* directory that is pushed.  They share no state, so a behaviour is of one  *)
(* of them, and the others' variables stay put.  Commands are                *)
(* interchangeable.  Once all are given the databases may rest.              *)
EXTENDS MCServiceDeploy, Databases, PushSource, MCServiceFile, MCProxies

CONSTANTS c1, c2, s1, s2, d1, d2, d3, Parts

VARIABLE part

\* Two databases of one kind, and one that takes another password than it is given.
MCDatabase == {"my", "my2", "pg"}
MCKind     == [d \in MCDatabase |-> IF d = "pg" THEN "postgres" ELSE "mysql"]
MCMachine  == {"node"}
MCService  == {"app"}
MCEntry    == MCDatabase \cup {"postgres", "mysql"} \cup MCMachine \cup MCService
MCValue    == {Image} \cup {<<k, n>> : k \in {"password", "version", "node"}, n \in 0 .. Commands}
                      \cup {<<"container", d>> : d \in MCDatabase}
MCRecorder == {c1, c2, s1, s2}
MCSyncing  == {s1, s2}

\* Two pushes with the key, one of them with a builder of its own, and one without.
MCDeploy   == {d1, d2, d3}
MCKeyGiven == {d1, d2}
MCBuilder  == {d2}
MCTroubles == {"decrypt", "build", "write", "encrypt", "kill"}

MCServicesSymmetry == Permutations(Pushes) \cup Permutations({c1, c2}) \cup Permutations(MCSyncing)

MCInit ==
  /\ part \in Parts /\ Init /\ DatabasesInit /\ PushSourceInit
  /\ part # "push" => \A p \in Pushes : rel[p] = good /\ mode[p] = "default"
  /\ part # "source" => text = "plain" /\ ~compose

MCNext ==
  \/ part = "push" /\ Next /\ UNCHANGED <<ledgerVars, dbVars, pushSource, part>>
  \/ part = "ledger" /\ DatabasesNext /\ UNCHANGED <<vars, pushSource, part>>
  \/ part = "ledger" /\ given = Commands /\ UNCHANGED <<vars, ledgerVars, dbVars, pushSource, part>>
  \/ part = "source" /\ PushSourceNext /\ UNCHANGED <<vars, ledgerVars, dbVars, part>>

MCSpec == MCInit /\ [][MCNext]_<<vars, ledgerVars, dbVars, pushSource, part>>
===============================================================================
