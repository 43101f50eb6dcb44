------------------------------ MODULE PortPolicy ------------------------------
(***************************************************************************)
(* What the exposed-ports commands promise: every port has at most one     *)
(* policy, an expose replaces that port's policy, an unexpose clears it,   *)
(* and nothing else - no other port's command, no refresh, no watchdog, no *)
(* reboot - changes it.                                                    *)
(***************************************************************************)
CONSTANTS Lines, NoLine
VARIABLE policy  \* the exposure in force on each port

Port == {l.port : l \in Lines}

Init == policy = [p \in Port |-> NoLine]

Expose(l)   == policy' = [policy EXCEPT ![l.port] = l]
Unexpose(p) == policy' = [policy EXCEPT ![p] = NoLine]

Next == (\E l \in Lines : Expose(l)) \/ (\E p \in Port : Unexpose(p))

Spec == Init /\ [][Next]_policy
===============================================================================
