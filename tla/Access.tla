--------------------------------- MODULE Access ---------------------------------
(***************************************************************************)
(* How the operator gets into a machine while `infra init` hardens it: the *)
(* account, the SSH server, the packet filter and fail2ban, each changed   *)
(* by a step of its own.  A step that fails is passed over, commands of a  *)
(* step fail unseen, the command can be killed anywhere and given again,   *)
(* and the machine can boot with what is written by then.  sshd, nft and   *)
(* fail2ban are external; a Port line of sshd_config replaces port 22.     *)
(* Source: src/hardening/apply.go, steps.go, fail2ban_jail.go,             *)
(* src/cmd/sdk-ops/infra.go, provision.go.                                 *)
(***************************************************************************)
EXTENDS Naturals

CONSTANTS
  BornPorts,  \* bound: sets of ports a machine's sshd may listen on at first
  AskedPorts, \* bound: values of --ssh-port, 0 for none
  Tries,      \* failed logins in ten minutes that make fail2ban ban
  Inits       \* bound: times `infra init` is given

ASSUME AccessConstants ==
  /\ \A P \in BornPorts : P \subseteq Nat \ {0} /\ P # {}
  /\ AskedPorts \subseteq Nat /\ Tries \in Nat \ {0} /\ Inits \in Nat

VARIABLES
  sshdConf, \* sshd_config: its ports, and whether root may log in
  sshd,    \* what sshd has loaded of it
  account, \* what sdkops has: user, shell, sudo, keys
  nftConf, \* ports /etc/nftables.conf admits: all of them before it is written
  nft,     \* ports the filter admits
  jail,    \* fail2ban: its port, 0 for none, and whether it spares the operator
  failed,  \* failed logins fail2ban has counted
  init,    \* the command: its next step, its user and port, the port asked for
  inits,   \* times the command was given
  hurt     \* account: it was not made; keys: they are not copied; moved: SSH was given
           \* a port the filter has not; untold: the filter was given none of SSH's ports

accessVars == <<sshdConf, sshd, account, nftConf, nft, jail, failed, init, inits, hurt>>

User  == {"root", "sdkops"}
Parts4Login == {"user", "shell", "sudo", "keys"}
AllPorts == (UNION BornPorts) \cup (AskedPorts \ {0}) \cup {22}
Rest == [step |-> "rest", user |-> "root", port |-> 22, asked |-> 0, spare |-> TRUE]
Step == {"rest", "user", "jail", "root", "keys", "port", "restart", "rules", "load", "back", "after"}

AccessTypeOK ==
  /\ sshdConf \in [ports : SUBSET AllPorts, root : BOOLEAN]
  /\ sshd \in [ports : SUBSET AllPorts, root : BOOLEAN]
  /\ account \subseteq Parts4Login
  /\ nftConf \subseteq AllPorts /\ nft \subseteq AllPorts
  /\ jail \in [port : AllPorts \cup {0}, spares : BOOLEAN]
  /\ failed \in 0 .. Tries /\ inits \in 0 .. Inits
  /\ init \in [step : Step, user : User, port : AllPorts, asked : AskedPorts \cup {0}, spare : BOOLEAN]
  /\ hurt \subseteq {"account", "keys", "moved", "untold"}

\* A machine as it is rented: root has the operator's key.
AccessInit ==
  /\ \E P \in BornPorts : sshdConf = [ports |-> P, root |-> TRUE]
  /\ sshd = sshdConf /\ account = {} /\ nftConf = AllPorts /\ nft = AllPorts
  /\ jail = [port |-> 0, spares |-> FALSE] /\ failed = 0
  /\ init = Rest /\ inits = 0 /\ hurt = {}

Banned(p) == failed = Tries /\ p = jail.port

\* The operator's key is accepted, and gets a shell that may do something.
Login(u, p) ==
  /\ p \in sshd.ports \cap nft /\ ~Banned(p)
  /\ IF u = "root" THEN sshd.root ELSE account = Parts4Login

-------------------------------------------------------------------------------
(* The command                                                             *)

Goto(s) == init' = [init EXCEPT !.step = s]

Begin(u, p, asked, spare, first) ==
  /\ init.step = "rest" /\ inits < Inits /\ Login(u, p)
  /\ init' = [step |-> first, user |-> u, port |-> p, asked |-> asked, spare |-> spare]
  /\ inits' = inits + 1
  /\ UNCHANGED <<sshdConf, sshd, account, nftConf, nft, jail, failed, hurt>>

\* runInfraInitSSH, with the operator's own addresses for fail2ban or without, and with
\* any port asked for, the one it dials too.
GiveInit(u, p, asked, spare) == Begin(u, p, asked, spare, "user")

\* The same with `hardening: false`: the account for services comes at the end.
GivePlainInit(u, p) == Begin(u, p, 0, FALSE, "after")

\* Variant: an account that is there is left as it is.
CreateUserUnhealed ==
  /\ init.step = "user" /\ Goto("jail")
  /\ account' = IF "user" \in account THEN account \cup {"sudo"}
                ELSE account \cup {"user", "shell", "sudo"}
  /\ UNCHANGED <<sshdConf, sshd, nftConf, nft, jail, failed, inits, hurt>>

\* createUser: the account, its shell and sudo, healed when it is there.  A command of
\* the script that fails stops neither the script nor the steps after it.
CreateUser ==
  /\ init.step = "user" /\ Goto("jail")
  /\ \E got \in SUBSET {"user", "shell", "sudo"} :
       /\ "shell" \in got => "user" \in got \cup account
       /\ account' = account \cup got
       /\ hurt' = IF {"user", "shell", "sudo"} \subseteq account' THEN hurt \ {"account"}
                  ELSE hurt \cup {"account"}
  /\ UNCHANGED <<sshdConf, sshd, nftConf, nft, jail, failed, inits>>

\* fail2banAndUpgrades: jail.local for the port SSH is to have; a restart forgets.
WriteJail ==
  /\ init.step = "jail" /\ Goto("root")
  /\ \/ /\ jail' = [port |-> IF init.asked = 0 THEN 22 ELSE init.asked, spares |-> init.spare]
        /\ failed' = 0
     \/ UNCHANGED <<jail, failed>>
  /\ UNCHANGED <<sshdConf, sshd, account, nftConf, nft, inits, hurt>>

\* sshHardening, command by command: no root,
DenyRoot ==
  /\ init.step = "root" /\ Goto("keys")
  /\ sshdConf' = [sshdConf EXCEPT !.root = FALSE]
  /\ hurt' = IF "keys" \in account THEN hurt ELSE hurt \cup {"keys"}
  /\ UNCHANGED <<sshd, account, nftConf, nft, jail, failed, inits>>

\* root's keys for the account, when it is there: `cp ... || true` fails unseen,
CopyKeys ==
  /\ init.step = "keys" /\ Goto("port")
  /\ \/ "user" \in account /\ account' = account \cup {"keys"} /\ hurt' = hurt \ {"keys"}
     \/ UNCHANGED <<account, hurt>>
  /\ UNCHANGED <<sshdConf, sshd, nftConf, nft, jail, failed, inits>>

\* SSH listens only where the filter lets nobody in: it is deaf.
Shut(ports, admitted) == ports \cap admitted = {}

\* the new port, which is the only one once there is a Port line: a filter that an
\* earlier init wrote does not admit it yet,
AddPort ==
  /\ init.step = "port" /\ Goto("restart")
  /\ IF init.asked \in {0, 22} THEN UNCHANGED <<sshdConf, hurt>>
     ELSE /\ sshdConf' = [sshdConf EXCEPT !.ports = IF @ = {22} THEN {init.asked} ELSE @ \cup {init.asked}]
          /\ hurt' = IF Shut(sshdConf'.ports, nftConf) \/ Shut(sshdConf'.ports, nft)
                     THEN hurt \cup {"moved"} ELSE hurt
  /\ UNCHANGED <<sshd, account, nftConf, nft, jail, failed, inits>>

\* and the restart.
RestartSshd ==
  /\ init.step = "restart" /\ Goto("rules")
  /\ sshd' = sshdConf
  /\ UNCHANGED <<sshdConf, account, nftConf, nft, jail, failed, inits, hurt>>

\* Ports of the hardened filter: 22 and the one asked for.
OpenPorts == {22} \cup (IF init.asked = 0 THEN {} ELSE {init.asked})

\* nftablesFirewall: the file, and its load, which fails when nft could not be installed.
WriteRules ==
  /\ init.step = "rules" /\ Goto("load")
  /\ nftConf' = OpenPorts
  /\ hurt' = IF Shut(sshdConf.ports, OpenPorts) THEN hurt \cup {"untold"} ELSE hurt
  /\ UNCHANGED <<sshdConf, sshd, account, nft, jail, failed, inits>>

LoadRules ==
  /\ init.step = "load" /\ Goto("back")
  /\ nft' \in {nftConf, nft}
  /\ hurt' = IF Shut(sshdConf.ports, nftConf) \/ Shut(sshdConf.ports, nft') THEN hurt
             ELSE hurt \ {"moved", "untold"}
  /\ UNCHANGED <<sshdConf, sshd, account, nftConf, jail, failed, inits>>

\* reconnectAfterHardening: as the new account, at the port asked for.  A login that is
\* refused counts for fail2ban, but for an address the jail spares.
Reconnect ==
  LET p == IF init.asked \in {0, 22} THEN init.port ELSE init.asked
  IN /\ init.step = "back"
     /\ IF Login("sdkops", p)
        THEN init' = [init EXCEPT !.step = "after", !.user = "sdkops", !.port = p] /\ UNCHANGED failed
        ELSE /\ init' = Rest
             /\ failed' = IF jail.port # 0 /\ ~jail.spares /\ p \in sshd.ports \cap nft THEN Tries ELSE failed
     /\ UNCHANGED <<sshdConf, sshd, account, nftConf, nft, jail, inits, hurt>>

\* createSDKOpsStructure: an account without a shell, unless there is one.
PostInstall ==
  /\ init.step = "after" /\ init' = Rest
  /\ account' = account \cup {"user"}
  /\ UNCHANGED <<sshdConf, sshd, nftConf, nft, jail, failed, inits, hurt>>

KillInit ==
  /\ init.step # "rest" /\ init' = Rest
  /\ UNCHANGED <<sshdConf, sshd, account, nftConf, nft, jail, failed, inits, hurt>>

-------------------------------------------------------------------------------
(* The fleet and the machine                                               *)

\* InstallFail2banJail in a fleet apply: always port 22, with the fleet's admin IPs.
FleetJail(spare) ==
  /\ Login("sdkops", 22) /\ init.step = "rest"
  /\ jail' = [port |-> 22, spares |-> spare]
  /\ UNCHANGED <<sshdConf, sshd, account, nftConf, nft, failed, init, inits, hurt>>

\* fleetUser tries sdkops before the user of the fleet file.
Probe(p) ==
  /\ p \in sshd.ports \cap nft /\ ~Login("sdkops", p) /\ ~Banned(p)
  /\ jail.port = p /\ ~jail.spares
  /\ failed' = IF failed < Tries THEN failed + 1 ELSE failed
  /\ UNCHANGED <<sshdConf, sshd, account, nftConf, nft, jail, init, inits, hurt>>

\* The ban runs out.
Forgive ==
  /\ failed > 0 /\ failed' = 0
  /\ UNCHANGED <<sshdConf, sshd, account, nftConf, nft, jail, init, inits, hurt>>

AccessReboot ==
  /\ sshd' = sshdConf /\ nft' = nftConf /\ init' = Rest
  /\ UNCHANGED <<sshdConf, account, nftConf, jail, failed, inits, hurt>>

AccessNext ==
  \/ \E u \in User, p \in AllPorts :
       \/ GivePlainInit(u, p)
       \/ \E asked \in AskedPorts \cup {0}, spare \in BOOLEAN : GiveInit(u, p, asked, spare)
  \/ CreateUser \/ WriteJail \/ DenyRoot \/ CopyKeys \/ AddPort \/ RestartSshd
  \/ WriteRules \/ LoadRules \/ Reconnect \/ PostInstall \/ KillInit
  \/ (\E spare \in BOOLEAN : FleetJail(spare))
  \/ (\E p \in AllPorts : Probe(p))
  \/ Forgive \/ AccessReboot

AccessSpec == AccessInit /\ [][AccessNext]_accessVars

-------------------------------------------------------------------------------

\* Whatever init is doing, wherever it was killed and whenever the machine boots, the
\* operator can get in, or will once a ban of an hour is over, with three exceptions.
\* Root is refused, and a command that makes the account failed or root's keys are not
\* copied.  SSH is deaf since --ssh-port moved it on a machine hardened before, and the
\* filter was not loaded with the port since: init cut between the two is a lockout.
\* SSH is deaf since a filter was written by an init told of none of its ports.
WayIn ==
  \/ failed = Tries
  \/ \E u \in User, p \in AllPorts : Login(u, p)
  \/ ~sshd.root /\ hurt \cap {"account", "keys"} # {}
  \/ Shut(sshd.ports, nft) /\ hurt \cap {"moved", "untold"} # {}
===============================================================================
