------------------------------- MODULE OpsTimers -------------------------------
(***************************************************************************)
(* The timers of a node's watchdogs: `ops apply | enable | disable |       *)
(* remove` and the phases of a fleet apply that install the same scripts.  *)
(* `ops apply` compares the script on the node with the one it carries,    *)
(* stops the units and installs, with a call over SSH for each: the        *)
(* command can be cut between two calls, and a call in the middle.         *)
(* Source: src/cmd/sdk-ops/ops.go, provision.go, src/hardening.            *)
(***************************************************************************)
EXTENDS Integers

CONSTANTS
  Component,  \* the components with a timer
  Versions,   \* bound: versions of the scripts the command goes through
  Mishaps,    \* bound: what goes wrong
  NoComponent \* no `ops apply` is running

ASSUME OpsConstants == Versions \in Nat \ {0} /\ Mishaps \in Nat /\ NoComponent \notin Component

VARIABLES
  unit,     \* per component: the version of the script, 0 for none, and its timer
  carried,  \* the version this command carries
  applying, \* the component `ops apply` is at, and its next call
  disabled, \* components the operator has disabled since their last install
  cut,      \* components an install or removal was cut or failed in since the last install
  mishaps   \* mishaps so far

opsVars == <<unit, carried, applying, disabled, cut, mishaps>>

NoUnit  == [script |-> 0, enabled |-> FALSE, active |-> FALSE]
Resting == [component |-> NoComponent, call |-> "read"]

OpsTypeOK ==
  /\ unit \in [Component -> [script : 0 .. Versions, enabled : BOOLEAN, active : BOOLEAN]]
  /\ carried \in 1 .. Versions
  /\ applying \in [component : Component \cup {NoComponent}, call : {"read", "stop", "install"}]
  /\ disabled \subseteq Component /\ cut \subseteq Component
  /\ mishaps \in 0 .. Mishaps

OpsInit ==
  /\ unit = [c \in Component |-> NoUnit] /\ carried = 1 /\ applying = Resting
  /\ disabled = {} /\ cut = {} /\ mishaps = 0

Mishap == mishaps < Mishaps /\ mishaps' = mishaps + 1

-------------------------------------------------------------------------------

\* The operator takes a newer version of the command.
Upgrade ==
  /\ carried < Versions /\ applying = Resting
  /\ carried' = carried + 1
  /\ UNCHANGED <<unit, applying, disabled, cut, mishaps>>

\* newOpsApplyCmd, one of its components: a script that is identical is up to date,
\* whatever its timer does; otherwise the units are stopped first, even if that fails.
OpsApply(c) ==
  /\ applying = Resting
  /\ applying' = IF unit[c].script = carried THEN Resting ELSE [component |-> c, call |-> "stop"]
  /\ UNCHANGED <<unit, carried, disabled, cut, mishaps>>

StopUnits ==
  LET c == applying.component
  IN /\ applying.call = "stop"
     /\ applying' = [applying EXCEPT !.call = "install"]
     /\ unit' = [unit EXCEPT ![c].active = FALSE]
     /\ UNCHANGED <<carried, disabled, cut, mishaps>>

\* Variant: the timer is started and not enabled.
InstalledStarted(c) ==
  /\ unit' = [unit EXCEPT ![c].script = carried, ![c].active = TRUE]
  /\ disabled' = disabled \ {c} /\ cut' = cut \ {c}
  /\ UNCHANGED mishaps

\* InstallTraefikWatch, InstallSecurityWatch: script and units, then enable --now.
Installed(c) ==
  /\ unit' = [unit EXCEPT ![c] = [script |-> carried, enabled |-> TRUE, active |-> TRUE]]
  /\ disabled' = disabled \ {c} /\ cut' = cut \ {c}
  /\ UNCHANGED mishaps

\* The same when the connection is lost before or after the script is written, or when
\* systemctl refuses, which the script does not report.
InstallFailed(c) ==
  /\ Mishap
  /\ unit' \in {unit, [unit EXCEPT ![c].script = carried]}
  /\ cut' = cut \cup {c}
  /\ UNCHANGED disabled

FinishApply ==
  /\ applying.call = "install"
  /\ applying' = Resting
  /\ Installed(applying.component) \/ InstallFailed(applying.component)
  /\ UNCHANGED carried

\* The command dies on the way.
ApplyDies ==
  /\ applying # Resting /\ Mishap
  /\ applying' = Resting /\ cut' = cut \cup {applying.component}
  /\ UNCHANGED <<unit, carried, disabled>>

\* applyWatchdogPhasesOn: a fleet apply installs without comparing or stopping.
InstallPhase(c) ==
  /\ Installed(c) \/ InstallFailed(c)
  /\ UNCHANGED <<carried, applying>>

\* newOpsEnableCmd: systemctl knows a timer that was installed.
OpsEnable(c) ==
  /\ unit[c].script > 0
  /\ unit' = [unit EXCEPT ![c].enabled = TRUE, ![c].active = TRUE]
  /\ disabled' = disabled \ {c}
  /\ UNCHANGED <<carried, applying, cut, mishaps>>

OpsDisable(c) ==
  /\ unit[c].script > 0
  /\ unit' = [unit EXCEPT ![c].enabled = FALSE, ![c].active = FALSE]
  /\ disabled' = disabled \cup {c}
  /\ UNCHANGED <<carried, applying, cut, mishaps>>

\* newOpsRemoveCmd, whether the component is there or not.
OpsRemove(c) ==
  /\ unit' = [unit EXCEPT ![c] = NoUnit]
  /\ UNCHANGED <<carried, applying, disabled, cut, mishaps>>

\* The same when it ends after a call of its own has stopped the units, or after the
\* timer was disabled too.
RemovalCut(c) ==
  /\ unit[c].script > 0 /\ Mishap
  /\ \E on \in {unit[c].enabled, FALSE} :
       unit' = [unit EXCEPT ![c] = [script |-> unit[c].script, enabled |-> on, active |-> FALSE]]
  /\ cut' = cut \cup {c}
  /\ UNCHANGED <<carried, applying, disabled>>

OpsReboot == unit' = [c \in Component |-> [unit[c] EXCEPT !.active = unit[c].enabled]]

OpsContinue == StopUnits \/ FinishApply

OpsStep ==
  \/ Upgrade \/ OpsContinue \/ ApplyDies
  \/ \E c \in Component : \/ OpsApply(c) \/ InstallPhase(c) \/ OpsEnable(c) \/ OpsDisable(c)
                          \/ RemovalCut(c)

OpsNext == \/ OpsStep \/ (\E c \in Component : OpsRemove(c))
           \/ OpsReboot /\ UNCHANGED <<carried, applying, disabled, cut, mishaps>>

OpsSpec == OpsInit /\ [][OpsNext]_opsVars

-------------------------------------------------------------------------------

\* The timer of a component that is installed runs, and will after a reboot, unless the
\* operator disabled it or an install or removal of it was cut: in whatever order commands of
\* several versions, fleet applies and reboots come.
WatchdogsStay ==
  \A c \in Component :
    \/ unit[c].script = 0 \/ c \in disabled \cup cut
    \/ unit[c].enabled /\ (unit[c].active \/ applying = [component |-> c, call |-> "install"])
===============================================================================
