----------------------------- MODULE ServiceDeploy -----------------------------
(***************************************************************************)
(* One service on one node: `deploy push`, `service rollback` and          *)
(* `service restart`.  Each push is one run of the CLI and a sequence of   *)
(* SSH commands (list versions, extract, link, run, health check, roll     *)
(* back); an action is one of these commands, so pushes and the other      *)
(* commands interleave between them.                                       *)
(* Source: src/deploy/{upload,run,bluegreen,swarm_runtime,bare_runtime}.go *)
(* and src/cmd/sdk-ops/deploy.go.                                          *)
(***************************************************************************)
EXTENDS Integers, FiniteSets

CONSTANTS
  Pushes,      \* runs of `deploy push`
  Releases,    \* contents of the source directories
  Runnable,    \* releases with a compose file or a binary to start
  Sound,       \* releases that answer their health check once running
  WithUrl,     \* releases whose service.yaml has a health_url
  ForeignProbe, \* another service answers on a fallback probe port
  Modes,       \* subset of {"default", "zero-downtime", "swarm", "bare"}
  Faults,      \* commands that can fail: subset of {"list", "extract", "link", "run", "init"}
  Operator,    \* other commands used: subset of {"rollback", "restart"}
  None, CurrentLink  \* no version, and the link `previous` naming the link `current`

ASSUME PushAssumption == IsFiniteSet(Pushes)
ASSUME ReleaseAssumption ==
  Runnable \subseteq Releases /\ Sound \subseteq Releases /\ WithUrl \subseteq Releases
ASSUME ModeAssumption == Modes \subseteq {"default", "zero-downtime", "swarm", "bare"}
ASSUME NoneAssumption == None \notin Nat \cup Pushes /\ CurrentLink \notin Nat \cup {None}

VARIABLES
  files,    \* version number -> releases unpacked in that directory
  cut,      \* versions whose last extraction broke off
  current,  \* the version the link `current` points at
  previous, \* likewise, or CurrentLink
  running,  \* the files the running containers or unit were started from
  pc,       \* the next command of each push
  rel, mode,\* what a push deploys, and --runtime or --zero-downtime
  ver,      \* the version number a push computed
  \* History variables, which no action reads:
  seen,     \* the versions a push was shown, or None if the listing failed
  base,     \* what a push's link command found `current` at
  crossed,  \* pushes that had the links moved or the service started by another
  named     \* versions an operator rolled back to by number

node  == <<files, cut, current, previous, running>>
push  == <<pc, rel, mode, ver>>
history == <<seen, base, crossed, named>>
vars  == <<node, push, history>>

Version == 1 .. Cardinality(Pushes)

Dirs == {v \in Version : files[v] # {}}

TypeOK ==
  /\ files \in [Version -> SUBSET Releases]
  /\ cut \subseteq Version
  /\ current \in Version \cup {None}
  /\ previous \in Version \cup {None, CurrentLink}
  /\ running \subseteq Releases
  /\ pc \in [Pushes -> {"new", "extract", "link", "run", "check", "rollback",
                        "rerun", "rejected", "finish", "ok", "failed"}]
  /\ rel \in [Pushes -> Releases]
  /\ mode \in [Pushes -> Modes]
  /\ ver \in [Pushes -> Version \cup {None}]
  /\ seen \in [Pushes -> (SUBSET Version) \cup {None}]
  /\ base \in [Pushes -> Version \cup {None}]
  /\ crossed \subseteq Pushes
  /\ named \subseteq Version

Init ==
  /\ files = [v \in Version |-> {}]
  /\ cut = {}
  /\ current = None /\ previous = None
  /\ running = {}
  /\ pc = [p \in Pushes |-> "new"]
  /\ rel \in [Pushes -> Releases]
  /\ mode \in [Pushes -> Modes]
  /\ ver = [p \in Pushes |-> None]
  /\ seen = [p \in Pushes |-> None]
  /\ base = [p \in Pushes |-> None]
  /\ crossed = {} /\ named = {}

-------------------------------------------------------------------------------
(* Steps of a push                                                         *)

Goto(p, label) == pc' = [pc EXCEPT ![p] = label]

\* Pushes between their link command and their outcome, p itself excepted.
Underway(p) == {q \in Pushes \ {p} : pc[q] \in {"run", "check", "rollback", "rerun", "rejected", "finish"}}

\* Variant: the number after the version in service.
NextAfterCurrent(dirs) == IF current = None THEN 1 ELSE current + 1

\* nextVersion: one more than the highest directory, whole or not.
NextVersion(dirs) ==
  IF dirs = {} THEN 1 ELSE 1 + CHOOSE v \in dirs : \A w \in dirs : w <= v

\* An error of the listing is answered with version 1.
List(p) ==
  /\ pc[p] = "new"
  /\ Goto(p, "extract")
  /\ \/ /\ ver' = [ver EXCEPT ![p] = NextVersion(Dirs)]
        /\ seen' = [seen EXCEPT ![p] = Dirs]
     \/ /\ "list" \in Faults
        /\ ver' = [ver EXCEPT ![p] = 1]
        /\ UNCHANGED seen
  /\ UNCHANGED <<node, rel, mode, base, crossed, named>>

\* tar unpacks over whatever the directory holds.
Unpack(p) == files' = [files EXCEPT ![ver[p]] = @ \cup {rel[p]}]

\* Variant: a broken upload is linked all the same.
ExtractIgnored(p) ==
  /\ pc[p] = "extract"
  /\ Unpack(p)
  /\ Goto(p, "link")
  /\ \/ UNCHANGED cut
     \/ "extract" \in Faults /\ cut' = cut \cup {ver[p]}
  /\ UNCHANGED <<current, previous, running, rel, mode, ver, history>>

\* A broken upload ends the push and leaves its directory behind.
Extract(p) ==
  /\ pc[p] = "extract"
  /\ Unpack(p)
  /\ \/ Goto(p, "link") /\ UNCHANGED cut
     \/ /\ "extract" \in Faults
        /\ cut' = cut \cup {ver[p]}
        /\ Goto(p, "failed")
  /\ UNCHANGED <<current, previous, running, rel, mode, ver, history>>

\* The runtimes look for a directory named by the bare number, without the v,
\* and never find it.  Starting the green container in it fails,
BlueGreen == "failed"

\* so does reading the stack's compose file,
Swarm == "failed"

\* and no executable in it means to the bare runtime that an upload was asked for.
Bare == "finish"

\* deployRuntimeOnNode.
AfterLink(m) == CASE m = "default"       -> "run"
                  [] m = "zero-downtime" -> BlueGreen
                  [] m = "swarm"         -> Swarm
                  [] m = "bare"          -> Bare

\* `previous` is linked to the path of `current`, then `current` to the version;
\* an SSH error is logged and the push goes on.
Link(p) ==
  /\ pc[p] = "link"
  /\ Goto(p, AfterLink(mode[p]))
  /\ base' = [base EXCEPT ![p] = current]
  /\ \/ /\ previous' = CurrentLink /\ current' = ver[p]
        /\ crossed' = crossed \cup Underway(p)
     \/ /\ "link" \in Faults
        /\ crossed' = crossed \cup {p}
        /\ UNCHANGED <<current, previous>>
  /\ UNCHANGED <<files, cut, running, rel, mode, ver, seen, named>>

\* What `current` holds, and nothing when there is no such link.
Here == IF current = None THEN {} ELSE files[current]

\* Variant: containers of an older version are left running.
StartedBeside ==
  running' = IF Here \cap Runnable = {} \/ running # {} THEN running ELSE Here

\* RunService in `current`: having nothing to start is no error.
Started == running' = IF Here \cap Runnable = {} THEN running ELSE Here

\* Containers are removed, the image pulled and started: a failure can leave
\* the old ones running or none.
StartBroke == "run" \in Faults /\ running' \in {running, {}}

Run(p) ==
  /\ pc[p] = "run"
  /\ \/ Started /\ Goto(p, "check")
     \/ StartBroke /\ Goto(p, "failed")
  /\ crossed' = crossed \cup Underway(p)
  /\ UNCHANGED <<files, cut, current, previous, rel, mode, ver, seen, base, named>>

\* HealthCheck asks the release's own URL, or else takes the answer of any
\* service on ports 18081, 8080, 3000 or any running container of that name.
Healthy(r) == IF r \in WithUrl THEN running # {} /\ running \subseteq Sound
              ELSE ForeignProbe \/ running # {}

Check(p) ==
  /\ pc[p] = "check"
  /\ \/ Healthy(rel[p]) /\ Goto(p, "finish")
     \/ ~Healthy(rel[p]) /\ Goto(p, "rollback")
  /\ UNCHANGED <<node, rel, mode, ver, history>>

-------------------------------------------------------------------------------
(* Rollback, automatic and by command                                      *)

\* `readlink -f previous`.
PreviousDir == IF previous = CurrentLink THEN current ELSE previous

\* Rollback("") and Rollback(version); `ln` refuses an empty target.
MoveLinks(v) == /\ current' = v
                /\ previous' = IF current = None THEN previous ELSE current

AutoRollback(p) ==
  /\ pc[p] = "rollback"
  /\ IF PreviousDir = None
     THEN Goto(p, "failed") /\ UNCHANGED <<current, previous>>
     ELSE \/ Goto(p, "rerun") /\ MoveLinks(PreviousDir)
          \/ "link" \in Faults /\ Goto(p, "failed") /\ UNCHANGED <<current, previous>>
  /\ crossed' = crossed \cup Underway(p)
  /\ UNCHANGED <<files, cut, running, rel, mode, ver, seen, base, named>>

\* The version rolled back to is started; an error is logged.
Rerun(p) ==
  /\ pc[p] = "rerun"
  /\ Started \/ StartBroke
  /\ Goto(p, "rejected")
  /\ crossed' = crossed \cup Underway(p)
  /\ UNCHANGED <<files, cut, current, previous, rel, mode, ver, seen, base, named>>

\* The template's init command and the port policy can still fail the push.
Finish(p) ==
  /\ \/ pc[p] = "rejected" /\ Goto(p, "failed")
     \/ pc[p] = "finish" /\ Goto(p, "ok")
     \/ pc[p] = "finish" /\ "init" \in Faults /\ Goto(p, "failed")
  /\ UNCHANGED <<node, rel, mode, ver, history>>

\* `service rollback`: only the links move.
RollbackPrevious ==
  /\ "rollback" \in Operator
  /\ PreviousDir # None
  /\ MoveLinks(PreviousDir)
  /\ crossed' = crossed \cup Underway(None)
  /\ UNCHANGED <<files, cut, running, push, seen, base, named>>

\* `service rollback --version`: any directory there will do.
RollbackTo(v) ==
  /\ "rollback" \in Operator
  /\ v \in Dirs
  /\ MoveLinks(v)
  /\ named' = named \cup {v}
  /\ crossed' = crossed \cup Underway(None)
  /\ UNCHANGED <<files, cut, running, push, seen, base>>

\* `service restart`: RunService.
Restart ==
  /\ "restart" \in Operator
  /\ Started \/ StartBroke
  /\ crossed' = crossed \cup Underway(None)
  /\ UNCHANGED <<files, cut, current, previous, push, seen, base, named>>

\* Every push has ended and no operator is left.
Done == /\ \A p \in Pushes : pc[p] \in {"ok", "failed"}
        /\ UNCHANGED vars

Next == \/ \E p \in Pushes : \/ List(p) \/ Extract(p) \/ Link(p) \/ Run(p)
                             \/ Check(p) \/ AutoRollback(p) \/ Rerun(p) \/ Finish(p)
        \/ RollbackPrevious
        \/ \E v \in Version : RollbackTo(v)
        \/ Restart
        \/ Done

Spec == Init /\ [][Next]_vars

-------------------------------------------------------------------------------
(* Properties                                                              *)

\* p and another push computed the same number.
Shares(p) == \E q \in Pushes \ {p} : ver[q] = ver[p]

\* What a version holds never changes once it is there, except by a push that
\* was not shown the version: it listed before the upload, or the listing failed.
\* (nextVersion counts broken uploads and versions above the one in service.)
VersionsKept ==
  [][\A v \in Dirs : files'[v] # files[v] =>
       \E p \in Pushes : pc[p] = "extract" /\ ver[p] = v
                        /\ (seen[p] = None \/ v \notin seen[p])]_vars

\* Only an operator who names it, or two pushes with one number, can put a
\* broken upload in service: UploadAndDeploy links after the extraction succeeds.
CurrentIsWhole ==
  current \in cut => current \in named \/ \E p \in Pushes : Shares(p) /\ ver[p] = current

\* A push that passed its health check on the default path runs its own
\* release and `current` names it, unless another command moved the links or
\* restarted the service meanwhile, or there was nothing in it to start.
OkMeansServed ==
  \A p \in Pushes :
    pc[p] = "finish" /\ mode[p] = "default" /\ p \notin crossed
      /\ rel[p] \in Runnable /\ ~Shares(p)
    => running = {rel[p]} /\ current = ver[p]

\* docs/architecture.md:196: a failed health check leads to "auto-rollback", and
\* README.md:175 says a rollback goes "to previous version": after it, the
\* version that was in service before the push is in service again.
AutoRollbackRestores ==
  \A p \in Pushes :
    pc[p] = "rejected" /\ p \notin crossed /\ base[p] # None => current = base[p]

===============================================================================
