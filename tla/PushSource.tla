------------------------------ MODULE PushSource ------------------------------
(***************************************************************************)
(* The source directory `deploy push` reads and writes on the operator's   *)
(* machine: service.yaml, which may be sealed with sops, and the compose   *)
(* file.  A push with --sops-key opens service.yaml in place and seals it  *)
(* again when it ends, however it ends; pushes of one directory share the  *)
(* files and interleave.                                                   *)
(* Source: src/cmd/sdk-ops/deploy.go, src/secrets/secrets.go and           *)
(* src/deploy/builder.go.                                                  *)
(***************************************************************************)
EXTENDS Integers, FiniteSets

CONSTANTS
  Deploy,    \* pushes of the directory
  KeyGiven,  \* those with --sops-key
  Builder,   \* those with --builder
  Connected, \* service.yaml has a database with a url
  Troubles   \* what can go wrong: subset of {"decrypt", "build", "write", "encrypt", "kill"}

ASSUME PushSourceConstants ==
  /\ KeyGiven \subseteq Deploy /\ Builder \subseteq Deploy /\ Connected \in BOOLEAN
  /\ Troubles \subseteq {"decrypt", "build", "write", "encrypt", "kill"}

\* What is in service.yaml: nothing (no file), plain YAML, plain JSON, or what
\* sops made of it, as JSON or as YAML.
Text   == {"none", "plain", "braces", "json", "sops"}
Sealed == {"json", "sops"}

VARIABLES
  text,     \* what service.yaml holds
  compose,  \* there is a docker-compose.yml
  step,     \* the next step of each push
  opened,   \* pushes that will seal the file when they end
  database, \* pushes that found a database in it
  copy,     \* what a push read of it, to write back with the database's host changed
  \* History variables, which no action reads:
  was,      \* the file has been sealed
  excused   \* a push that had opened it was killed, a sealing failed, or an older text was written over a sealed one

pushSource == <<text, compose, step, opened, database, copy, was, excused>>

PushSourceTypeOK ==
  /\ text \in Text /\ compose \in BOOLEAN
  /\ step \in [Deploy -> {"new", "decrypt", "build", "read", "compose", "copy", "paste", "deploy", "seal", "ended"}]
  /\ opened \subseteq Deploy /\ database \subseteq Deploy
  /\ copy \in [Deploy -> Text]
  /\ was \in BOOLEAN /\ excused \in BOOLEAN

PushSourceInit ==
  /\ text \in Text /\ compose \in BOOLEAN
  /\ step = [p \in Deploy |-> "new"]
  /\ opened = {} /\ database = {}
  /\ copy = [p \in Deploy |-> "none"]
  /\ was = (IF text \in Sealed THEN TRUE ELSE FALSE) /\ excused = FALSE

----------------------------------------------------------------------------
To(p, label) == step' = [step EXCEPT ![p] = label]

\* FileIsEncrypted: it begins with a brace (or with the key sops puts last).
Recognised == {"braces", "json"}

\* decryptSecretsIfNeeded, before it runs sops.
Begin(p) ==
  /\ step[p] = "new"
  /\ To(p, IF p \in KeyGiven /\ text \in Recognised THEN "decrypt" ELSE "build")
  /\ UNCHANGED <<text, compose, opened, database, copy, was, excused>>

\* sops opens what is sealed, whichever way, and writes YAML, as the name says.
Decrypt(p) ==
  /\ step[p] = "decrypt"
  /\ \/ /\ text \in Sealed
        /\ text' = "plain" /\ opened' = opened \cup {p}
        /\ To(p, "build")
     \/ /\ text \notin Sealed \/ "decrypt" \in Troubles
        /\ To(p, "ended")
        /\ UNCHANGED <<text, opened>>
  /\ UNCHANGED <<compose, database, copy, was, excused>>

\* buildImage: with a compose file there and no flag there is nothing to build,
\* and a failed build leaves the push without an image.
Build(p) ==
  /\ step[p] = "build"
  /\ LET wanted == p \in Builder \/ ~compose
     IN \/ wanted /\ To(p, "read")
        \/ (wanted => "build" \in Troubles) /\ To(p, "deploy")
  /\ UNCHANGED <<text, compose, opened, database, copy, was, excused>>

\* parseServiceConfig of a push with an image: in JSON the keys are quoted and not seen.
Parse(p) ==
  /\ step[p] = "read"
  /\ To(p, "compose")
  /\ database' = IF Connected /\ text \in {"plain", "sops"} THEN database \cup {p} ELSE database
  /\ UNCHANGED <<text, compose, opened, copy, was, excused>>

\* generateComposeAndServiceYaml: whatever compose file there is goes.
WriteCompose(p) ==
  /\ step[p] = "compose"
  /\ \/ /\ compose' = TRUE
        /\ To(p, IF p \in database THEN "copy" ELSE "deploy")
     \/ /\ "write" \in Troubles
        /\ To(p, "seal")
        /\ UNCHANGED compose
  /\ UNCHANGED <<text, opened, database, copy, was, excused>>

\* Then service.yaml is read, if it can be,
Copy(p) ==
  /\ step[p] = "copy"
  /\ copy' = [copy EXCEPT ![p] = text]
  /\ To(p, IF text = "none" THEN "deploy" ELSE "paste")
  /\ UNCHANGED <<text, compose, opened, database, was, excused>>

\* and written back with another host; an error is logged.
Paste(p) ==
  /\ step[p] = "paste"
  /\ \/ /\ text' = copy[p]
        /\ excused' = IF text \in Sealed /\ copy[p] \notin Sealed THEN TRUE ELSE excused
     \/ "write" \in Troubles /\ UNCHANGED <<text, excused>>
  /\ To(p, "deploy")
  /\ UNCHANGED <<compose, opened, database, copy, was>>

\* Variant: only a push that succeeded seals the file again.
UploadThenSeal(p) ==
  /\ step[p] = "deploy"
  /\ To(p, "seal") \/ To(p, "ended")
  /\ UNCHANGED <<text, compose, opened, database, copy, was, excused>>

\* deployToOne or deployToAllNodes (ServiceDeploy): however it goes,
Upload(p) ==
  /\ step[p] = "deploy"
  /\ To(p, "seal")
  /\ UNCHANGED <<text, compose, opened, database, copy, was, excused>>

\* EncryptFile: sops refuses what is sealed, and seals anything else as YAML.
Seals ==
  IF text \in Sealed \cup {"none"} THEN UNCHANGED <<text, was>>
  ELSE text' = "sops" /\ was' = TRUE

\* the deferred reencrypt runs last; an error of it is logged.
Reencrypt(p) ==
  /\ step[p] = "seal"
  /\ To(p, "ended")
  /\ \/ /\ IF p \in opened THEN Seals ELSE UNCHANGED <<text, was>>
        /\ UNCHANGED excused
     \/ /\ p \in opened /\ "encrypt" \in Troubles
        /\ excused' = TRUE
        /\ UNCHANGED <<text, was>>
  /\ UNCHANGED <<compose, opened, database, copy>>

\* A signal ends the program, and the deferred calls do not run.
Kill(p) ==
  /\ "kill" \in Troubles
  /\ step[p] \notin {"new", "ended"}
  /\ To(p, "ended")
  /\ excused' = IF p \in opened THEN TRUE ELSE excused
  /\ UNCHANGED <<text, compose, opened, database, copy, was>>

\* `deploy encrypt`.
EncryptCommand ==
  /\ Seals
  /\ UNCHANGED <<compose, step, opened, database, copy, excused>>

PushSourceNext ==
  \/ \E p \in Deploy : \/ Begin(p) \/ Decrypt(p) \/ Build(p) \/ Parse(p) \/ WriteCompose(p)
                       \/ Copy(p) \/ Paste(p) \/ Upload(p) \/ Reencrypt(p) \/ Kill(p)
  \/ EncryptCommand

PushSourceSpec == PushSourceInit /\ [][PushSourceNext]_pushSource

----------------------------------------------------------------------------
\* A service.yaml that has been sealed is sealed whenever no push is at work,
\* whatever the pushes did and in whatever order, unless one was killed with
\* the file open, its sealing failed, or it wrote back what it had read before another sealed it
\* (decryptSecretsIfNeeded and the call it defers).
SealedAtRest ==
  (\A p \in Deploy : step[p] \in {"new", "ended"}) /\ was /\ ~excused => text \in Sealed
===============================================================================
