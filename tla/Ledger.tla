--------------------------------- MODULE Ledger ---------------------------------
(***************************************************************************)
(* The two files the operator's computer keeps: state.yaml, what has been  *)
(* deployed where, and config.yaml, the nodes.  A recording reads the      *)
(* whole file, changes one entry and writes the whole file back, which     *)
(* empties it first.  Commands do not lock it, nor do the goroutines of    *)
(* `deploy push --all`; those of one `state sync` share a mutex.           *)
(* Source: src/cmd/sdk-ops/state.go, config.go, infra.go, deploy.go.       *)
(***************************************************************************)
EXTENDS Naturals

CONSTANTS
  Entry,     \* their entries
  Value,     \* what an entry says
  Recorder,  \* commands, and goroutines of commands
  Syncing,   \* those that are goroutines of a `state sync`
  Nothing,      \* no entry, nobody
  Cut        \* a file that does not parse

ASSUME LedgerConstants ==
  Syncing \subseteq Recorder /\ Nothing \notin Value \cup Recorder /\ Cut \notin [Entry -> Value \cup {Nothing}]

File == {"state", "config"}

VARIABLES
  disk,   \* per file: its entries, or Cut
  task,   \* per recorder: what it has to record and how far it is
  mutex,  \* the goroutine that holds the mutex of `state sync`
  last,   \* per file and entry: what was last recorded
  mixed   \* files where recordings met, or one was cut short

ledgerVars == <<disk, task, mutex, last, mixed>>

Entries == [Entry -> Value \cup {Nothing}]
NoEntries    == [e \in Entry |-> Nothing]
Resting == [at |-> "rest", file |-> Nothing, entry |-> Nothing, value |-> Nothing, seen |-> NoEntries]

LedgerTypeOK ==
  /\ disk \in [File -> Entries \cup {Cut}]
  /\ task \in [Recorder -> [at : {"rest", "due", "read", "emptied"}, file : File \cup {Nothing},
                            entry : Entry \cup {Nothing}, value : Value \cup {Nothing}, seen : Entries]]
  /\ \A r \in Recorder : task[r].at # "rest" => task[r].file \in File /\ task[r].entry \in Entry
  /\ mutex \in Syncing \cup {Nothing}
  /\ last \in [File -> Entries]
  /\ mixed \subseteq File

LedgerInit ==
  /\ disk = [f \in File |-> NoEntries] /\ last = disk
  /\ task = [r \in Recorder |-> Resting] /\ mutex = Nothing /\ mixed = {}

-------------------------------------------------------------------------------

\* A command has done its work and is to record it; with Nothing, to take an entry out.
Due(r, f, e, v) ==
  /\ task[r].at = "rest"
  /\ task' = [task EXCEPT ![r] = [at |-> "due", file |-> f, entry |-> e, value |-> v,
                                  seen |-> NoEntries]]

\* Recorders at work on r's file, but those a mutex keeps apart from r.
Others(r) ==
  {q \in Recorder \ {r} : /\ task[q].at \in {"read", "emptied"} /\ task[q].file = task[r].file
                          /\ ~ {q, r} \subseteq Syncing}

\* Variant: the goroutines of a sync do not take their mutex.
MayReadUnlocked(r) == TRUE

\* mu.Lock around stateRecord in stateSyncServices and stateSyncDatabases.
MayRead(r) == r \in Syncing => mutex = Nothing

\* loadState, loadConfig and the change of the entry.  A file that does not parse ends
\* the recording: silently, with an error, or with a panic.
Load(r) ==
  LET f == task[r].file  t == task[r]
  IN /\ t.at = "due" /\ MayRead(r)
     /\ IF disk[f] = Cut
        THEN task' = [task EXCEPT ![r] = Resting] /\ UNCHANGED <<mutex, mixed>>
        ELSE /\ task' = [task EXCEPT ![r].at = "read", ![r].seen = [disk[f] EXCEPT ![t.entry] = t.value]]
             /\ mutex' = IF r \in Syncing THEN r ELSE mutex
             /\ mixed' = IF \E q \in Others(r) : task[q].at = "emptied" THEN mixed \cup {f} ELSE mixed
     /\ UNCHANGED <<disk, last>>

\* os.WriteFile opens the file and empties it,
Empty(r) ==
  LET f == task[r].file
  IN /\ task[r].at = "read"
     /\ task' = [task EXCEPT ![r].at = "emptied"]
     /\ disk' = [disk EXCEPT ![f] = NoEntries]
     /\ mixed' = IF Others(r) = {} THEN mixed ELSE mixed \cup {f}
     /\ UNCHANGED <<mutex, last>>

\* and writes it from the start: over what another writer has put there meanwhile.
Fill(r) ==
  LET f == task[r].file  t == task[r]
  IN /\ t.at = "emptied"
     /\ \E content \in {t.seen} \cup (IF disk[f] = NoEntries THEN {} ELSE {Cut}) :
          disk' = [disk EXCEPT ![f] = content]
     /\ task' = [task EXCEPT ![r] = Resting]
     /\ mutex' = IF mutex = r THEN Nothing ELSE mutex
     /\ last' = [last EXCEPT ![f][t.entry] = t.value]
     /\ UNCHANGED mixed

\* The process dies, or the disk is full: of an emptied file nothing is left, or a part
\* (taken as nothing when it parses).  A sync dies with all its goroutines.
DieRecording(r) ==
  LET f    == task[r].file
      dead == IF r \in Syncing THEN Syncing ELSE {r}
  IN /\ task[r].at # "rest"
     /\ task' = [q \in Recorder |-> IF q \in dead THEN Resting ELSE task[q]]
     /\ mutex' = IF mutex \in dead THEN Nothing ELSE mutex
     /\ IF \E q \in dead : task[q].at = "emptied"
        THEN /\ task[r].at = "emptied"
             /\ \E left \in {NoEntries, Cut} : disk' = [disk EXCEPT ![f] = left]
             /\ mixed' = mixed \cup {f}
        ELSE UNCHANGED <<disk, mixed>>
     /\ UNCHANGED last

LedgerStep == \E r \in Recorder : Load(r) \/ Empty(r) \/ Fill(r)

-------------------------------------------------------------------------------

\* Every entry says what was last recorded of it, whatever was recorded of others: unless
\* two recordings met that no mutex keeps apart, or one was cut short.
EntriesKept ==
  \A f \in File : \/ f \in mixed
                  \/ \E r \in Recorder : task[r].at = "emptied" /\ task[r].file = f
                  \/ disk[f] = last[f]
===============================================================================
