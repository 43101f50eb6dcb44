-------------------------- MODULE OperatorFilesProofs --------------------------
(* The files on the operator's computer.  PushSource for any number of pushes *)
(* and any troubles: that a service.yaml that was sealed is sealed when no    *)
(* push is at work.  Ledger and Databases for any commands, databases, nodes  *)
(* and services: that the ledger loses no entry, and that it is true.  And     *)
(* Members for any list of nodes: that registering one keeps the others.      *)
EXTENDS PushSource, Databases, Members, TLAPS

-------------------------------------------------------------------------------
(* The directory that is pushed                                              *)

\* Types hold of every behaviour: of all constants the module allows.
THEOREM SourceTypes == PushSourceSpec => []PushSourceTypeOK
<1>1. PushSourceInit => PushSourceTypeOK
  BY PushSourceConstants DEF PushSourceInit, PushSourceTypeOK, Text, Sealed
<1>2. PushSourceTypeOK /\ [PushSourceNext]_pushSource => PushSourceTypeOK'
  <2> SUFFICES ASSUME PushSourceTypeOK, [PushSourceNext]_pushSource PROVE PushSourceTypeOK'
    OBVIOUS
  <2> USE DEF PushSourceTypeOK, Text, Sealed, To
  <2>1. ASSUME NEW p \in Deploy, Begin(p) PROVE PushSourceTypeOK'
    BY <2>1 DEF Begin
  <2>2. ASSUME NEW p \in Deploy, Decrypt(p) PROVE PushSourceTypeOK'
    BY <2>2 DEF Decrypt
  <2>3. ASSUME NEW p \in Deploy, Build(p) PROVE PushSourceTypeOK'
    BY <2>3 DEF Build
  <2>4. ASSUME NEW p \in Deploy, Parse(p) PROVE PushSourceTypeOK'
    BY <2>4 DEF Parse
  <2>5. ASSUME NEW p \in Deploy, WriteCompose(p) PROVE PushSourceTypeOK'
    BY <2>5 DEF WriteCompose
  <2>6. ASSUME NEW p \in Deploy, Copy(p) PROVE PushSourceTypeOK'
    BY <2>6 DEF Copy
  <2>7. ASSUME NEW p \in Deploy, Paste(p) PROVE PushSourceTypeOK'
    BY <2>7 DEF Paste
  <2>8. ASSUME NEW p \in Deploy, Upload(p) PROVE PushSourceTypeOK'
    BY <2>8 DEF Upload
  <2>9. ASSUME NEW p \in Deploy, Reencrypt(p) PROVE PushSourceTypeOK'
    BY <2>9 DEF Reencrypt, Seals
  <2>10. ASSUME NEW p \in Deploy, Kill(p) PROVE PushSourceTypeOK'
    BY <2>10 DEF Kill
  <2>11. CASE EncryptCommand
    BY <2>11 DEF EncryptCommand, Seals
  <2>12. CASE UNCHANGED pushSource
    BY <2>12 DEF pushSource
  <2> QED
    BY <2>1, <2>2, <2>3, <2>4, <2>5, <2>6, <2>7, <2>8, <2>9, <2>10, <2>11, <2>12 DEF PushSourceNext
<1> QED
  BY <1>1, <1>2, PTL DEF PushSourceSpec

-------------------------------------------------------------------------------

\* A push that opened the file is past the opening.
Past == \A p \in opened : step[p] \notin {"new", "decrypt"}

\* What is written back was read from a file.
SomethingCopied == \A p \in Deploy : step[p] = "paste" => copy[p] # "none"

\* A file that was sealed is still there.
StillThere == was => text # "none"

\* The file is sealed but while a push that opened it is at work.
SealedUnlessOpen == was /\ ~excused /\ (\A p \in opened : step[p] = "ended") => text \in Sealed

SealInv == PushSourceTypeOK /\ Past /\ SomethingCopied /\ StillThere /\ SealedUnlessOpen

\* The step of one push, by what it does to the file.
LEMMA PushKeepsSeal ==
  ASSUME SealInv, NEW p \in Deploy,
         \/ Begin(p) \/ Decrypt(p) \/ Build(p) \/ Parse(p) \/ WriteCompose(p)
         \/ Copy(p) \/ Paste(p) \/ Upload(p) \/ Reencrypt(p) \/ Kill(p)
  PROVE  (Past /\ SomethingCopied /\ StillThere /\ SealedUnlessOpen)'
<1> USE DEF SealInv, PushSourceTypeOK, To
<1>1. Past'
  BY DEF Past, Begin, Decrypt, Build, Parse, WriteCompose, Copy, Paste, Upload, Reencrypt, Kill
<1>2. SomethingCopied'
  BY DEF SomethingCopied, Begin, Decrypt, Build, Parse, WriteCompose, Copy, Paste, Upload, Reencrypt, Kill
<1>3. StillThere'
  <2>1. CASE Paste(p)
    BY <2>1 DEF Paste, StillThere, SomethingCopied
  <2>2. CASE Decrypt(p)
    BY <2>2 DEF Decrypt, StillThere
  <2>3. CASE Reencrypt(p)
    BY <2>3 DEF Reencrypt, Seals, StillThere
  <2> QED
    BY <2>1, <2>2, <2>3 DEF StillThere, Begin, Build, Parse, WriteCompose, Copy, Upload, Kill
<1>4. SealedUnlessOpen'
  <2> SUFFICES ASSUME was', ~excused', \A q \in opened' : step'[q] = "ended" PROVE text' \in Sealed
    BY DEF SealedUnlessOpen
  <2>1. CASE Begin(p)
    <3>1. \A q \in opened : step[q] = "ended"
      BY <2>1 DEF Begin, Past
    <3> QED
      BY <2>1, <3>1 DEF Begin, SealedUnlessOpen
  <2>2. CASE Decrypt(p)
    <3>1. CASE opened' = opened \cup {p} /\ step' = [step EXCEPT ![p] = "build"]
      BY <3>1
    <3>2. CASE UNCHANGED <<text, opened>>
      <4>1. \A q \in opened : step[q] = "ended"
        BY <2>2, <3>2 DEF Decrypt, Past
      <4> QED
        BY <2>2, <3>2, <4>1 DEF Decrypt, SealedUnlessOpen
    <3> QED
      BY <2>2, <3>1, <3>2 DEF Decrypt
  <2>3. CASE Build(p) \/ Parse(p) \/ WriteCompose(p) \/ Copy(p) \/ Upload(p)
    <3>1. opened' = opened /\ UNCHANGED <<text, was, excused>> /\ step[p] # "ended" /\ step'[p] # "ended"
      BY <2>3 DEF Build, Parse, WriteCompose, Copy, Upload
    <3>2. \A q \in opened : step[q] = "ended"
      BY <2>3, <3>1 DEF Build, Parse, WriteCompose, Copy, Upload
    <3> QED
      BY <3>1, <3>2 DEF SealedUnlessOpen
  <2>4. CASE Paste(p)
    <3>1. (\A q \in opened : step[q] = "ended") /\ was /\ ~excused
      BY <2>4 DEF Paste
    <3>2. text \in Sealed
      BY <3>1 DEF SealedUnlessOpen
    <3> QED
      BY <2>4, <3>1, <3>2 DEF Paste
  <2>5. CASE Reencrypt(p)
    <3>1. CASE p \in opened
      <4>1. Seals
        BY <2>5, <3>1 DEF Reencrypt
      <4> QED
        BY <4>1 DEF Seals, Sealed, StillThere
    <3>2. CASE p \notin opened
      <4>1. (\A q \in opened : step[q] = "ended") /\ UNCHANGED <<text, was, excused>>
        BY <2>5, <3>2 DEF Reencrypt
      <4> QED
        BY <4>1 DEF SealedUnlessOpen
    <3> QED
      BY <3>1, <3>2
  <2>6. CASE Kill(p)
    <3>1. (\A q \in opened : step[q] = "ended") /\ UNCHANGED <<text, was>> /\ ~excused
      BY <2>6 DEF Kill
    <3> QED
      BY <3>1 DEF SealedUnlessOpen
  <2> QED
    BY <2>1, <2>2, <2>3, <2>4, <2>5, <2>6
<1> QED
  BY <1>1, <1>2, <1>3, <1>4

\* SealedAtRest for any number of pushes, keys, builders and troubles: what a push
\* leaves of service.yaml (decryptSecretsIfNeeded and the call it defers).
THEOREM SourceStaysSealed == PushSourceSpec => []SealedAtRest
<1>1. PushSourceInit /\ PushSourceTypeOK => SealInv
  BY DEF PushSourceInit, SealInv, Past, SomethingCopied, StillThere, SealedUnlessOpen, Sealed
<1>2. SealInv /\ PushSourceTypeOK' /\ [PushSourceNext]_pushSource => SealInv'
  <2> SUFFICES ASSUME SealInv, PushSourceTypeOK', [PushSourceNext]_pushSource PROVE SealInv'
    OBVIOUS
  <2>1. ASSUME NEW p \in Deploy,
               \/ Begin(p) \/ Decrypt(p) \/ Build(p) \/ Parse(p) \/ WriteCompose(p)
               \/ Copy(p) \/ Paste(p) \/ Upload(p) \/ Reencrypt(p) \/ Kill(p)
        PROVE  SealInv'
    BY <2>1, PushKeepsSeal DEF SealInv
  <2>2. CASE EncryptCommand
    BY <2>2 DEF EncryptCommand, Seals, SealInv, Past, SomethingCopied, StillThere, SealedUnlessOpen, Sealed
  <2>3. CASE UNCHANGED pushSource
    BY <2>3 DEF pushSource, SealInv, Past, SomethingCopied, StillThere, SealedUnlessOpen
  <2> QED
    BY <2>1, <2>2, <2>3 DEF PushSourceNext
<1>3. SealInv => SealedAtRest
  BY DEF SealInv, Past, SealedUnlessOpen, SealedAtRest, PushSourceTypeOK
<1> QED
  BY <1>1, <1>2, <1>3, SourceTypes, PTL DEF PushSourceSpec

-------------------------------------------------------------------------------
(* The ledger                                                                *)

TaskType == [at : {"rest", "due", "read", "emptied"}, file : File \cup {Nothing},
             entry : Entry \cup {Nothing}, value : Value \cup {Nothing}, seen : Entries]

LEMMA RestingTyped == Resting \in TaskType /\ NoEntries \in Entries
  BY DEF Resting, TaskType, NoEntries, Entries

\* A command or a goroutine comes to have something to record.
LEMMA DueTyped ==
  ASSUME LedgerTypeOK, UNCHANGED <<disk, mutex, last, mixed>>, NEW r \in Recorder,
         NEW f \in File, NEW e \in Entry, NEW v \in Value \cup {Nothing}, Due(r, f, e, v)
  PROVE  LedgerTypeOK'
<1>1. [at |-> "due", file |-> f, entry |-> e, value |-> v, seen |-> NoEntries] \in TaskType
  BY RestingTyped DEF TaskType
<1>2. task \in [Recorder -> TaskType]
  BY DEF LedgerTypeOK, TaskType
<1>3. task' \in [Recorder -> TaskType]
  BY <1>1, <1>2 DEF Due
<1>4. \A q \in Recorder : task'[q].at # "rest" => task'[q].file \in File /\ task'[q].entry \in Entry
  BY <1>2 DEF Due, LedgerTypeOK
<1> QED
  BY <1>3, <1>4 DEF LedgerTypeOK, TaskType

LEMMA LoadTyped ==
  ASSUME LedgerTypeOK, NEW r \in Recorder, Load(r)
  PROVE  LedgerTypeOK'
<1> DEFINE f == task[r].file
           t == task[r]
<1>1. task \in [Recorder -> TaskType] /\ t \in TaskType
  BY DEF LedgerTypeOK, TaskType
<1>2. f \in File /\ t.entry \in Entry /\ t.at = "due"
  BY DEF LedgerTypeOK, Load
<1>3. CASE disk[f] = Cut
  <2>1. task' = [task EXCEPT ![r] = Resting] /\ UNCHANGED <<mutex, mixed, disk, last>>
    BY <1>3 DEF Load
  <2>2. task' \in [Recorder -> TaskType]
    BY <1>1, <2>1, RestingTyped
  <2>3. \A q \in Recorder : task'[q].at # "rest" => task'[q].file \in File /\ task'[q].entry \in Entry
    BY <1>1, <2>1 DEF LedgerTypeOK, Resting
  <2> QED
    BY <2>1, <2>2, <2>3 DEF LedgerTypeOK, TaskType
<1>4. CASE disk[f] # Cut
  <2>1. /\ task' = [task EXCEPT ![r].at = "read", ![r].seen = [disk[f] EXCEPT ![t.entry] = t.value]]
        /\ mutex' = (IF r \in Syncing THEN r ELSE mutex)
        /\ UNCHANGED <<disk, last>>
    BY <1>4 DEF Load
  <2>2. mixed' = mixed \/ mixed' = mixed \cup {f}
    BY <1>4 DEF Load
  <2>3. disk[f] \in Entries
    BY <1>2, <1>4 DEF LedgerTypeOK
  <2>4. [disk[f] EXCEPT ![t.entry] = t.value] \in Entries
    BY <1>1, <2>3 DEF Entries, TaskType
  <2>5. task' \in [Recorder -> TaskType]
    BY <1>1, <2>1, <2>4 DEF TaskType
  <2>6. \A q \in Recorder : task'[q].at # "rest" => task'[q].file \in File /\ task'[q].entry \in Entry
    BY <1>1, <1>2, <2>1 DEF LedgerTypeOK, TaskType
  <2> QED
    BY <1>2, <2>1, <2>2, <2>5, <2>6 DEF LedgerTypeOK, TaskType
<1> QED
  BY <1>3, <1>4

LEMMA EmptyTyped ==
  ASSUME LedgerTypeOK, NEW r \in Recorder, Empty(r)
  PROVE  LedgerTypeOK'
<1>1. task \in [Recorder -> TaskType] /\ task[r].file \in File /\ NoEntries \in Entries
  BY RestingTyped DEF LedgerTypeOK, TaskType, Empty
<1>2. task' = [task EXCEPT ![r].at = "emptied"]
  BY DEF Empty
<1>3. task' \in [Recorder -> TaskType]
  BY <1>1, <1>2 DEF TaskType
<1>4. \A q \in Recorder : task'[q].at # "rest" => task'[q].file \in File /\ task'[q].entry \in Entry
  BY <1>1, <1>2 DEF LedgerTypeOK, TaskType, Empty
<1>5. mixed' \subseteq File /\ disk' \in [File -> Entries \cup {Cut}]
  BY <1>1 DEF LedgerTypeOK, Empty
<1> QED
  BY <1>3, <1>4, <1>5 DEF LedgerTypeOK, TaskType, Empty

LEMMA FillTyped ==
  ASSUME LedgerTypeOK, NEW r \in Recorder, Fill(r)
  PROVE  LedgerTypeOK'
<1>1. task \in [Recorder -> TaskType] /\ task[r].file \in File /\ task[r].entry \in Entry
      /\ task[r].value \in Value \cup {Nothing} /\ task[r].seen \in Entries
  BY DEF LedgerTypeOK, TaskType, Fill
<1>2. task' = [task EXCEPT ![r] = Resting]
  BY DEF Fill
<1>3. task' \in [Recorder -> TaskType]
  BY <1>1, <1>2, RestingTyped
<1>4. \A q \in Recorder : task'[q].at # "rest" => task'[q].file \in File /\ task'[q].entry \in Entry
  BY <1>1, <1>2 DEF LedgerTypeOK, Resting
<1>5. disk' \in [File -> Entries \cup {Cut}]
  BY <1>1 DEF LedgerTypeOK, Fill
<1>6. last' \in [File -> Entries]
  BY <1>1 DEF LedgerTypeOK, Fill, Entries
<1> QED
  BY <1>3, <1>4, <1>5, <1>6 DEF LedgerTypeOK, TaskType, Fill

LEMMA DieTyped ==
  ASSUME LedgerTypeOK, NEW r \in Recorder, DieRecording(r)
  PROVE  LedgerTypeOK'
<1> DEFINE dead == IF r \in Syncing THEN Syncing ELSE {r}
<1>1. task \in [Recorder -> TaskType] /\ task[r].file \in File
  BY DEF LedgerTypeOK, TaskType, DieRecording
<1>2. task' = [q \in Recorder |-> IF q \in dead THEN Resting ELSE task[q]]
  BY DEF DieRecording
<1>3. task' \in [Recorder -> TaskType]
  BY <1>1, <1>2, RestingTyped
<1>4. \A q \in Recorder : task'[q].at # "rest" => task'[q].file \in File /\ task'[q].entry \in Entry
  BY <1>1, <1>2 DEF LedgerTypeOK, Resting
<1>5. disk' \in [File -> Entries \cup {Cut}] /\ mixed' \subseteq File
  BY <1>1, RestingTyped DEF LedgerTypeOK, DieRecording
<1> QED
  BY <1>3, <1>4, <1>5 DEF LedgerTypeOK, TaskType, DieRecording

-------------------------------------------------------------------------------

\* r has the file in its hands.
Works(r, f)  == task[r].at \in {"read", "emptied"} /\ task[r].file = f
Writes(r, f) == task[r].at = "emptied" /\ task[r].file = f

\* A goroutine of a sync that is at work holds the mutex.
Locked == \A r \in Syncing : task[r].at \in {"read", "emptied"} => mutex = r

\* Who empties a file is alone with it, unless recordings met.
Alone == \A f \in File \ mixed : \A r \in Recorder :
           Writes(r, f) => disk[f] = NoEntries /\ \A q \in Recorder \ {r} : ~Works(q, f)

\* What a recorder has in its hands is what was last recorded, and its own entry.
UpToDate == \A f \in File \ mixed : \A r \in Recorder :
              Works(r, f) => task[r].seen = [last[f] EXCEPT ![task[r].entry] = task[r].value]

Kept == Locked /\ Alone /\ UpToDate /\ EntriesKept

LEMMA DueKeeps ==
  ASSUME LedgerTypeOK, Kept, UNCHANGED <<disk, mutex, last, mixed>>, NEW r \in Recorder,
         NEW f, NEW e, NEW v, Due(r, f, e, v)
  PROVE  Kept'
<1>1. \A q \in Recorder : q # r => task'[q] = task[q]
  BY DEF Due, LedgerTypeOK
<1>2. task[r].at = "rest" /\ task'[r].at = "due"
  BY DEF Due, LedgerTypeOK
<1>3. \A q \in Recorder, g \in File : (Works(q, g)' <=> Works(q, g)) /\ (Writes(q, g)' <=> Writes(q, g))
  BY <1>1, <1>2 DEF Works, Writes
<1>4. Locked'
  BY <1>1, <1>2, LedgerConstants DEF Kept, Locked
<1>5. Alone'
  BY <1>3 DEF Kept, Alone
<1>6. UpToDate'
  BY <1>1, <1>2, <1>3 DEF Kept, UpToDate, Works
<1>7. EntriesKept'
  BY <1>1, <1>2 DEF Kept, EntriesKept
<1> QED
  BY <1>4, <1>5, <1>6, <1>7 DEF Kept

LEMMA LoadKeeps ==
  ASSUME LedgerTypeOK, Kept, NEW r \in Recorder, Load(r)
  PROVE  Kept'
<1> DEFINE f == task[r].file
           t == task[r]
<1>1. f \in File /\ t.at = "due" /\ UNCHANGED <<disk, last>> /\ t.entry \in Entry
  BY DEF LedgerTypeOK, Load
<1>2. CASE disk[f] = Cut
  <2>1. task' = [task EXCEPT ![r] = Resting] /\ UNCHANGED <<mutex, mixed>>
    BY <1>2 DEF Load
  <2>2. (\A q \in Recorder : q # r => task'[q] = task[q]) /\ task'[r].at = "rest"
    BY <2>1 DEF LedgerTypeOK, Resting
  <2>3. \A q \in Recorder, g \in File : (Works(q, g)' <=> Works(q, g)) /\ (Writes(q, g)' <=> Writes(q, g))
    BY <1>1, <2>2 DEF Works, Writes
  <2>4. Locked'
    BY <2>1, <2>2, LedgerConstants DEF Kept, Locked
  <2>5. Alone'
    BY <1>1, <2>1, <2>3 DEF Kept, Alone
  <2>6. UpToDate'
    BY <1>1, <2>1, <2>2, <2>3 DEF Kept, UpToDate, Works
  <2>7. EntriesKept'
    BY <1>1, <2>1, <2>2 DEF Kept, EntriesKept
  <2> QED
    BY <2>4, <2>5, <2>6, <2>7 DEF Kept
<1>3. CASE disk[f] # Cut
  <2>1. /\ task' = [task EXCEPT ![r].at = "read", ![r].seen = [disk[f] EXCEPT ![t.entry] = t.value]]
        /\ mutex' = (IF r \in Syncing THEN r ELSE mutex)
        /\ mixed' = (IF \E q \in Others(r) : task[q].at = "emptied" THEN mixed \cup {f} ELSE mixed)
        /\ MayRead(r)
    BY <1>3 DEF Load
  <2>2. /\ \A q \in Recorder : q # r => task'[q] = task[q]
        /\ task'[r].at = "read" /\ task'[r].file = f /\ task'[r].entry = t.entry /\ task'[r].value = t.value
        /\ task'[r].seen = [disk[f] EXCEPT ![t.entry] = t.value]
    BY <2>1 DEF LedgerTypeOK
  <2>3. Locked'
    BY <2>1, <2>2, LedgerConstants DEF Kept, Locked, MayRead
  <2>4. f \notin mixed' => \A q \in Recorder : ~Writes(q, f)
    <3> SUFFICES ASSUME NEW q \in Recorder, Writes(q, f), f \notin mixed' PROVE FALSE
      OBVIOUS
    <3>1. q # r /\ ~({q, r} \subseteq Syncing)
      BY <1>1, <2>1, LedgerConstants DEF Writes, Kept, Locked, MayRead
    <3>2. q \in Others(r)
      BY <3>1 DEF Others, Writes
    <3> QED
      BY <2>1, <3>2 DEF Writes
  <2>5. mixed \subseteq mixed'
    BY <2>1
  <2>6. Alone'
    <3> SUFFICES ASSUME NEW g \in File \ mixed', NEW q \in Recorder, Writes(q, g)'
                 PROVE  disk'[g] = NoEntries /\ \A s \in Recorder \ {q} : ~Works(s, g)'
      BY DEF Alone
    <3>1. q # r /\ Writes(q, g)
      BY <2>2 DEF Writes
    <3>2. g # f
      BY <2>4, <3>1
    <3> QED
      BY <1>1, <2>2, <2>5, <3>1, <3>2 DEF Kept, Alone, Works
  <2>7. UpToDate'
    <3> SUFFICES ASSUME NEW g \in File \ mixed', NEW q \in Recorder, Works(q, g)'
                 PROVE  task'[q].seen = [last'[g] EXCEPT ![task'[q].entry] = task'[q].value]
      BY DEF UpToDate
    <3>1. CASE q = r
      <4>1. g = f /\ disk[f] = last[f]
        BY <2>2, <2>4, <2>5, <3>1 DEF Works, Writes, Kept, EntriesKept
      <4> QED
        BY <1>1, <2>2, <3>1, <4>1
    <3>2. CASE q # r
      BY <1>1, <2>2, <2>5, <3>2 DEF Works, Kept, UpToDate
    <3> QED
      BY <3>1, <3>2
  <2>8. EntriesKept'
    <3> SUFFICES ASSUME NEW g \in File, g \notin mixed',
                        ~(\E q \in Recorder : task'[q].at = "emptied" /\ task'[q].file = g)
                 PROVE  disk'[g] = last'[g]
      BY DEF EntriesKept
    <3>1. ~(\E q \in Recorder : task[q].at = "emptied" /\ task[q].file = g)
      BY <1>1, <2>2
    <3> QED
      BY <1>1, <2>5, <3>1 DEF Kept, EntriesKept
  <2> QED
    BY <2>3, <2>6, <2>7, <2>8 DEF Kept
<1> QED
  BY <1>2, <1>3

LEMMA EmptyKeeps ==
  ASSUME LedgerTypeOK, Kept, NEW r \in Recorder, Empty(r)
  PROVE  Kept'
<1> DEFINE f == task[r].file
<1>1. /\ f \in File /\ task[r].at = "read" /\ UNCHANGED <<mutex, last>>
      /\ task' = [task EXCEPT ![r].at = "emptied"] /\ disk' = [disk EXCEPT ![f] = NoEntries]
      /\ mixed' = (IF Others(r) = {} THEN mixed ELSE mixed \cup {f})
  BY DEF LedgerTypeOK, Empty
<1>2. /\ \A q \in Recorder : q # r => task'[q] = task[q]
      /\ task'[r].at = "emptied" /\ task'[r].file = f /\ task'[r].entry = task[r].entry
      /\ task'[r].value = task[r].value /\ task'[r].seen = task[r].seen
  BY <1>1 DEF LedgerTypeOK
<1>3. disk'[f] = NoEntries /\ (\A g \in File : g # f => disk'[g] = disk[g]) /\ mixed \subseteq mixed'
  BY <1>1 DEF LedgerTypeOK
<1>4. \A q \in Recorder, g \in File : Works(q, g)' <=> Works(q, g)
  BY <1>1, <1>2 DEF Works
<1>5. Locked'
  BY <1>1, <1>2, LedgerConstants DEF Kept, Locked
<1>6. f \notin mixed' => \A q \in Recorder \ {r} : ~Works(q, f)
  <2> SUFFICES ASSUME NEW q \in Recorder \ {r}, Works(q, f), Others(r) = {} PROVE FALSE
    BY <1>1
  <2>1. {q, r} \subseteq Syncing
    BY DEF Others, Works
  <2> QED
    BY <1>1, <2>1 DEF Works, Kept, Locked
<1>7. Alone'
  <2> SUFFICES ASSUME NEW g \in File \ mixed', NEW q \in Recorder, Writes(q, g)'
               PROVE  disk'[g] = NoEntries /\ \A s \in Recorder \ {q} : ~Works(s, g)'
    BY DEF Alone
  <2>1. CASE q = r
    BY <1>2, <1>3, <1>4, <1>6, <2>1 DEF Writes
  <2>2. CASE q # r
    <3>1. Writes(q, g) /\ Works(q, g)
      BY <1>2, <2>2 DEF Writes, Works
    <3>2. g # f
      BY <1>6, <2>2, <3>1
    <3> QED
      BY <1>3, <1>4, <3>1, <3>2 DEF Kept, Alone
  <2> QED
    BY <2>1, <2>2
<1>8. UpToDate'
  BY <1>1, <1>2, <1>3, <1>4 DEF Kept, UpToDate
<1>9. EntriesKept'
  BY <1>1, <1>2, <1>3 DEF Kept, EntriesKept
<1> QED
  BY <1>5, <1>7, <1>8, <1>9 DEF Kept

LEMMA FillKeeps ==
  ASSUME LedgerTypeOK, Kept, NEW r \in Recorder, Fill(r)
  PROVE  Kept'
<1> DEFINE f == task[r].file
           t == task[r]
<1>1. /\ f \in File /\ t.at = "emptied" /\ UNCHANGED mixed /\ t.entry \in Entry
      /\ task' = [task EXCEPT ![r] = Resting]
      /\ mutex' = (IF mutex = r THEN Nothing ELSE mutex)
      /\ last' = [last EXCEPT ![f][t.entry] = t.value]
  BY DEF LedgerTypeOK, Fill
<1>2. (\A q \in Recorder : q # r => task'[q] = task[q]) /\ task'[r].at = "rest"
  BY <1>1 DEF LedgerTypeOK, Resting
<1>3. PICK content \in {t.seen} \cup (IF disk[f] = NoEntries THEN {} ELSE {Cut}) :
        disk' = [disk EXCEPT ![f] = content]
  BY DEF Fill
<1>4. disk'[f] = content /\ \A g \in File : g # f => disk'[g] = disk[g] /\ last'[g] = last[g]
  BY <1>1, <1>3 DEF LedgerTypeOK
<1>5. f \notin mixed => /\ disk'[f] = last'[f]
                        /\ \A q \in Recorder \ {r} : ~Works(q, f)
  <2> SUFFICES ASSUME f \notin mixed PROVE disk'[f] = last'[f] /\ \A q \in Recorder \ {r} : ~Works(q, f)
    OBVIOUS
  <2>1. Writes(r, f) /\ Works(r, f)
    BY <1>1 DEF Writes, Works
  <2>2. disk[f] = NoEntries /\ \A q \in Recorder \ {r} : ~Works(q, f)
    BY <1>1, <2>1 DEF Kept, Alone
  <2>3. t.seen = [last[f] EXCEPT ![t.entry] = t.value]
    BY <1>1, <2>1 DEF Kept, UpToDate
  <2>4. disk'[f] = t.seen
    BY <1>3, <1>4, <2>2
  <2>5. last'[f] = [last[f] EXCEPT ![t.entry] = t.value]
    BY <1>1 DEF LedgerTypeOK
  <2> QED
    BY <2>2, <2>3, <2>4, <2>5
<1>6. \A q \in Recorder, g \in File : q # r => (Works(q, g)' <=> Works(q, g)) /\ (Writes(q, g)' <=> Writes(q, g))
  BY <1>2 DEF Works, Writes
<1>7. \A g \in File : ~Works(r, g)' /\ ~Writes(r, g)'
  BY <1>2 DEF Works, Writes
<1>8. Locked'
  BY <1>1, <1>2, LedgerConstants DEF Kept, Locked
<1>9. Alone'
  <2> SUFFICES ASSUME NEW g \in File \ mixed', NEW q \in Recorder, Writes(q, g)'
               PROVE  disk'[g] = NoEntries /\ \A s \in Recorder \ {q} : ~Works(s, g)'
    BY DEF Alone
  <2>1. q # r /\ Writes(q, g) /\ Works(q, g)
    BY <1>6, <1>7 DEF Works, Writes
  <2>2. g # f
    BY <1>1, <1>5, <2>1
  <2> QED
    BY <1>1, <1>4, <1>6, <1>7, <2>1, <2>2 DEF Kept, Alone
<1>10. UpToDate'
  <2> SUFFICES ASSUME NEW g \in File \ mixed', NEW q \in Recorder, Works(q, g)'
               PROVE  task'[q].seen = [last'[g] EXCEPT ![task'[q].entry] = task'[q].value]
    BY DEF UpToDate
  <2>1. q # r /\ Works(q, g)
    BY <1>6, <1>7
  <2>2. g # f
    BY <1>1, <1>5, <2>1
  <2> QED
    BY <1>1, <1>2, <1>4, <2>1, <2>2 DEF Kept, UpToDate
<1>11. EntriesKept'
  <2> SUFFICES ASSUME NEW g \in File, g \notin mixed',
                      ~(\E q \in Recorder : task'[q].at = "emptied" /\ task'[q].file = g)
               PROVE  disk'[g] = last'[g]
    BY DEF EntriesKept
  <2>1. CASE g = f
    BY <1>1, <1>5, <2>1
  <2>2. CASE g # f
    <3>1. ~(\E q \in Recorder : task[q].at = "emptied" /\ task[q].file = g)
      BY <1>2, <2>2
    <3> QED
      BY <1>1, <1>4, <2>2, <3>1 DEF Kept, EntriesKept
  <2> QED
    BY <2>1, <2>2
<1> QED
  BY <1>8, <1>9, <1>10, <1>11 DEF Kept

LEMMA DieKeeps ==
  ASSUME LedgerTypeOK, Kept, NEW r \in Recorder, DieRecording(r)
  PROVE  Kept'
<1> DEFINE f    == task[r].file
           dead == IF r \in Syncing THEN Syncing ELSE {r}
<1>1. /\ f \in File /\ UNCHANGED last
      /\ task' = [q \in Recorder |-> IF q \in dead THEN Resting ELSE task[q]]
      /\ mutex' = (IF mutex \in dead THEN Nothing ELSE mutex)
  BY DEF LedgerTypeOK, DieRecording
<1>2. (\A q \in Recorder : q \notin dead => task'[q] = task[q]) /\ (\A q \in Recorder : q \in dead => task'[q].at = "rest")
  BY <1>1 DEF Resting
<1>3. /\ mixed \subseteq mixed'
      /\ \A g \in File : g \notin mixed' => disk'[g] = disk[g]
  BY <1>1 DEF DieRecording, LedgerTypeOK
<1>4. \A q \in Recorder, g \in File : Works(q, g)' => q \notin dead /\ Works(q, g)
  BY <1>2 DEF Works
<1>5. \A q \in Recorder, g \in File : Writes(q, g)' => q \notin dead /\ Writes(q, g)
  BY <1>2 DEF Writes
<1>6. Locked'
  BY <1>1, <1>2, LedgerConstants DEF Kept, Locked
<1>7. Alone'
  BY <1>3, <1>4, <1>5 DEF Kept, Alone
<1>8. UpToDate'
  BY <1>1, <1>2, <1>3, <1>4 DEF Kept, UpToDate
<1>9. EntriesKept'
  <2> SUFFICES ASSUME NEW g \in File, g \notin mixed',
                      ~(\E q \in Recorder : task'[q].at = "emptied" /\ task'[q].file = g)
               PROVE  disk'[g] = last'[g]
    BY DEF EntriesKept
  <2>1. ASSUME NEW q \in Recorder, task[q].at = "emptied", task[q].file = g PROVE FALSE
    <3>1. q \in dead
      BY <1>2, <2>1
    <3>2. task[r].at = "emptied" /\ mixed' = mixed \cup {f}
      BY <2>1, <3>1 DEF DieRecording
    <3>3. q # r => {q, r} \subseteq Syncing
      BY <3>1
    <3>4. q = r
      BY <2>1, <3>2, <3>3 DEF Kept, Locked
    <3> QED
      BY <2>1, <3>2, <3>4
  <2> QED
    BY <1>1, <1>3, <2>1 DEF Kept, EntriesKept
<1> QED
  BY <1>6, <1>7, <1>8, <1>9 DEF Kept

-------------------------------------------------------------------------------

\* What a command gives the ledger to record, of any database, node or service.
Recording == \E r \in Recorder, f \in File, e \in Entry, v \in Value \cup {Nothing} : Due(r, f, e, v)

LEMMA NumbersAreValues ==
  ASSUME DatabasesTypeOK
  PROVE  /\ Give => \A k \in {"password", "version", "node"} : <<k, given + 1>> \in Value
         /\ <<"version", 0>> \in Value /\ Image \in Value
         /\ \A d \in Database : <<"container", d>> \in Value /\ d \in Entry /\ Kind[d] \in Entry
<1>1. Give => given + 1 \in 0 .. Commands
  BY DatabaseConstants DEF DatabasesTypeOK, Give
<1>2. 0 \in 0 .. Commands
  BY DatabaseConstants
<1> QED
  BY <1>1, <1>2, DatabaseConstants DEF Kinds

\* The four kinds of steps, as the ledger sees them.
LEMMA CommandGives ==
  ASSUME DatabasesTypeOK, DatabasesNext
  PROVE  \/ \E r \in Recorder : (Load(r) \/ Empty(r) \/ Fill(r)) /\ UNCHANGED dbVars
         \/ (Recording \/ UNCHANGED task) /\ UNCHANGED <<disk, mutex, last, mixed>>
         \/ \E r \in Recorder : DieCommand(r)
<1>1. ASSUME NEW r \in Recorder, NEW d \in Database, CreateDatabase(r, d) PROVE Recording \/ UNCHANGED task
  <2>1. Give /\ (Due(r, "state", d, <<"password", given + 1>>) \/ UNCHANGED task)
    BY <1>1 DEF CreateDatabase
  <2> QED
    BY <2>1, NumbersAreValues DEF Recording, File
<1>2. ASSUME NEW r \in Recorder, NEW d \in Database, RotatePassword(r, d) PROVE Recording \/ UNCHANGED task
  <2>1. Give /\ (Due(r, "state", d, <<"password", given + 1>>) \/ UNCHANGED task)
    BY <1>2 DEF RotatePassword
  <2> QED
    BY <2>1, NumbersAreValues DEF Recording, File
<1>3. ASSUME NEW r \in Recorder, NEW d \in Database, ScheduleBackup(r, d) PROVE Recording
  BY <1>3, NumbersAreValues DEF ScheduleBackup, Recording, File
<1>4. ASSUME NEW r \in Recorder, NEW e \in Entry, SyncEntry(r, e) PROVE Recording
  BY <1>4, NumbersAreValues DEF SyncEntry, Recording, File
<1>5. ASSUME NEW r \in Recorder, NEW s \in Service, RecordService(r, s) \/ AdoptService(r, s) PROVE Recording
  <2>1. Give /\ (Due(r, "state", s, <<"version", given + 1>>) \/ Due(r, "state", s, <<"version", 0>>))
    BY <1>5 DEF RecordService, AdoptService, Record
  <2> QED
    BY <2>1, NumbersAreValues, DatabaseConstants DEF Recording, File
<1>6. ASSUME NEW r \in Recorder, NEW n \in Machine, AddNode(r, n) \/ RemoveNode(r, n) PROVE Recording
  <2>1. Give /\ (Due(r, "config", n, <<"node", given + 1>>) \/ Due(r, "config", n, Nothing))
    BY <1>6 DEF AddNode, RemoveNode, Record
  <2> QED
    BY <2>1, NumbersAreValues, DatabaseConstants DEF Recording, File
<1>7. ASSUME (\E d \in Database : RemoveDatabase(d)) \/ (\E k \in Kinds : UnscheduleBackup(k)) PROVE UNCHANGED task
  BY <1>7 DEF RemoveDatabase, UnscheduleBackup
<1> QED
  BY <1>1, <1>2, <1>3, <1>4, <1>5, <1>6, <1>7 DEF DatabasesNext, LedgerStep

\* What is on the node keeps its type.
LEMMA NodeTyped ==
  ASSUME DatabasesTypeOK, DatabasesNext
  PROVE  /\ password' \in [Database -> -Commands .. Commands] /\ timer' \in [Kinds -> Database \cup {Nothing}]
         /\ given' \in 0 .. Commands /\ loose' \subseteq Entry
<1> USE DEF DatabasesTypeOK
<1>1. Give => given + 1 \in 0 .. Commands /\ -(given + 1) \in -Commands .. Commands /\ given' = given + 1
  BY DatabaseConstants DEF Give
<1>2. 0 \in 0 .. Commands /\ 0 .. Commands \subseteq -Commands .. Commands /\ \A d \in Database : d \in Entry /\ Kind[d] \in Entry /\ Kind[d] \in Kinds
  BY DatabaseConstants DEF Kinds
<1>3. \A r, e : Settle(r, e) /\ e \in Entry => loose' \subseteq Entry
  BY DEF Settle
<1>4. ASSUME NEW r \in Recorder, NEW d \in Database, CreateDatabase(r, d)
      PROVE  password' \in [Database -> -Commands .. Commands] /\ UNCHANGED timer /\ Give /\ loose' \subseteq Entry
  <2>1. PICK p \in Provisioned(d) : /\ password' = [password EXCEPT ![d] = p]
                                    /\ Settle(r, d) \/ loose' = loose \cup {d}
    BY <1>4 DEF CreateDatabase
  <2>2. p \in -Commands .. Commands /\ Give /\ UNCHANGED timer
    BY <1>1, <1>2, <1>4, <2>1 DEF CreateDatabase, Provisioned
  <2> QED
    BY <1>2, <1>3, <2>1, <2>2
<1>5. ASSUME NEW r \in Recorder, NEW d \in Database, RotatePassword(r, d)
      PROVE  password' \in [Database -> -Commands .. Commands] /\ UNCHANGED timer /\ Give /\ loose' \subseteq Entry
  <2>1. /\ password' = password \/ password' = [password EXCEPT ![d] = Told(d)]
        /\ Settle(r, d) \/ loose' = loose \cup {d} \/ UNCHANGED loose
        /\ Give /\ UNCHANGED timer
    BY <1>5 DEF RotatePassword
  <2>2. Told(d) \in -Commands .. Commands
    BY <1>1, <1>2, <2>1 DEF Told
  <2> QED
    BY <1>2, <1>3, <2>1, <2>2
<1>6. ASSUME NEW r \in Recorder, NEW d \in Database, ScheduleBackup(r, d)
      PROVE  timer' \in [Kinds -> Database \cup {Nothing}] /\ UNCHANGED password /\ Give /\ loose' \subseteq Entry
  BY <1>2, <1>3, <1>6 DEF ScheduleBackup
<1>7. ASSUME \/ \E r \in Recorder, e \in Entry : SyncEntry(r, e)
             \/ \E r \in Recorder, s \in Service : RecordService(r, s) \/ AdoptService(r, s)
             \/ \E r \in Recorder, n \in Machine : AddNode(r, n) \/ RemoveNode(r, n)
      PROVE  Give /\ UNCHANGED <<password, timer, loose>>
  BY <1>7 DEF SyncEntry, RecordService, AdoptService, AddNode, RemoveNode, Record
<1>8. ASSUME NEW d \in Database, RemoveDatabase(d)
      PROVE  password' \in [Database -> -Commands .. Commands] /\ Give /\ UNCHANGED <<timer, loose>>
  BY <1>2, <1>8 DEF RemoveDatabase
<1>9. ASSUME NEW k \in Kinds, UnscheduleBackup(k)
      PROVE  timer' \in [Kinds -> Database \cup {Nothing}] /\ Give /\ UNCHANGED <<password, loose>>
  BY <1>9 DEF UnscheduleBackup
<1>10. ASSUME NEW r \in Recorder, DieCommand(r)
       PROVE  UNCHANGED <<password, timer, given>> /\ loose' \subseteq Entry
  BY <1>10 DEF DieCommand, DieRecording, LedgerTypeOK
<1>11. ASSUME LedgerStep, UNCHANGED dbVars PROVE UNCHANGED <<password, timer, given, loose>>
  BY <1>11 DEF dbVars
<1> QED
  BY <1>1, <1>4, <1>5, <1>6, <1>7, <1>8, <1>9, <1>10, <1>11 DEF DatabasesNext

LEMMA LedgerKeeps ==
  ASSUME DatabasesTypeOK, Kept, [DatabasesNext]_<<ledgerVars, dbVars>>
  PROVE  DatabasesTypeOK' /\ Kept'
<1>1. ASSUME NEW r \in Recorder, Load(r) \/ Empty(r) \/ Fill(r) \/ DieRecording(r) PROVE LedgerTypeOK' /\ Kept'
  BY <1>1, LoadTyped, EmptyTyped, FillTyped, DieTyped, LoadKeeps, EmptyKeeps, FillKeeps, DieKeeps
     DEF DatabasesTypeOK
<1>2. ASSUME Recording, UNCHANGED <<disk, mutex, last, mixed>> PROVE LedgerTypeOK' /\ Kept'
  BY <1>2, DueTyped, DueKeeps DEF Recording, DatabasesTypeOK
<1>3. ASSUME UNCHANGED ledgerVars PROVE LedgerTypeOK' /\ Kept'
  <2>1. UNCHANGED <<disk, task, mutex, last, mixed>> /\ LedgerTypeOK
    BY <1>3 DEF ledgerVars, DatabasesTypeOK
  <2>2. LedgerTypeOK'
    BY <2>1 DEF LedgerTypeOK
  <2>3. Kept'
    BY <2>1 DEF Kept, Locked, Alone, UpToDate, EntriesKept, Works, Writes
  <2> QED
    BY <2>2, <2>3
<1>4. CASE DatabasesNext
  <2>1. LedgerTypeOK' /\ Kept'
    BY <1>1, <1>2, <1>3, <1>4, CommandGives DEF DieCommand, ledgerVars
  <2> QED
    BY <1>4, <2>1, NodeTyped DEF DatabasesTypeOK
<1>5. CASE UNCHANGED <<ledgerVars, dbVars>>
  BY <1>3, <1>5 DEF dbVars, DatabasesTypeOK
<1> QED
  BY <1>4, <1>5

LEMMA LedgerStarts == DatabasesInit => DatabasesTypeOK /\ Kept
<1> SUFFICES ASSUME DatabasesInit PROVE DatabasesTypeOK /\ Kept
  OBVIOUS
<1>1. /\ disk = [f \in File |-> NoEntries] /\ last = disk /\ task = [r \in Recorder |-> Resting]
      /\ mutex = Nothing /\ mixed = {} /\ given = 0 /\ loose = {}
      /\ password = [d \in Database |-> 0] /\ timer = [k \in Kinds |-> Nothing]
  BY DEF DatabasesInit, LedgerInit
<1>2. LedgerTypeOK
  <2>1. task \in [Recorder -> TaskType] /\ disk \in [File -> Entries] /\ \A r \in Recorder : task[r].at = "rest"
    BY <1>1, RestingTyped DEF Resting
  <2> QED
    BY <1>1, <2>1 DEF LedgerTypeOK, TaskType
<1>3. DatabasesTypeOK
  <2>1. 0 \in 0 .. Commands /\ 0 \in -Commands .. Commands
    BY DatabaseConstants
  <2> QED
    BY <1>1, <1>2, <2>1 DEF DatabasesTypeOK
<1>4. Kept
  <2>1. \A r \in Recorder : task[r].at = "rest"
    BY <1>1 DEF Resting
  <2>2. Locked /\ Alone /\ UpToDate
    BY <2>1, LedgerConstants DEF Locked, Alone, UpToDate, Works, Writes
  <2>3. EntriesKept
    BY <1>1 DEF EntriesKept
  <2> QED
    BY <2>2, <2>3 DEF Kept
<1> QED
  BY <1>3, <1>4

LEMMA LedgerAlways == DatabasesSpec => [](DatabasesTypeOK /\ Kept)
<1>1. DatabasesTypeOK /\ Kept /\ [DatabasesNext]_<<ledgerVars, dbVars>> => (DatabasesTypeOK /\ Kept)'
  BY LedgerKeeps
<1> QED
  BY <1>1, LedgerStarts, PTL DEF DatabasesSpec

\* The types of the ledger and of the databases, for any commands.
THEOREM LedgerTypes == DatabasesSpec => []DatabasesTypeOK
  BY LedgerAlways, PTL

\* EntriesKept for any number of recorders, of them goroutines of a sync, and entries:
\* load, change and save of state.yaml and config.yaml lose no other entry, unless two
\* that no mutex keeps apart meet, or one is cut short (stateRecord, saveConfig).
THEOREM LedgerKeepsEntries == DatabasesSpec => []EntriesKept
<1>1. Kept => EntriesKept
  BY DEF Kept
<1> QED
  BY <1>1, LedgerAlways, PTL

-------------------------------------------------------------------------------
(* The ledger and the node                                                   *)

\* The entries LedgerTrue is about, and who has one to record.
Checked       == Kinds \cup Database
Pending(r, e) == task[r].at # "rest" /\ task[r].entry = e
Commanding    == Recorder \ Syncing

AllInState == \A e \in Checked, r \in Recorder : Pending(r, e) => task[r].file = "state"

\* A sync notes images, and of databases alone.
SyncNotes == \A e \in Checked, r \in Syncing : Pending(r, e) => task[r].value = Image

\* A command notes what is on the node, and no other is about to note something else.
CommandNotes ==
  \A e \in Checked \ loose, r \in Commanding : Pending(r, e) =>
    /\ OnNode(e) \in {Nothing, task[r].value}
    /\ \A q \in Commanding \ {r} : ~Pending(q, e)

\* What was last recorded is on the node, or an image, or is about to be recorded anew.
LastTrue ==
  "state" \notin mixed => \A e \in Checked \ loose :
    \/ \E r \in Commanding : Pending(r, e)
    \/ last["state"][e] \in {Nothing, Image}
    \/ OnNode(e) \in {Nothing, last["state"][e]}

Noted == AllInState /\ SyncNotes /\ CommandNotes /\ LastTrue

LEMMA CheckedEntries ==
  /\ Checked \subseteq Entry /\ Checked \cap (Machine \cup Service) = {} /\ Syncing \subseteq Recorder
  /\ Kinds \cap Database = {}
  BY DatabaseConstants, LedgerConstants DEF Checked

\* A command has changed one entry's part of the node, and is to record it.
LEMMA CommandNoted ==
  ASSUME LedgerTypeOK, Noted, UNCHANGED <<disk, mutex, last, mixed>>,
         NEW r \in Commanding, NEW e0 \in Entry, NEW v, Due(r, "state", e0, v),
         \/ Settle(r, e0) /\ (e0 \in Checked => OnNode(e0)' \in {Nothing, v})
         \/ loose' = loose \cup {e0},
         \A e \in Checked \ {e0} : OnNode(e)' = OnNode(e)
  PROVE  Noted'
<1>1. /\ \A q \in Recorder \ {r} : task'[q] = task[q]
      /\ task[r].at = "rest" /\ task'[r].at = "due" /\ task'[r].file = "state"
      /\ task'[r].entry = e0 /\ task'[r].value = v
  BY DEF Commanding, Due, LedgerTypeOK
<1>2. \A q \in Recorder, e \in Checked : q # r => (Pending(q, e)' <=> Pending(q, e))
  BY <1>1 DEF Pending
<1>3. \A e \in Checked : (Pending(r, e)' <=> e = e0) /\ ~Pending(r, e)
  BY <1>1 DEF Pending
<1>4. \A e \in Checked \ {e0} : e \in loose' <=> e \in loose
  BY DEF Settle
<1>5. AllInState'
  BY <1>1, <1>2 DEF Noted, AllInState
<1>6. SyncNotes'
  BY <1>1, <1>2, LedgerConstants DEF Noted, SyncNotes, Commanding
<1>7. CommandNotes'
  <2> SUFFICES ASSUME NEW e \in Checked, e \notin loose', NEW q \in Commanding, Pending(q, e)'
               PROVE  /\ OnNode(e)' \in {Nothing, task'[q].value}
                      /\ \A s \in Commanding \ {q} : ~Pending(s, e)'
    BY DEF CommandNotes
  <2>1. CASE e = e0
    <3>1. ~Meets(r, e0)
      BY <2>1 DEF Settle
    <3>2. \A s \in Commanding \ {r} : ~Pending(s, e)
      BY <2>1, <3>1 DEF Meets, Pending, Commanding
    <3>3. q = r
      BY <1>2, <3>2 DEF Commanding
    <3> QED
      BY <1>1, <1>2, <2>1, <3>2, <3>3 DEF Commanding
  <2>2. CASE e # e0
    BY <1>1, <1>2, <1>3, <1>4, <2>2 DEF Noted, CommandNotes, Commanding
  <2> QED
    BY <2>1, <2>2
<1>8. LastTrue'
  <2> SUFFICES ASSUME "state" \notin mixed, NEW e \in Checked, e \notin loose'
               PROVE  \/ \E q \in Commanding : Pending(q, e)'
                      \/ last["state"][e] \in {Nothing, Image}
                      \/ OnNode(e)' \in {Nothing, last["state"][e]}
    BY DEF LastTrue
  <2>1. CASE e = e0
    BY <1>3, <2>1
  <2>2. CASE e # e0
    BY <1>2, <1>4, <2>2, <1>3 DEF Noted, LastTrue, Commanding
  <2> QED
    BY <2>1, <2>2
<1> QED
  BY <1>5, <1>6, <1>7, <1>8 DEF Noted

\* A command has changed the node and will not record it; with nothing left there, or
\* with the entry marked.
LEMMA NodeChanges ==
  ASSUME LedgerTypeOK, Noted, UNCHANGED <<disk, mutex, last, mixed, task>>, loose \subseteq loose',
         \A e \in Checked \ loose' : OnNode(e)' \in {Nothing, OnNode(e)}
  PROVE  Noted'
<1>1. \A q, e : Pending(q, e)' <=> Pending(q, e)
  BY DEF Pending
<1>2. AllInState' /\ SyncNotes'
  BY <1>1 DEF Noted, AllInState, SyncNotes
<1>3. CommandNotes'
  BY <1>1 DEF Noted, CommandNotes
<1>4. LastTrue'
  BY <1>1 DEF Noted, LastTrue
<1> QED
  BY <1>2, <1>3, <1>4 DEF Noted

\* Other things to record: of nodes and services, and what a sync finds.
LEMMA OthersNoted ==
  ASSUME LedgerTypeOK, Noted, UNCHANGED <<disk, mutex, last, mixed, password, timer, loose>>,
         NEW r \in Recorder, NEW f, NEW e0, NEW v, Due(r, f, e0, v),
         e0 \notin Checked \/ (r \in Syncing /\ f = "state" /\ v = Image)
  PROVE  Noted'
<1>1. /\ \A q \in Recorder \ {r} : task'[q] = task[q]
      /\ task[r].at = "rest" /\ task'[r].at = "due" /\ task'[r].file = f
      /\ task'[r].entry = e0 /\ task'[r].value = v
  BY DEF Due, LedgerTypeOK
<1>2. \A q \in Recorder, e \in Checked : q # r => (Pending(q, e)' <=> Pending(q, e))
  BY <1>1 DEF Pending
<1>3. \A e \in Checked : (Pending(r, e)' <=> e = e0) /\ ~Pending(r, e)
  BY <1>1 DEF Pending
<1>4. \A e : OnNode(e)' = OnNode(e)
  BY DEF OnNode
<1>5. AllInState'
  BY <1>1, <1>2, <1>3 DEF Noted, AllInState
<1>6. SyncNotes'
  BY <1>1, <1>2, <1>3, LedgerConstants DEF Noted, SyncNotes
<1>7. \A q \in Commanding, e \in Checked : Pending(q, e)' <=> Pending(q, e)
  BY <1>2, <1>3 DEF Commanding
<1>8. CommandNotes'
  BY <1>1, <1>3, <1>4, <1>7 DEF Noted, CommandNotes, Commanding
<1>9. LastTrue'
  BY <1>4, <1>7 DEF Noted, LastTrue
<1> QED
  BY <1>5, <1>6, <1>8, <1>9 DEF Noted

\* A file that does not parse is one where recordings met.
LEMMA CutIsMixed ==
  ASSUME LedgerTypeOK, Kept, NEW f \in File, disk[f] = Cut
  PROVE  f \in mixed
<1>1. Cut \notin Entries /\ NoEntries \in Entries /\ last[f] \in Entries
  BY LedgerConstants, RestingTyped DEF LedgerTypeOK, Entries
<1> QED
  BY <1>1 DEF Kept, EntriesKept, Alone, Writes

\* The steps of a recording: one that is written is what the node has.
LEMMA RecordingNoted ==
  ASSUME LedgerTypeOK, Kept, Noted, NEW r \in Recorder, Load(r) \/ Empty(r) \/ Fill(r), UNCHANGED dbVars
  PROVE  Noted'
<1> DEFINE f == task[r].file
           t == task[r]
<1>1. /\ f \in File /\ t.at # "rest" /\ mixed \subseteq mixed' /\ t.entry \in Entry
      /\ UNCHANGED <<password, timer, loose>> /\ \A q \in Recorder \ {r} : task'[q] = task[q]
  BY DEF LedgerTypeOK, Load, Empty, Fill, dbVars
<1>2. \A e : OnNode(e)' = OnNode(e)
  BY <1>1 DEF OnNode
<1>3. /\ t.at = "emptied" \/ UNCHANGED last
      /\ \/ task'[r].at # "rest" /\ task'[r].entry = t.entry /\ task'[r].value = t.value /\ task'[r].file = f
            /\ UNCHANGED last
         \/ task'[r].at = "rest" /\ f \in mixed /\ UNCHANGED last
         \/ task'[r].at = "rest" /\ last' = [last EXCEPT ![f][t.entry] = t.value]
  <2>1. CASE Load(r)
    <3>1. CASE disk[f] = Cut
      BY <1>1, <2>1, <3>1, CutIsMixed DEF Load, LedgerTypeOK, Resting
    <3>2. CASE disk[f] # Cut
      BY <2>1, <3>2 DEF Load, LedgerTypeOK
    <3> QED
      BY <3>1, <3>2
  <2>2. CASE Empty(r)
    BY <2>2 DEF Empty, LedgerTypeOK
  <2>3. CASE Fill(r)
    BY <2>3 DEF Fill, LedgerTypeOK, Resting
  <2> QED
    BY <2>1, <2>2, <2>3
<1>4. \A q \in Recorder, e \in Checked : Pending(q, e)' => Pending(q, e) /\ task'[q].value = task[q].value
                                                         /\ task'[q].file = task[q].file
  BY <1>1, <1>3 DEF Pending
<1>5. AllInState' /\ SyncNotes'
  BY <1>4, LedgerConstants DEF Noted, AllInState, SyncNotes
<1>6. CommandNotes'
  BY <1>1, <1>2, <1>4 DEF Noted, CommandNotes, Commanding
<1>7. LastTrue'
  <2> SUFFICES ASSUME "state" \notin mixed', NEW e \in Checked, e \notin loose
               PROVE  \/ \E q \in Commanding : Pending(q, e)'
                      \/ last'["state"][e] \in {Nothing, Image}
                      \/ OnNode(e) \in {Nothing, last'["state"][e]}
    BY <1>1, <1>2 DEF LastTrue
  <2>1. "state" \notin mixed
    BY <1>1
  <2>2. CASE UNCHANGED last /\ (f \in mixed \/ (task'[r].at # "rest" /\ task'[r].entry = t.entry))
    <3>1. \A q \in Commanding : Pending(q, e) => Pending(q, e)'
      BY <1>1, <2>1, <2>2 DEF Noted, AllInState, Pending, Commanding
    <3> QED
      BY <2>1, <2>2, <3>1 DEF Noted, LastTrue
  <2>3. CASE task'[r].at = "rest" /\ last' = [last EXCEPT ![f][t.entry] = t.value]
    <3>1. CASE Pending(r, e)
      <4>1. f = "state" /\ last'["state"][e] = t.value
        <5>1. f = "state" /\ t.entry = e
          BY <3>1 DEF Noted, AllInState, Pending
        <5>2. last \in [File -> [Entry -> Value \cup {Nothing}]] /\ e \in Entry
          BY CheckedEntries DEF LedgerTypeOK, Entries
        <5> QED
          BY <1>1, <2>3, <5>1, <5>2
      <4>2. CASE r \in Syncing
        BY <3>1, <4>1, <4>2 DEF Noted, SyncNotes
      <4>3. CASE r \notin Syncing
        BY <3>1, <4>1, <4>3 DEF Noted, CommandNotes, Commanding
      <4> QED
        BY <4>2, <4>3
    <3>2. CASE ~Pending(r, e)
      <4>1. t.entry # e
        BY <1>1, <3>2 DEF Pending
      <4>2. last'["state"][e] = last["state"][e]
        <5>1. last \in [File -> [Entry -> Value \cup {Nothing}]] /\ e \in Entry /\ "state" \in File
          BY CheckedEntries DEF LedgerTypeOK, Entries, File
        <5> QED
          BY <1>1, <2>3, <4>1, <5>1
      <4>3. \A q \in Commanding : Pending(q, e) => Pending(q, e)'
        BY <1>1, <3>2 DEF Pending, Commanding
      <4> QED
        BY <2>1, <4>2, <4>3 DEF Noted, LastTrue
    <3> QED
      BY <3>1, <3>2
  <2> HIDE DEF f, t
  <2> QED
    BY <1>3, <2>2, <2>3
<1> QED
  BY <1>5, <1>6, <1>7 DEF Noted

LEMMA DyingNoted ==
  ASSUME LedgerTypeOK, Noted, NEW r \in Recorder, DieCommand(r)
  PROVE  Noted'
<1> DEFINE dead == IF r \in Syncing THEN Syncing ELSE {r}
<1>1. /\ task' = [q \in Recorder |-> IF q \in dead THEN Resting ELSE task[q]]
      /\ UNCHANGED <<password, timer, last>> /\ loose \subseteq loose' /\ mixed \subseteq mixed'
      /\ r \notin Syncing => task[r].entry \in loose'
  BY DEF DieCommand, DieRecording
<1>2. \A q \in Recorder : IF q \in dead THEN task'[q].at = "rest" ELSE task'[q] = task[q]
  BY <1>1 DEF Resting
<1>3. \A e : OnNode(e)' = OnNode(e)
  BY <1>1 DEF OnNode
<1>4. \A q \in Recorder, e \in Checked : Pending(q, e)' => Pending(q, e) /\ task'[q] = task[q]
  BY <1>2 DEF Pending
<1>5. AllInState' /\ SyncNotes'
  BY <1>4, LedgerConstants DEF Noted, AllInState, SyncNotes
<1>6. CommandNotes'
  BY <1>1, <1>3, <1>4 DEF Noted, CommandNotes, Commanding
<1>7. LastTrue'
  <2>1. \A q \in Commanding, e \in Checked \ loose' : Pending(q, e) => Pending(q, e)'
    BY <1>1, <1>2 DEF Pending, Commanding
  <2> SUFFICES ASSUME "state" \notin mixed', NEW e \in Checked \ loose'
               PROVE  \/ \E q \in Commanding : Pending(q, e)'
                      \/ last["state"][e] \in {Nothing, Image}
                      \/ OnNode(e) \in {Nothing, last["state"][e]}
    BY <1>1, <1>3 DEF LastTrue, Commanding
  <2> QED
    BY <1>1, <2>1 DEF Noted, LastTrue
<1> QED
  BY <1>5, <1>6, <1>7 DEF Noted

\* What a command makes of what is on the node.
LEMMA PasswordOnNode ==
  ASSUME DatabasesTypeOK, NEW d \in Database, NEW p \in Int,
         password' = [password EXCEPT ![d] = p], UNCHANGED timer
  PROVE  /\ OnNode(d)' = IF p = 0 THEN Nothing ELSE <<"password", p>>
         /\ \A e \in Checked \ {d} : OnNode(e)' = OnNode(e)
  BY DEF OnNode, DatabasesTypeOK, Checked

LEMMA TimerOnNode ==
  ASSUME DatabasesTypeOK, NEW k \in Kinds, NEW d, timer' = [timer EXCEPT ![k] = d], UNCHANGED password
  PROVE  /\ OnNode(k)' = IF d = Nothing THEN Nothing ELSE <<"container", d>>
         /\ \A e \in Checked \ {k} : OnNode(e)' = OnNode(e)
<1>1. k \notin Database
  BY DatabaseConstants
<1> QED
  BY <1>1 DEF OnNode, DatabasesTypeOK, Checked

LEMMA CommandsNoted ==
  ASSUME DatabasesTypeOK, Noted, DatabasesNext,
         ~(\E r \in Recorder : (Load(r) \/ Empty(r) \/ Fill(r)) /\ UNCHANGED dbVars),
         ~(\E r \in Recorder : DieCommand(r))
  PROVE  Noted'
<1>1. UNCHANGED <<disk, mutex, last, mixed>> /\ LedgerTypeOK
  BY DEF DatabasesNext, LedgerStep, DatabasesTypeOK
<1>2. given \in Nat
  BY DEF DatabasesTypeOK
<1>3. ASSUME NEW r \in Recorder, NEW d \in Database, CreateDatabase(r, d) PROVE Noted'
  <2>1. PICK p \in Provisioned(d) :
          /\ password' = [password EXCEPT ![d] = p]
          /\ \/ /\ Due(r, "state", d, <<"password", given + 1>>)
                /\ IF p = given + 1 THEN Settle(r, d) ELSE loose' = loose \cup {d}
             \/ loose' = loose \cup {d} /\ UNCHANGED task
    BY <1>3 DEF CreateDatabase
  <2>2. UNCHANGED timer /\ r \in Commanding /\ d \in Entry /\ p \in Int
    BY <1>2, <1>3, DatabaseConstants DEF CreateDatabase, Commanding, Provisioned, DatabasesTypeOK
  <2>3. /\ OnNode(d)' = IF p = 0 THEN Nothing ELSE <<"password", p>>
        /\ \A e \in Checked \ {d} : OnNode(e)' = OnNode(e)
    BY <2>1, <2>2, PasswordOnNode
  <2>4. CASE Due(r, "state", d, <<"password", given + 1>>) /\ p = given + 1 /\ Settle(r, d)
    BY <1>1, <1>2, <2>2, <2>3, <2>4, CommandNoted
  <2>5. CASE Due(r, "state", d, <<"password", given + 1>>) /\ loose' = loose \cup {d}
    BY <1>1, <2>2, <2>3, <2>5, CommandNoted
  <2>6. CASE loose' = loose \cup {d} /\ UNCHANGED task
    BY <1>1, <2>3, <2>6, NodeChanges
  <2> QED
    BY <2>1, <2>4, <2>5, <2>6
<1>4. ASSUME NEW r \in Recorder, NEW d \in Database, RotatePassword(r, d) PROVE Noted'
  <2>1. UNCHANGED timer /\ r \in Commanding /\ d \in Entry /\ Told(d) \in Int /\ given + 1 # 0
    BY <1>2, <1>4, DatabaseConstants DEF RotatePassword, Commanding, Told
  <2>2. UNCHANGED password \/ password' = [password EXCEPT ![d] = Told(d)]
    BY <1>4 DEF RotatePassword
  <2>3. \A e \in Checked \ {d} : OnNode(e)' = OnNode(e)
    <3>1. CASE UNCHANGED password
      BY <2>1, <3>1 DEF OnNode
    <3>2. CASE password' = [password EXCEPT ![d] = Told(d)]
      BY <2>1, <3>2, PasswordOnNode
    <3> QED
      BY <2>2, <3>1, <3>2
  <2>4. CASE /\ Kind[d] = "mysql" /\ password' = [password EXCEPT ![d] = Told(d)]
             /\ Due(r, "state", d, <<"password", given + 1>>) /\ Settle(r, d)
    <3>1. Told(d) = given + 1
      BY <2>4 DEF Told
    <3>2. OnNode(d)' = <<"password", given + 1>>
      BY <2>1, <2>4, <3>1, PasswordOnNode
    <3> QED
      BY <1>1, <2>1, <2>3, <2>4, <3>2, CommandNoted
  <2>5. CASE Due(r, "state", d, <<"password", given + 1>>) /\ loose' = loose \cup {d}
    BY <1>1, <2>1, <2>3, <2>5, CommandNoted
  <2>6. CASE UNCHANGED <<password, loose, task>>
    <3>1. \A e : OnNode(e)' = OnNode(e)
      BY <2>1, <2>6 DEF OnNode
    <3> QED
      BY <1>1, <2>6, <3>1, NodeChanges
  <2>7. CASE loose' = loose \cup {d} /\ UNCHANGED task
    BY <1>1, <2>1, <2>3, <2>7, NodeChanges
  <2> QED
    BY <1>4, <2>4, <2>5, <2>6, <2>7 DEF RotatePassword
<1>5. ASSUME NEW r \in Recorder, NEW d \in Database, ScheduleBackup(r, d) PROVE Noted'
  <2>1. /\ Kind[d] \in Kinds /\ Kind[d] \in Entry /\ r \in Commanding /\ UNCHANGED password
        /\ Due(r, "state", Kind[d], <<"container", d>>)
        /\ \/ timer' = [timer EXCEPT ![Kind[d]] = d] /\ Settle(r, Kind[d])
           \/ loose' = loose \cup {Kind[d]} /\ UNCHANGED timer
    BY <1>5, DatabaseConstants DEF ScheduleBackup, Kinds, Commanding
  <2>2. CASE timer' = [timer EXCEPT ![Kind[d]] = d] /\ Settle(r, Kind[d])
    <3>1. OnNode(Kind[d])' = (IF d = Nothing THEN Nothing ELSE <<"container", d>>)
          /\ \A e \in Checked \ {Kind[d]} : OnNode(e)' = OnNode(e)
      BY <2>1, <2>2, TimerOnNode
    <3> QED
      BY <1>1, <2>1, <2>2, <3>1, CommandNoted
  <2>3. CASE loose' = loose \cup {Kind[d]} /\ UNCHANGED timer
    <3>1. \A e : OnNode(e)' = OnNode(e)
      BY <2>1, <2>3 DEF OnNode
    <3> QED
      BY <1>1, <2>1, <2>3, <3>1, CommandNoted
  <2> QED
    BY <2>1, <2>2, <2>3
<1>6. ASSUME NEW r \in Recorder, NEW e \in Entry, SyncEntry(r, e) PROVE Noted'
  <2>1. /\ r \in Syncing /\ UNCHANGED <<password, timer, loose>>
        /\ \/ Due(r, "state", e, Image)
           \/ e \in Service /\ Due(r, "state", e, <<"version", 0>>)
    BY <1>6 DEF SyncEntry
  <2> QED
    BY <1>1, <2>1, CheckedEntries, OthersNoted
<1>7. ASSUME NEW r \in Recorder, NEW s \in Service, RecordService(r, s) \/ AdoptService(r, s) PROVE Noted'
  BY <1>1, <1>7, CheckedEntries, OthersNoted DEF RecordService, AdoptService, Record
<1>8. ASSUME NEW r \in Recorder, NEW n \in Machine, AddNode(r, n) \/ RemoveNode(r, n) PROVE Noted'
  BY <1>1, <1>8, CheckedEntries, OthersNoted DEF AddNode, RemoveNode, Record
<1>9. ASSUME NEW d \in Database, RemoveDatabase(d) PROVE Noted'
  <2>1. password' = [password EXCEPT ![d] = 0] /\ UNCHANGED <<task, timer, loose>> /\ 0 \in Int
    BY <1>9 DEF RemoveDatabase
  <2>2. OnNode(d)' = Nothing /\ \A e \in Checked \ {d} : OnNode(e)' = OnNode(e)
    BY <2>1, PasswordOnNode
  <2> QED
    BY <1>1, <2>1, <2>2, NodeChanges
<1>10. ASSUME NEW k \in Kinds, UnscheduleBackup(k) PROVE Noted'
  <2>1. UNCHANGED <<task, password, loose>> /\ (UNCHANGED timer \/ timer' = [timer EXCEPT ![k] = Nothing])
    BY <1>10 DEF UnscheduleBackup
  <2>2. CASE UNCHANGED timer
    <3>1. \A e : OnNode(e)' = OnNode(e)
      BY <2>1, <2>2 DEF OnNode
    <3> QED
      BY <1>1, <2>1, <3>1, NodeChanges
  <2>3. CASE timer' = [timer EXCEPT ![k] = Nothing]
    BY <1>1, <2>1, <2>3, TimerOnNode, NodeChanges
  <2> QED
    BY <2>1, <2>2, <2>3
<1> QED
  BY <1>3, <1>4, <1>5, <1>6, <1>7, <1>8, <1>9, <1>10 DEF DatabasesNext, LedgerStep

\* LedgerTrue for any databases, kinds, nodes and services and any number of commands:
\* what stateRecord is given after ProvisionDatabase, RotateDBPassword, ScheduleBackup
\* and a sync, in any order they are saved.
THEOREM LedgerAlwaysTrue == DatabasesSpec => []LedgerTrue
<1>1. DatabasesInit => Noted
  <2> SUFFICES ASSUME DatabasesInit PROVE Noted
    OBVIOUS
  <2>1. \A r \in Recorder : task[r].at = "rest"
    BY DEF DatabasesInit, LedgerInit, Resting
  <2>2. \A e \in Checked : last["state"][e] = Nothing
    BY CheckedEntries DEF DatabasesInit, LedgerInit, File, NoEntries
  <2> QED
    BY <2>1, <2>2, LedgerConstants DEF Noted, AllInState, SyncNotes, CommandNotes, LastTrue, Pending, Commanding
<1>2. DatabasesTypeOK /\ Kept /\ Noted /\ [DatabasesNext]_<<ledgerVars, dbVars>> => Noted'
  <2> SUFFICES ASSUME DatabasesTypeOK, Kept, Noted, [DatabasesNext]_<<ledgerVars, dbVars>> PROVE Noted'
    OBVIOUS
  <2>0. LedgerTypeOK
    BY DEF DatabasesTypeOK
  <2>1. CASE UNCHANGED <<ledgerVars, dbVars>>
    <3>1. UNCHANGED <<disk, mutex, last, mixed, task, loose>> /\ \A e : OnNode(e)' = OnNode(e)
      BY <2>1 DEF ledgerVars, dbVars, OnNode
    <3> QED
      BY <2>0, <3>1, NodeChanges
  <2>2. ASSUME NEW r \in Recorder, Load(r) \/ Empty(r) \/ Fill(r), UNCHANGED dbVars PROVE Noted'
    BY <2>0, <2>2, RecordingNoted
  <2>3. ASSUME NEW r \in Recorder, DieCommand(r) PROVE Noted'
    BY <2>0, <2>3, DyingNoted
  <2> QED
    BY <2>1, <2>2, <2>3, CommandsNoted
<1>3. DatabasesTypeOK /\ Kept /\ Noted => LedgerTrue
  <2> SUFFICES ASSUME DatabasesTypeOK, Kept, Noted, NEW e \in Checked, "state" \notin mixed, e \notin loose,
                      \A r \in Recorder : ~(task[r].at # "rest" /\ (task[r].entry = e \/ task[r].at = "emptied"))
               PROVE  \/ disk["state"][e] \in {Nothing, Image}
                      \/ OnNode(e) = Nothing
                      \/ disk["state"][e] = OnNode(e)
    BY DEF LedgerTrue, Checked
  <2>1. disk["state"] = last["state"]
    BY DEF Kept, EntriesKept, File
  <2>2. ~(\E r \in Commanding : Pending(r, e))
    BY DEF Pending, Commanding
  <2> QED
    BY <2>1, <2>2 DEF Noted, LastTrue
<1> QED
  BY <1>1, <1>2, <1>3, LedgerAlways, PTL DEF DatabasesSpec

-------------------------------------------------------------------------------
(* The list of nodes                                                         *)

\* Any list of nodes, whatever its fields hold, and any options.
NodeEntry(V)   == [ip : V, user : V, key : V, port : V, mode : V, role : V]
NodeLists(V)   == Seq(NodeEntry(V))
NodeOptions(V) == [user : V, key : V, port : V, mode : V]

\* An address has one entry.
OneEntryEach(l) == \A i, j \in 1 .. Len(l) : l[i].ip = l[j].ip => i = j

\* What joining and adopting owe the list: one entry per address, and what is
\* registered of the others.
ListKept(l, new, ip, V) ==
  /\ new \in NodeLists(V) /\ OneEntryEach(new)
  /\ \E i \in 1 .. Len(new) : new[i].ip = ip
  /\ \A other \in V \ {ip} : LookupNode(new, other) = LookupNode(l, other)

LEMMA EntryFound ==
  ASSUME NEW V, NEW l \in NodeLists(V), OneEntryEach(l), NEW i \in 1 .. Len(l)
  PROVE  /\ Where(l, l[i].ip) = {i} /\ First(Where(l, l[i].ip)) = i
         /\ LookupNode(l, l[i].ip) = l[i]
<1>1. Where(l, l[i].ip) = {i}
  BY DEF Where, OneEntryEach
<1>2. First({i}) = i
  <2>1. \A n \in {i} : (\A j \in {i} : n <= j) => n = i
    OBVIOUS
  <2>2. \E n \in {i} : \A j \in {i} : n <= j
    OBVIOUS
  <2>. QED
    BY <2>1, <2>2 DEF First
<1>. QED
  BY <1>1, <1>2 DEF LookupNode

\* Two lists whose entries agree but for the address ip.
SameNodesBut(l, new, ip) ==
  /\ \A i \in 1 .. Len(l) : l[i].ip # ip => i \in 1 .. Len(new) /\ new[i] = l[i]
  /\ \A i \in 1 .. Len(new) : new[i].ip # ip => i \in 1 .. Len(l) /\ new[i] = l[i]

LEMMA OtherEntriesFound ==
  ASSUME NEW V, NEW l \in NodeLists(V), NEW new \in NodeLists(V), OneEntryEach(l), OneEntryEach(new), NEW ip,
         SameNodesBut(l, new, ip), NEW other \in V \ {ip}
  PROVE  LookupNode(new, other) = LookupNode(l, other)
<1>1. CASE \E i \in 1 .. Len(l) : l[i].ip = other
  <2>1. PICK i \in 1 .. Len(l) : l[i].ip = other
    BY <1>1
  <2>2. i \in 1 .. Len(new) /\ new[i] = l[i]
    BY <2>1 DEF SameNodesBut
  <2>. QED
    BY <2>1, <2>2, EntryFound
<1>2. CASE ~ \E i \in 1 .. Len(l) : l[i].ip = other
  <2>1. Where(l, other) = {} /\ Where(new, other) = {}
    BY <1>2 DEF Where, SameNodesBut
  <2>. QED
    BY <2>1 DEF LookupNode
<1>. QED
  BY <1>1, <1>2

LEMMA AppendKeeps ==
  ASSUME NEW V, NEW l \in NodeLists(V), OneEntryEach(l), NEW ip \in V, Where(l, ip) = {},
         NEW e \in NodeEntry(V), e.ip = ip
  PROVE  ListKept(l, Append(l, e), ip, V) /\ LookupNode(Append(l, e), ip) = e
<1>. DEFINE new == Append(l, e)
<1>1. /\ new \in NodeLists(V) /\ Len(new) = Len(l) + 1 /\ Len(l) \in Nat
      /\ new[Len(l) + 1] = e /\ \A i \in 1 .. Len(l) : new[i] = l[i]
  BY DEF NodeLists
<1>2. \A i \in 1 .. Len(l) : l[i].ip # ip
  BY DEF Where
<1>. HIDE DEF new
<1>3. OneEntryEach(new)
  <2>. SUFFICES ASSUME NEW i \in 1 .. Len(new), NEW j \in 1 .. Len(new), new[i].ip = new[j].ip
                PROVE  i = j
    BY DEF OneEntryEach
  <2>1. CASE i \in 1 .. Len(l) /\ j \in 1 .. Len(l)
    BY <1>1, <2>1 DEF OneEntryEach
  <2>2. CASE i = Len(l) + 1 \/ j = Len(l) + 1
    BY <1>1, <1>2, <2>2
  <2>. QED
    BY <1>1, <2>1, <2>2
<1>4. \A other \in V \ {ip} : LookupNode(new, other) = LookupNode(l, other)
  <2>1. /\ \A i \in 1 .. Len(l) : i \in 1 .. Len(new)
        /\ \A i \in 1 .. Len(new) : i \in 1 .. Len(l) \/ i = Len(l) + 1
    BY <1>1
  <2>2. SameNodesBut(l, new, ip)
    BY <1>1, <2>1 DEF SameNodesBut
  <2>. QED
    BY <1>1, <1>3, <2>2, OtherEntriesFound
<1>5. LookupNode(new, ip) = e
  BY <1>1, <1>3, EntryFound
<1>. QED
  BY <1>1, <1>3, <1>4, <1>5 DEF ListKept, new

LEMMA ChangeKeeps ==
  ASSUME NEW V, NEW l \in NodeLists(V), OneEntryEach(l), NEW i \in 1 .. Len(l),
         NEW ip \in V, l[i].ip = ip, NEW e \in NodeEntry(V), e.ip = ip
  PROVE  ListKept(l, [l EXCEPT ![i] = e], ip, V) /\ LookupNode([l EXCEPT ![i] = e], ip) = e
<1>. DEFINE new == [l EXCEPT ![i] = e]
<1>1. /\ new \in NodeLists(V) /\ Len(new) = Len(l)
      /\ new[i] = e /\ \A j \in 1 .. Len(l) : j # i => new[j] = l[j]
  BY DEF NodeLists
<1>. HIDE DEF new
<1>2. \A j \in 1 .. Len(l) : new[j].ip = l[j].ip
  BY <1>1
<1>3. OneEntryEach(new)
  BY <1>1, <1>2 DEF OneEntryEach
<1>4. \A j \in 1 .. Len(l) : l[j].ip # ip => new[j] = l[j]
  BY <1>1
<1>5. \A other \in V \ {ip} : LookupNode(new, other) = LookupNode(l, other)
  <2>1. SameNodesBut(l, new, ip)
    BY <1>1, <1>2, <1>4 DEF SameNodesBut
  <2>2. new \in NodeLists(V)
    BY <1>1
  <2>. QED
    BY <1>3, <2>1, <2>2, OtherEntriesFound
<1>6. LookupNode(new, ip) = e
  BY <1>1, <1>3, EntryFound
<1>. QED
  BY <1>1, <1>3, <1>5, <1>6 DEF ListKept, new

\* Joining and adopting a node, for any list, options and mode: an address keeps one
\* entry, what is registered of the others is as it was, a joined node is an agent, an
\* adopted one keeps its role, port and key, and is a server if it is new.
THEOREM RegisteringKeepsList ==
  ASSUME NEW V, {"agent", "server"} \subseteq V, NEW l \in NodeLists(V), OneEntryEach(l),
         NEW ip \in V, NEW opt \in NodeOptions(V), NEW mode \in V
  PROVE  LET joined  == JoinRegister(l, ip, opt)
             adopted == AdoptRegister(l, ip, opt, mode)
             before == LookupNode(l, ip)
             after == LookupNode(adopted, ip)
         IN /\ ListKept(l, joined, ip, V) /\ LookupNode(joined, ip).role = "agent"
            /\ ListKept(l, adopted, ip, V) /\ after.mode = mode
            /\ IF Where(l, ip) = {} THEN after.role = "server"
               ELSE <<after.role, after.port, after.key>> = <<before.role, before.port, before.key>>
<1>1. CASE Where(l, ip) = {}
  <2>. DEFINE a == Registered(ip, opt.user, opt.key, opt.port, opt.mode, "agent")
              s == Registered(ip, opt.user, opt.key, opt.port, mode, "server")
  <2>1. /\ a \in NodeEntry(V) /\ a.ip = ip /\ a.role = "agent"
        /\ s \in NodeEntry(V) /\ s.ip = ip /\ s.role = "server"
        /\ s.mode = mode
    BY DEF NodeEntry, Registered, NodeOptions
  <2>2. JoinRegister(l, ip, opt) = Append(l, a) /\ AdoptRegister(l, ip, opt, mode) = Append(l, s)
    BY <1>1 DEF JoinRegister, AdoptRegister
  <2>. HIDE DEF a, s
  <2>. QED
    BY <1>1, <2>1, <2>2, AppendKeeps
<1>2. CASE Where(l, ip) # {}
  <2>1. PICK i \in 1 .. Len(l) : l[i].ip = ip
    BY <1>2 DEF Where
  <2>2. First(Where(l, ip)) = i /\ LookupNode(l, ip) = l[i]
    BY <2>1, EntryFound
  <2>3. l[i] \in NodeEntry(V)
    BY DEF NodeLists
  <2>. DEFINE a == [l[i] EXCEPT !.role = "agent"]
              s == [l[i] EXCEPT !.mode = mode, !.user = IF @ = Unset THEN opt.user ELSE @]
  <2>4. /\ a \in NodeEntry(V) /\ a.ip = ip /\ a.role = "agent"
        /\ s \in NodeEntry(V) /\ s.ip = ip /\ s.mode = mode
        /\ s.role = l[i].role /\ s.port = l[i].port /\ s.key = l[i].key
    BY <2>1, <2>3 DEF NodeEntry, NodeOptions
  <2>5. JoinRegister(l, ip, opt) = [l EXCEPT ![i] = a]
    BY <1>2, <2>2 DEF JoinRegister
  <2>6. AdoptRegister(l, ip, opt, mode) = [l EXCEPT ![i] = s]
    BY <1>2, <2>1, <2>2, <2>3 DEF AdoptRegister, NodeLists
  <2>. HIDE DEF a, s
  <2>7. ListKept(l, [l EXCEPT ![i] = a], ip, V) /\ LookupNode([l EXCEPT ![i] = a], ip) = a
    BY <2>1, <2>4, ChangeKeeps
  <2>8. ListKept(l, [l EXCEPT ![i] = s], ip, V) /\ LookupNode([l EXCEPT ![i] = s], ip) = s
    BY <2>1, <2>4, ChangeKeeps
  <2>. QED
    BY <1>2, <2>2, <2>4, <2>5, <2>6, <2>7, <2>8, Zenon
<1>. QED
  BY <1>1, <1>2
=============================================================================
