------------------------------- MODULE Databases -------------------------------
(***************************************************************************)
(* Databases of one node: `db create | remove`, `service rotate db`,       *)
(* `backup schedule | unschedule` and `state sync`, with what each of them *)
(* records.  The ledger holds the only copy of a password that was made    *)
(* up, so what it says must be what the database takes.  docker and the    *)
(* databases are external.  `db create` replaces a container of that name, *)
(* with its data; a backup of each kind is scheduled for one container.    *)
(* Source: src/cmd/sdk-ops/db.go, deploy.go, backup.go, state.go,          *)
(* src/deploy/database.go, rotate.go, backup.go.                           *)
(***************************************************************************)
EXTENDS Ledger, Integers

CONSTANTS
  Database,  \* containers
  Kind,      \* postgres, mysql, redis or mongodb, of each
  Machine,   \* nodes config.yaml may list
  Service,   \* services that are pushed, per node
  Commands   \* bound: commands given

Kinds == {Kind[d] : d \in Database}
Image == <<"image", 0>>

\* An entry of state.yaml has its type in its ID, config.yaml lists nodes alone: no two
\* entries of different types are the same.
ASSUME DatabaseConstants ==
  /\ Kind \in [Database -> {"postgres", "mysql", "redis", "mongodb"}]
  /\ Commands \in Nat
  /\ Entry = Database \cup Kinds \cup Machine \cup Service
  /\ (Database \cup Kinds) \cap (Machine \cup Service) = {} /\ Database \cap Kinds = {}
  /\ Image \in Value /\ \A d \in Database : <<"container", d>> \in Value
  /\ \A k \in {"password", "version", "node"}, n \in 0 .. Commands : <<k, n>> \in Value

VARIABLES
  password, \* per container: the password it takes, 0 when there is none, -n for n in quotes
  timer,    \* per kind of backup: the container its timer backs up
  given,    \* commands given
  loose     \* entries whose last command was cut, failed half-way or met another, or
            \* does not do what it records

dbVars == <<password, timer, given, loose>>

DatabasesTypeOK ==
  /\ LedgerTypeOK
  /\ password \in [Database -> -Commands .. Commands]
  /\ timer \in [Kinds -> Database \cup {Nothing}]
  /\ given \in 0 .. Commands /\ loose \subseteq Entry

DatabasesInit ==
  /\ LedgerInit
  /\ password = [d \in Database |-> 0] /\ timer = [k \in Kinds |-> Nothing]
  /\ given = 0 /\ loose = {}

-------------------------------------------------------------------------------

Give == given < Commands /\ given' = given + 1

\* Another command on the same entry is on its way.
Meets(r, e) == \E q \in Recorder \ (Syncing \cup {r}) : task[q].at # "rest" /\ task[q].entry = e

Settle(r, e) == loose' = IF Meets(r, e) THEN loose \cup {e} ELSE loose \ {e}

\* ProvisionDatabase: docker rm -f and docker run may both fail, or the second alone,
\* and only the log says so.
Provisioned(d) == {given + 1, 0, password[d]}

\* dbCreateRunE: the container, the firewall, stateRecord.  When the port cannot be
\* exposed the command ends without recording.
CreateDatabase(r, d) ==
  /\ r \notin Syncing /\ task[r].at = "rest" /\ Give
  /\ \E p \in Provisioned(d) :
       /\ password' = [password EXCEPT ![d] = p]
       /\ \/ /\ Due(r, "state", d, <<"password", given + 1>>)
             /\ IF p = given + 1 THEN Settle(r, d) ELSE loose' = loose \cup {d}
          \/ loose' = loose \cup {d} /\ UNCHANGED task
  /\ UNCHANGED timer

\* RemoveDatabase records nothing.
RemoveDatabase(d) ==
  /\ password[d] # 0 /\ Give
  /\ password' = [password EXCEPT ![d] = 0]
  /\ UNCHANGED <<task, timer, loose>>

\* Variant: what mysql answers is not looked at.
RotateUnchecked(r, d) ==
  /\ Kind[d] = "mysql" /\ r \notin Syncing /\ task[r].at = "rest" /\ password[d] # 0 /\ Give
  /\ \E p \in {password[d], given + 1} : password' = [password EXCEPT ![d] = p]
  /\ Due(r, "state", d, <<"password", given + 1>>) /\ Settle(r, d)
  /\ UNCHANGED timer

\* What the database is told: the command for postgres puts the password in quotes that
\* are part of it.
Told(d) == IF Kind[d] = "postgres" THEN -(given + 1) ELSE given + 1

\* RotateDBPassword and stateRecord.  mysql does what it is told or ends with an error, as
\* mongosh always does.  psql ends well though postgres refuses, and so does redis-cli,
\* which is not given the password the container was made with.
RotatePassword(r, d) ==
  /\ r \notin Syncing /\ task[r].at = "rest" /\ password[d] # 0 /\ Give
  /\ \/ /\ Kind[d] = "mysql"
        /\ password' = [password EXCEPT ![d] = Told(d)]
        /\ Due(r, "state", d, <<"password", given + 1>>) /\ Settle(r, d)
     \/ /\ \/ Kind[d] = "postgres" /\ password' = [password EXCEPT ![d] = Told(d)]
           \/ Kind[d] \in {"postgres", "redis"} /\ UNCHANGED password
        /\ Due(r, "state", d, <<"password", given + 1>>) /\ loose' = loose \cup {d}
     \/ /\ Kind[d] # "redis"  \* an error, or the connection is lost after the change
        /\ \/ UNCHANGED <<password, loose>>
           \/ /\ Kind[d] # "mongodb"
              /\ password' = [password EXCEPT ![d] = Told(d)] /\ loose' = loose \cup {d}
        /\ UNCHANGED task
  /\ UNCHANGED timer

\* ScheduleBackup and stateRecord: one timer and one entry for a kind.  Its script writes
\* the units without sudo and says ok whatever became of them: an account that is not
\* root, as sdkops is, leaves the timer as it was.
ScheduleBackup(r, d) ==
  /\ r \notin Syncing /\ task[r].at = "rest" /\ Give
  /\ Due(r, "state", Kind[d], <<"container", d>>)
  /\ \/ timer' = [timer EXCEPT ![Kind[d]] = d] /\ Settle(r, Kind[d])
     \/ loose' = loose \cup {Kind[d]} /\ UNCHANGED timer
  /\ UNCHANGED password

\* UnscheduleBackup records nothing, and does nothing either without root.
UnscheduleBackup(k) ==
  /\ timer[k] # Nothing /\ Give
  /\ timer' \in {timer, [timer EXCEPT ![k] = Nothing]}
  /\ UNCHANGED <<task, password, loose>>

\* A goroutine of `state sync`: what runs, with its image in place of what was noted,
\* and then services as "synced".
SyncEntry(r, e) ==
  /\ r \in Syncing
  /\ \/ e \in Database /\ password[e] # 0 /\ Due(r, "state", e, Image)
     \/ e \in Service /\ Due(r, "state", e, <<"version", 0>>)
  /\ Give
  /\ UNCHANGED <<password, timer, loose>>

Record(r, f, e, v) ==
  /\ r \notin Syncing
  /\ Due(r, f, e, v) /\ Give
  /\ UNCHANGED <<password, timer, loose>>

\* deployToOne, alone or in a goroutine of a push to all nodes; syncAdoptedState.
RecordService(r, s) == Record(r, "state", s, <<"version", given + 1>>)
AdoptService(r, s)  == Record(r, "state", s, <<"version", 0>>)

\* config add-node, and with it registerInitNode, the join and registerAdoptedNode; config
\* remove-node.  `infra remove` leaves the entry.
AddNode(r, n)    == Record(r, "config", n, <<"node", given + 1>>)
RemoveNode(r, n) == Record(r, "config", n, Nothing)

DieCommand(r) ==
  /\ DieRecording(r)
  /\ loose' = IF r \in Syncing THEN loose ELSE loose \cup {task[r].entry}
  /\ UNCHANGED <<password, timer, given>>

DatabasesNext ==
  \/ LedgerStep /\ UNCHANGED dbVars
  \/ /\ \/ \E r \in Recorder : \/ \E d \in Database : \/ CreateDatabase(r, d)
                                                      \/ RotatePassword(r, d)
                                                      \/ ScheduleBackup(r, d)
                               \/ \E e \in Entry : SyncEntry(r, e)
                               \/ \E s \in Service : RecordService(r, s) \/ AdoptService(r, s)
                               \/ \E n \in Machine : AddNode(r, n) \/ RemoveNode(r, n)
        \/ \E d \in Database : RemoveDatabase(d)
        \/ \E k \in Kinds : UnscheduleBackup(k)
     /\ UNCHANGED <<disk, mutex, last, mixed>>
  \/ \E r \in Recorder : DieCommand(r)

DatabasesSpec == DatabasesInit /\ [][DatabasesNext]_<<ledgerVars, dbVars>>

-------------------------------------------------------------------------------

\* What there is on the node of an entry of the ledger.
OnNode(e) ==
  IF e \in Database THEN IF password[e] = 0 THEN Nothing ELSE <<"password", password[e]>>
  ELSE IF timer[e] = Nothing THEN Nothing ELSE <<"container", timer[e]>>

\* The password the ledger holds for a database that runs is the one it takes, and the
\* backup it lists is of the container its timer backs up: in any order of creations,
\* removals, rotations, schedules and syncs, unless the last command on that entry was cut
\* or met another, rotated postgres or redis, or scheduled without root, or recordings met.
LedgerTrue ==
  \A e \in Kinds \cup Database :
    \/ "state" \in mixed \/ e \in loose
    \/ \E r \in Recorder : task[r].at # "rest" /\ (task[r].entry = e \/ task[r].at = "emptied")
    \/ disk["state"][e] \in {Nothing, Image}
    \/ OnNode(e) = Nothing
    \/ disk["state"][e] = OnNode(e)
===============================================================================
