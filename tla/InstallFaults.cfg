SPECIFICATION MCSpec
CONSTANTS
  a4 = a4
  b4 = b4
  NoLine = NoLine
  NoTable = NoTable
  Admins <- MCAdmins
  V6Admins <- MCNone
  Lines <- MCTwoLines
  Peers <- MCNone
  Ops <- MCSolo
  SshUser = "root"
  MinCidrs = 4
  FetchCounts <- MCEnough
  Edits = {"remove"}
  Losses = {}
  Faults = {"cliCrash", "badConfig", "loadFails", "unitFails", "reboot", "armFails",
            "badBackup", "restoreFails"}
  Absent = Absent
  Unset = Unset
INVARIANTS
  CommitSurvivesReboot
  BackupIsOriginal
PROPERTIES
  ReexposeKeepsPolicies
