SPECIFICATION FairInstallSpec
CONSTANTS
  a4 = a4
  b4 = b4
  NoLine = NoLine
  NoTable = NoTable
  Admins <- MCAdmins
  V6Admins <- MCNone
  Lines <- MCNone
  Peers <- MCNone
  Ops <- MCSolo
  SshUser = "root"
  MinCidrs = 4
  FetchCounts <- MCAllOrNothing
  Edits = {"remove"}
  Losses = {}
  Faults = {"cliCrash", "badConfig", "loadFails", "unitFails", "hasty", "slow"}
INVARIANTS
  LockoutArmed
PROPERTIES
  LockoutRecovers
