SPECIFICATION InstallSpec
CONSTANTS
  a4 = a4
  b4 = b4
  NoLine = NoLine
  NoTable = NoTable
  Admins <- MCAdmins
  V6Admins <- MCNone
  Lines <- MCTwoLines
  Peers <- MCNone
  Ops <- MCSolo
  SshUser = "root"
  MinCidrs = 4
  FetchCounts <- MCEnough
  Edits = {}
  Losses = {}
  Faults = {}
PROPERTIES
  RollbackSurvivesReboot
