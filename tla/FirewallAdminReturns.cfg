SPECIFICATION NodeSpec
CONSTANTS
  a4 = a4
  b4 = b4
  a6 = a6
  k1 = k1
  NoLine = NoLine
  Admins <- MCAdmins
  V6Admins <- MCV6Admins
  Lines <- MCOneLine
  Peers <- MCNone
  SshUser = "root"
  MinCidrs = 4
  FetchCounts <- MCFetchCounts
  Edits = {"admin"}
  Losses = {}
PROPERTIES
  RemovedAdminStaysOut
