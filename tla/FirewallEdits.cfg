SPECIFICATION MCSpec
CONSTANTS
  a4 = a4
  b4 = b4
  a6 = a6
  k1 = k1
  NoLine = NoLine
  Admins <- MCAdmins
  V6Admins <- MCV6Admins
  Lines <- MCLines
  Peers <- MCPeers
  SshUser = "root"
  MinCidrs = 4
  FetchCounts <- MCFetchCounts
  Edits = {"ports", "admin", "peers", "watch"}
  Losses = {}
  NoComponent = NoComponent
  Component = {"state", "traefik"}
  Versions = 2
  Mishaps = 1
  BornPorts <- MCBornPorts
  AskedPorts = {0, 2222, 2200}
  Tries = 2
  Inits = 3
  e1 = e1
  e2 = e2
  Entries <- MCEntries
  Placements <- MCPlacements
  Other = Other
  Keyed = {"vultr", "cubepath", "civo", "aws", "hetzner"}
  Peerings <- MCPeerings
  PeerIPs = {e1}
  Page = 3
  Ranges = {{1, 2}, {2, 3, 4, 5}}
  Limit = 4
  Failures = 1
INVARIANTS
  OwnMachineOrLate
  SyncExact
  ExposedAsRegistered
  SurvivesReboot
  WatchdogsStay
  WayIn
PROPERTIES
  DestroyPersists
  OutStaysOut
  PolicyKept
