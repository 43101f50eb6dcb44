SPECIFICATION FairMCSpec
CONSTANTS
  a4 = a4
  b4 = b4
  a6 = a6
  k1 = k1
  NoLine = NoLine
  Admins <- MCAdmins
  V6Admins <- MCV6Admins
  Lines <- MCTwoLines
  Peers <- MCNone
  SshUser = "sdkops"
  MinCidrs = 4
  FetchCounts <- MCAllOrNothing
  Edits = {"ports", "admin", "harden"}
  Losses = {"admin", "exposed"}
  d1 = d1
  d2 = d2
  NoCert = NoCert
  NoComponent = NoComponent
  Component = {"traefik"}
  Versions = 1
  Mishaps = 1
  Domain <- MCDomains
  Imported <- MCImported
  Proxied <- MCProxied
  Serials <- MCSerials
INVARIANTS
  NoStalePolicy
  PairsFit
PROPERTIES
  LostRulesReturn
  BlankFamilyReturns
  RenewalReaches
  TraefikReturns
