SPECIFICATION MCSpec
CONSTANTS
  p1 = p1
  p2 = p2
  p3 = p3
  good = good
  bad = bad
  plain = plain
  None = None
  CurrentLink = CurrentLink
  Pushes <- MCTwoPushes
  Releases <- MCReleases
  Runnable <- MCRunnable
  Sound <- MCSound
  WithUrl <- MCWithUrl
  ForeignProbe = TRUE
  Modes <- MCModes
  Faults <- MCFaults
  Operator <- MCOperator
  c1 = c1
  c2 = c2
  s1 = s1
  s2 = s2
  d1 = d1
  d2 = d2
  d3 = d3
  Missing = Missing
  NoSite = NoSite
  Deploy <- MCDeploy
  KeyGiven <- MCKeyGiven
  Builder <- MCBuilder
  Connected = TRUE
  Troubles <- MCTroubles
  Parts = {"push", "ledger", "source"}
  Nothing = Nothing
  Cut = Cut
  Entry <- MCEntry
  Value <- MCValue
  Recorder <- MCRecorder
  Syncing <- MCSyncing
  Database <- MCDatabase
  Kind <- MCKind
  Machine <- MCMachine
  Service <- MCService
  Commands = 3
SYMMETRY MCServicesSymmetry
INVARIANTS
  CurrentIsWhole
  OkMeansServed
  EntriesKept
  LedgerTrue
  SealedAtRest
PROPERTIES
  VersionsKept
