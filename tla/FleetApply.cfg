SPECIFICATION MCSpec
CONSTANTS
  h1 = h1
  h2 = h2
  h3 = h3
  NoHost = NoHost
  Host <- MCHost
  Fleets <- MCFleets
  Budget = 1
  Events <- MCFaults
  n1 = n1
  n2 = n2
  v1 = v1
  v2 = v2
  App = App
  Absent = Absent
  Partial = Partial
  Node <- MCNode
  Service <- MCService
  Version = {v1, v2}
  Plans <- MCPlans
  Pushed = {n1}
  Quota = 1
  Unset = Unset
  Address = {"ip1", "ip2", "ip3"}
  Network = {"net"}
INVARIANTS
  OneCluster
  SparesSteady
  WholeOnDone
  ServedAsDeclared
  UndeclaredGone
PROPERTIES
  ClusterFormed
  NoSilentSwitch
  JoinsBehindPeers
  Converges
  EtcdBeforePostgres
  FailsOnlyByFault
CHECK_DEADLOCK FALSE
