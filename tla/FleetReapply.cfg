SPECIFICATION FairSpec
CONSTANTS
  h1 = h1
  h2 = h2
  h3 = h3
  NoHost = NoHost
  Host <- MCHost
  Fleets <- MCUnchanged
  Budget = 0
  Events <- MCNone
PROPERTY
  ReapplyIsNoOp
CHECK_DEADLOCK FALSE
