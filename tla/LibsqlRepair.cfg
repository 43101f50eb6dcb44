SPECIFICATION FairSpec
CONSTANTS
  Threshold = 3
  Desired = 2
  MaxWrites = 0
  Budget = 5
  Events = {"kill", "crash", "run", "stop", "load", "list", "save", "slow", "inspect"}
INVARIANTS
  OneWriterPerVolume
PROPERTIES
  EpochFences
  PrimaryReturns
