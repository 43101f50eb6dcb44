SPECIFICATION Spec
CONSTANTS
  p1 = p1
  p2 = p2
  p3 = p3
  good = good
  bad = bad
  plain = plain
  None = None
  CurrentLink = CurrentLink
  Pushes <- MCTwoPushes
  Releases <- MCReleases
  Runnable <- MCRunnable
  Sound <- MCSound
  WithUrl <- MCWithUrl
  ForeignProbe = FALSE
  Modes <- MCDefault
  Faults <- MCNone
  Operator <- MCNone
SYMMETRY MCSymmetry
INVARIANTS
  AutoRollbackRestores
