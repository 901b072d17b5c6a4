SPECIFICATION FairSpec
CONSTANTS
  MainThread = m
  Workers = {w1, w2}
  Foreign = {f}
  Works = {i1, i2}
  NoThread = NoThread
  ReturnsAway = FALSE
INVARIANTS
  CodeReturned
  DestroyedAtRest
  GraceKept
PROPERTY
  Terminates
CHECK_DEADLOCK FALSE
