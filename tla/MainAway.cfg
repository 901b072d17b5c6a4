SPECIFICATION Spec
CONSTANTS
  MainThread = m
  Workers = {w1, w2}
  Foreign = {f}
  Works = {i1, i2}
  NoThread = NoThread
  ReturnsAway = TRUE
INVARIANT
  DestroyedAtRest
CHECK_DEADLOCK FALSE
