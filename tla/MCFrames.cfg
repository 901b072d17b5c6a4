SPECIFICATION Spec
CONSTANTS
  a = a
  b = b
  s = s
  r = r
  any = any
  queued = queued
  ta1 = ta1
  ta2 = ta2
  tb = tb
  NoExec = NoExec
  NoChain = NoChain
  Chains = {any, queued}
  Threads = {ta1, ta2, tb}
  Contexts = {a, b}
  Strands = {s}
  Erased = {r}
  Inner <- MCInner
  ThreadOf <- MCThreadOf
  Hops <- MCHops
  RootTargets <- MCRoot
  CalleeTargets <- MCCallee
  MaxDepth <- MCDepth
SYMMETRY MCSymmetry
INVARIANTS
  TypeOK
  OneControl
  QueuedOnTheirExecutor
  QueuedLeaveStrands
PROPERTY
  KeepsCalls
CHECK_DEADLOCK FALSE
