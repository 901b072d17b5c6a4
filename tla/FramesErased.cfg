SPECIFICATION Spec
CONSTANTS
  a = a
  b = b
  s = s
  r = r
  any = any
  queued = queued
  ta1 = ta1
  ta2 = ta2
  tb = tb
  NoExec = NoExec
  NoChain = NoChain
  Chains = {any}
  Threads = {ta1, ta2, tb, out}
  Contexts = {a, b}
  Strands = {}
  Erased = {r}
  Inner <- MCInner
  ThreadOf <- MCThreadOf
  Hops <- Posting
  RootTargets <- ToErased
  CalleeTargets <- ToErased
  MaxDepth <- Two
INVARIANT
  LeavesForeignStrands
CHECK_DEADLOCK FALSE
