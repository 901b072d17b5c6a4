SPECIFICATION Spec
CONSTANTS
  a = a
  b = b
  s = s
  r = r
  any = any
  queued = queued
  ta1 = ta1
  ta2 = ta2
  tb = tb
  NoExec = NoExec
  NoChain = NoChain
  Chains = {any}
  Threads = {ta1, tb, out}
  Contexts = {a, b}
  Strands = {}
  Erased = {}
  Inner <- MCInner
  ThreadOf <- MCThreadOf
  Hops <- Posting
  RootTargets <- ToA
  CalleeTargets <- ToB
  MaxDepth <- Two
INVARIANT
  RunsOnItsExecutor
CHECK_DEADLOCK FALSE
