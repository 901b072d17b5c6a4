SPECIFICATION FairSpec
CONSTANTS
  owner = owner
  NoOwner = NoOwner
  Coros = {c1, c2}
  Owners = {owner}
  OwnerOf <- MCOwnerOf
  MaxLinger = 2
INVARIANTS
  TypeOK
  SettledIsLeftAlone
  NoLostWakeup
  ResultBeforeResume
  OwnerOutlivesRun
PROPERTIES
  OwnerNeverRevived
  KeepsPromise
  Settles
  UnheldOwnerDies
CHECK_DEADLOCK FALSE
