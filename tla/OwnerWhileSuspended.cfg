SPECIFICATION Spec
CONSTANTS
  owner = owner
  NoOwner = NoOwner
  Coros = {c1}
  Owners = {owner}
  OwnerOf <- MCOwnerOf
  MaxLinger = 1
INVARIANT
  OwnerKeptWhileSuspended
CHECK_DEADLOCK FALSE
