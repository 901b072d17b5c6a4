SPECIFICATION FairSpec
CONSTANTS
  deep = deep
  flat = flat
  Tasks = {deep, flat}
  Depth <- MCDepth
  Waits <- MCWaits
  MaxQueue = 1
INVARIANTS
  TypeOK
  StatesAlive
  Connected
  AbortRecorded
  NoStrayAbort
  HeardIsOnItsWay
  QueuedEmissions
PROPERTY
  RequestEndsWait
