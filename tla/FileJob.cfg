SPECIFICATION FairSpec
CONSTANTS
  Replicas = {r1, r2}
  short = short
  long = long
  Docs = {short, long}
  CueCount <- MCCueCount
  Text <- MCText
  BatchSize = 1
  LockTTL = 2
  Positions = {0, 2}
  MaxFaults = 2
  SlowStore = FALSE
  Nobody = Nobody
  Orphan = Orphan
  NoRecord = NoRecord
  NoFinal = NoFinal
  NoDoc = NoDoc
INVARIANTS
  TypeOK
  FinalComplete
  OwnerHolds
  Published
  OneBatchAtATime
PROPERTIES
  EventuallyFinal
  CloseDrains
  LeaseKept
CHECK_DEADLOCK FALSE
