SPECIFICATION Spec
CONSTANTS
  Replicas = {r1, r2}
  short = short
  long = long
  Docs = {long}
  CueCount <- OneCueCount
  Text <- OneText
  BatchSize = 1
  LockTTL = 2
  Positions = {0, 2}
  MaxFaults = 2
  SlowStore = TRUE
  Nobody = Nobody
  Orphan = Orphan
  NoRecord = NoRecord
  NoFinal = NoFinal
  NoDoc = NoDoc
INVARIANTS
  OneBatchAtATime
SYMMETRY MCSymmetry
CHECK_DEADLOCK FALSE
