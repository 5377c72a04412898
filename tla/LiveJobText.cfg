SPECIFICATION Spec
CONSTANTS
  Cues = 2
  Offsets = {0, 1}
  Broken = {}
  Readers = {"job", "handler"}
  MaxStrikes = 2
  MaxCues = 2
  MaxSeeks = 1
  MaxFaults = 0
  BatchSize = 1
  LeadIn = 0
  ServesWithin = 0
  NoRead = NoRead
  NoRef = NoRef
  NoRecord = NoRecord
  NoFinal = NoFinal
INVARIANTS
  RightText
