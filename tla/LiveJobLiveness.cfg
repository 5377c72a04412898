SPECIFICATION FairSpec
CONSTANTS
  Cues = 2
  Offsets = {0, 1}
  Broken = {}
  Readers = {"job", "handler"}
  MaxStrikes = 2
  MaxCues = 2
  MaxSeeks = 0
  MaxFaults = 1
  BatchSize = 2
  LeadIn = 0
  ServesWithin = 0
  NoRead = NoRead
  NoRef = NoRef
  NoRecord = NoRecord
  NoFinal = NoFinal
PROPERTIES
  EventuallyFinal
  EveryCueTranslated
