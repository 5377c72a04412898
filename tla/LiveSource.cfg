SPECIFICATION FairSourceSpec
CONSTANTS
  Cues = 3
  Offsets = {0, 1, 2}
  Broken <- MCBroken
  Readers = {"handler"}
  MaxStrikes = 2
  MaxCues = 3
  MaxSeeks = 1
  MaxFaults = 2
  NoRead = NoRead
  NoRef = NoRef
INVARIANTS
  ContiguousIsWhole
  EndedWasRead
PROPERTIES
  NeverFrozen
