SPECIFICATION PartsSpec
CONSTANTS
  FileKeys = {f1, f2}
  LiveKeys = {l1}
  MaxJobs = 1
  LiveMaxJobs = 1
  Goroutines = {g1, g2, g3}
  NoJob = NoJob
  NoKey = NoKey
  N = 5
  Film <- MCFilm
  NoText = ""
  Offsets = {0, 6, 10}
  Shift <- MCShift
  Tolerance = 3
  MaxMoves = 2
  Polls = {1, 2}
  Methods <- MCMethods
  Sizes = {2, 3}
  TextCues <- MCTextCues
INVARIANTS
  PartsTypeOK
  RegistryMatches
  SlotsBalance
  ClosedIsQuiet
  OwnText
  PrefixKept
  CallsBounded
  StoredOnce
  OneRunIsWhole
  RightLine
  PaidOnce
  LessMeansFinal
  CompleteMeansComplete
  ErrorsAreReal
PROPERTIES
  CloseDrains
  FileJobsGetASlot
  AbandonedJobEnds
  RecordKeepsAll
  NoUnpaidFetch
CHECK_DEADLOCK FALSE
