SPECIFICATION FairSpec
CONSTANTS
  Sessions = {a, b}
  Requests = {p, q}
  MaxSources = 5
  MaxEvictions = 0
  MaxReaps = 1
  MaxBlips = 0
PROPERTIES
  MovesToLive
