SPECIFICATION Spec
CONSTANTS
  Sessions = {a, b}
  Requests = {p, q}
  MaxSources = 4
  MaxEvictions = 1
  MaxReaps = 0
  MaxBlips = 0
INVARIANTS
  NotFoundIsReal
