SPECIFICATION Spec
CONSTANTS
  Sessions = {a, b}
  Requests = {p, q}
  MaxSources = 8
  MaxEvictions = 1
  MaxReaps = 1
  MaxBlips = 1
SYMMETRY MCSymmetry
INVARIANTS
  SwapsBounded
  ReplacedIsRetired
