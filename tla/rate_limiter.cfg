CONSTANTS
  c1 = c1  c2 = c2  c3 = c3  c4 = c4  c5 = c5
  host = host  none = none
  Calls = {c1, c2, c3, c4, c5}
  HostOf <- MCHostOf
  NoClient = none
  Unknown = unknown
  Limit = 2
  Window = 3
  MaxDelay = 1
  MaxTime = 7
SYMMETRY MCSymmetry
SPECIFICATION Spec
INVARIANTS TypeOK WindowRespected RefusalsAreEarned
CHECK_DEADLOCK FALSE
