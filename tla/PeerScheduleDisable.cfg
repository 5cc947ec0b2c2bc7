SPECIFICATION MC_Spec
CONSTANTS
  Peer = {p1}
  Secret = {s1}
  Request = {r1, r2}
  None = None
SYMMETRY MC_Symmetry
CHECK_DEADLOCK FALSE
PROPERTIES DisabledStaysOff
