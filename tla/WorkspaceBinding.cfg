SPECIFICATION Spec
CONSTANTS
  Node = {n1}
  Slug = {work, play}
  Remote = {d1, d2}
  Request = {r1, r2}
  Idle = Idle
  MaxReturns = 1
SYMMETRY MC_Symmetry
INVARIANTS UniqueMirror
PROPERTIES NoBindingWhilePending ImportLandsOnNode CleanupSparesActive
