SPECIFICATION Spec
CONSTANTS
  s1 = s1
  Instance = {0, 1}
  Session = {s1}
  Home <- MC_Home
  Marked = {}
  Link <- MC_Both
  MaxCounter = 6
  MaxLength = 1
  MaxChanges = 3
  MaxStops = 1
INVARIANTS Restorable RevisionsAgree
PROPERTIES LoserKept LogsOnlyGrow ImplementsLwwStore
CHECK_DEADLOCK FALSE
