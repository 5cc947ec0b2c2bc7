SPECIFICATION FairSpec
CONSTANTS
  Instance = {1, 2, 3}
  MaxCounter = 20
  n1 = n1
  n2 = n2
  Origin = {n1}
  Home <- MC_Home1
  AuthKind = {password, key}
  Absent = Absent
  NoSecret = NoSecret
  NoRecord = NoRecord
  Tombstone = Tombstone
  MaxTime = 0
  MaxEdits = 3
  MaxFaults = 0
PROPERTIES Convergence ImplementsLwwStore
