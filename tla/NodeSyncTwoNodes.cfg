SPECIFICATION Spec
CONSTANTS
  Instance = {1, 2}
  MaxCounter = 3
  n1 = n1
  n2 = n2
  Origin = {n1, n2}
  Home <- MC_Home2
  AuthKind = {password}
  Absent = Absent
  NoSecret = NoSecret
  NoRecord = NoRecord
  Tombstone = Tombstone
  MaxTime = 1
  MaxEdits = 3
  MaxFaults = 1
INVARIANTS UniqueRevision OwnOriginRecorded LiveRecordHasNode
PROPERTIES DeletedMeansGone
