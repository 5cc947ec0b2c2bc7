SPECIFICATION MC_HostSpec
CONSTANTS
  None = None
  Peer = {p1}
  Secret = {s1}
  Request = {r1, r2, r3}
  Node = {n1, n2}
  HostRequest = {q1, q2}
  Caller = {c1, c2, c3}
  MaxRetries = 5
  Archive = {a1, a2}
  WithSessions = {a1}
  Text = {t1, t2}
  Session = {x1}
  Editor = {e1, e2}
  MaxRevision = 2
  Ip = {i1, i2}
  User = {u1, u2}
  Password = {w1, w2}
  MaxFailures = 5
  MaxEntries = 2
  MaxSecrets = 3
  o1 = o1
  o2 = o2
  o3 = o3
  b1 = b1
  b2 = b2
  MaxEvents = 3
  MaxExports = 1
  Object = {o1, o2, o3}
  Batch = {b1, b2}
  Needs <- MC_Needs
  FirstLogs <- MC_FirstLogs
  RouterNode = {n3}
  Slug <- MC_Slug
  Remote <- MC_Remote
  Writer = {k1, k2}
  Word = {"x", "y"}
  Given <- MC_Given
  MaxMs = 1
  Collation <- MC_Collation
  Size = {1, 3, 4}
  MaxBytes = 395
  MaxRecords = 1
SYMMETRY MC_Symmetry
CHECK_DEADLOCK FALSE
INVARIANTS
  HostTypeOK
  ScheduleSettles
  MC_LivePeerHasSecret
  ListedKeepsKeys
  OneHandshake
  HalfAppliedIsJournalled
  GuessesBounded
  RotationRevokes
  PendingHasObjects
  AppliedAsPlanned
  RunsWhereBound
  WholeOverSsh
  ExportsImport
PROPERTIES
  RemovedStaysGone
  OnlyItsOwn
  FrozenSnapshot
  EditsSeen
