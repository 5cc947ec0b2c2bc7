--------------------------- MODULE NodeSyncProofs ---------------------------
(***************************************************************************)
(* Proofs about NodeSync for any number of instances and nodes, any bounds *)
(* and any pattern of interrupted operations.                              *)
(*                                                                         *)
(* The inductive invariant joins the type invariant and five facts.  What  *)
(* makes UniqueRevision inductive is IssuedIsCovered: a new revision is    *)
(* strictly after its writer's clock, everything the writer ever issued is *)
(* not, so nothing anywhere bears the new revision.                        *)
(*                                                                         *)
(* As long as no operation is interrupted, more holds: a record that is no *)
(* tombstone has its node, and NodeSync implements the last-writer-wins    *)
(* store.  A step writes locally, adopts an entry, or leaves the versions  *)
(* alone; what makes a local write newer than what it replaces is that the *)
(* clock covers every record the instance holds, its own and adopted ones: *)
(* that is what an interrupted import breaks.                              *)
(***************************************************************************)
EXTENDS NodeSyncRefinement, HlcProofs, FiniteSetTheorems

(* A node or a record away from home was exported from home first. *)
ForeignKnown ==
  \A i \in Instance, o \in Origin :
    i # Home[o] /\ (node[i][o] # Absent \/ Recorded(i, o)) => Recorded(Home[o], o)

(* A completed deletion has taken the profile. *)
RemovedIsAbsent ==
  \A i \in Instance, o \in Origin : Removed(i, o) => node[i][o] = Absent

IndInv ==
  /\ TypeOK
  /\ IssuedIsCovered
  /\ UniqueRevision
  /\ OwnOriginRecorded
  /\ ForeignKnown
  /\ RemovedIsAbsent

-----------------------------------------------------------------------------
(* Shapes *)

LEMMA NowIsNat == ASSUME NEW now \in Time PROVE now \in Nat
BY BoundAssumption DEF Time

LEMMA StampIsRevision ==
  ASSUME NEW c \in Clock, NEW i \in Instance
  PROVE  Stamp(c, i) \in Revision
BY DEF Stamp, Clock, Revision

LEMMA MergeClockType ==
  ASSUME NEW c \in Clock, NEW d \in Clock
  PROVE  /\ MergeClock(c, d) \in Clock
         /\ Covers(MergeClock(c, d), c)
         /\ Covers(MergeClock(c, d), d)
BY DEF MergeClock, Covers, Clock

LEMMA ShareableType ==
  ASSUME NEW k \in AuthKind, NEW s \in AuthKind \cup {NoSecret}
  PROVE  Shareable(k, s) \in AuthKind \cup {NoSecret}
BY DEF Shareable

(* What a present node is exported as is a content. *)
LEMMA ContentOfType ==
  ASSUME TypeOK, NEW i \in Instance, NEW o \in Origin, node[i][o] # Absent
  PROVE  ContentOf(i, o) \in Content
<1>1. node[i][o] \in AuthKind /\ secret[i][o] \in AuthKind \cup {NoSecret}
  BY DEF TypeOK
<1>2. QED
  BY <1>1, ShareableType DEF ContentOf, Content

LEMMA EntryOfType ==
  ASSUME NEW o \in Origin, NEW r \in Record
  PROVE  EntryOf(o, r) \in Entry
BY DEF EntryOf, Record, Entry

LEMMA AdoptedType ==
  ASSUME NEW e \in Entry, NEW p \in BOOLEAN
  PROVE  /\ Adopted(e, p) \in Record
         /\ EntryOf(e.origin, Adopted(e, p)) = e
BY DEF EntryOf, Record, Entry, Adopted

(* A version is exported or it is what some instance's record says. *)
LEMMA VersionsIff ==
  ASSUME NEW v
  PROVE  v \in Versions <=>
           \/ v \in published
           \/ \E i \in Instance, o \in Origin :
                Recorded(i, o) /\ v = EntryOf(o, record[i][o])
BY DEF Versions, Held, HeldBy

(* The same of the next state. *)
LEMMA VersionsIffNext ==
  ASSUME NEW v
  PROVE  v \in Versions' <=>
           \/ v \in published'
           \/ \E i \in Instance, o \in Origin :
                Recorded(i, o)' /\ v = EntryOf(o, record'[i][o])
BY DEF Versions, Held, HeldBy

LEMMA VersionsType ==
  ASSUME TypeOK PROVE Versions \subseteq Entry
<1> SUFFICES ASSUME NEW v \in Versions PROVE v \in Entry
  OBVIOUS
<1>1. CASE v \in published
  BY <1>1 DEF TypeOK
<1>2. ASSUME NEW i \in Instance, NEW o \in Origin, Recorded(i, o),
             v = EntryOf(o, record[i][o])
      PROVE  v \in Entry
  <2>1. record[i][o] \in Record
    BY <1>2 DEF TypeOK, Recorded
  <2>2. QED
    BY <1>2, <2>1, EntryOfType
<1>3. QED
  BY <1>1, <1>2, VersionsIff

LEMMA ChangedFinite ==
  ASSUME NEW i \in Instance
  PROVE  /\ Cardinality(Changed(i)) \in Nat
         /\ Changed(i) \subseteq Exportable(i)
         /\ Exportable(i) \subseteq Origin
<1>1. Changed(i) \subseteq Exportable(i) /\ Exportable(i) \subseteq Origin
  BY DEF Changed, Exportable
<1>2. IsFiniteSet(Changed(i))
  BY <1>1, FS_Subset, OriginAssumption
<1>3. QED
  BY <1>1, <1>2, FS_CardinalityType

-----------------------------------------------------------------------------
(* Steps *)

(* No clock goes back. *)
ClocksAdvance == \A j \in Instance : Covers(clock'[j], clock[j])

(* No record is forgotten. *)
RecordsKept ==
  \A j \in Instance, p \in Origin : Recorded(j, p) => Recorded(j, p)'

(* A step whose new versions all bear revisions of one writer, past the    *)
(* clock the writer had and not past the one it has now, at most one for   *)
(* each node, keeps both facts about revisions.                            *)
LEMMA FreshVersions ==
  ASSUME TypeOK, IssuedIsCovered, UniqueRevision,
         clock' \in [Instance -> Clock], ClocksAdvance,
         NEW i \in Instance,
         \A v \in Versions' \ Versions :
           /\ v \in Entry /\ v.rev.w = i
           /\ ~Covers(clock[i], v.rev) /\ Covers(clock'[i], v.rev),
         \A v, x \in Versions' \ Versions : v.origin = x.origin => v = x
  PROVE  IssuedIsCovered' /\ UniqueRevision'
<1>1. \A v \in Versions : v \in Entry /\ v.rev \in Revision /\ v.rev.w \in Instance
  BY VersionsType DEF Entry, Revision
<1>2. ASSUME NEW v \in Versions' PROVE Covers(clock'[v.rev.w], v.rev)
  <2>1. CASE v \in Versions
    <3>1. Covers(clock[v.rev.w], v.rev) /\ Covers(clock'[v.rev.w], clock[v.rev.w])
      BY <2>1, <1>1 DEF IssuedIsCovered, ClocksAdvance
    <3>2. clock[v.rev.w] \in Clock /\ clock'[v.rev.w] \in Clock
      BY <2>1, <1>1 DEF TypeOK
    <3>3. QED
      BY <2>1, <3>1, <3>2, <1>1, CoversTransitive
  <2>2. CASE v \notin Versions
    BY <2>2
  <2>3. QED
    BY <2>1, <2>2
<1>3. ASSUME NEW v \in Versions', NEW x \in Versions',
             v.origin = x.origin, v.rev = x.rev
      PROVE  v.version = x.version
  <2>1. CASE v \in Versions /\ x \in Versions
    BY <1>3, <2>1 DEF UniqueRevision
  <2>2. CASE v \notin Versions /\ x \notin Versions
    BY <1>3, <2>2
  <2>3. CASE v \in Versions /\ x \notin Versions
    BY <1>3, <2>3 DEF IssuedIsCovered
  <2>4. CASE v \notin Versions /\ x \in Versions
    BY <1>3, <2>4 DEF IssuedIsCovered
  <2>5. QED
    BY <2>1, <2>2, <2>3, <2>4
<1>4. QED
  BY <1>2, <1>3 DEF IssuedIsCovered, UniqueRevision

(* A step that only moves versions about keeps them, too. *)
LEMMA NoNewVersions ==
  ASSUME TypeOK, IssuedIsCovered, UniqueRevision,
         clock' \in [Instance -> Clock], ClocksAdvance,
         Versions' \subseteq Versions
  PROVE  IssuedIsCovered' /\ UniqueRevision'
<1>1. CASE Instance = {}
  <2>1. \A v \in Versions : FALSE
    BY <1>1, VersionsType DEF Entry, Revision
  <2>2. QED
    BY <2>1 DEF IssuedIsCovered, UniqueRevision
<1>2. CASE Instance # {}
  <2>1. PICK i \in Instance : TRUE
    BY <1>2
  <2>2. QED
    BY <2>1, FreshVersions
<1>3. QED
  BY <1>1, <1>2

(* A step that leaves records, clocks and manifests alone. *)
LEMMA VersionsUntouched ==
  ASSUME TypeOK, IssuedIsCovered, UniqueRevision, OwnOriginRecorded,
         UNCHANGED <<record, clock, published>>
  PROVE  /\ IssuedIsCovered' /\ UniqueRevision' /\ OwnOriginRecorded'
         /\ ClocksAdvance
<1>1. clock \in [Instance -> Clock]
  BY DEF TypeOK
<1>2. ClocksAdvance
  BY <1>1, CoversReflexive DEF ClocksAdvance
<1>3. Versions' = Versions
  BY DEF Versions, Held, HeldBy, Recorded
<1>4. QED
  BY <1>1, <1>2, <1>3, NoNewVersions DEF OwnOriginRecorded, Recorded

(* A clock moved on by one instance. *)
LEMMA ClockMoves ==
  ASSUME TypeOK, NEW i \in Instance, NEW c \in Clock, Covers(c, clock[i]),
         clock' = [clock EXCEPT ![i] = c]
  PROVE  clock' \in [Instance -> Clock] /\ ClocksAdvance
<1>1. clock \in [Instance -> Clock]
  BY DEF TypeOK
<1>2. QED
  BY <1>1, CoversReflexive DEF ClocksAdvance

(* The only record that changes is that of o at i, to r. *)
OnlyRecord(i, o, r) ==
  /\ record' \in [Instance -> [Origin -> Record \cup {NoRecord}]]
  /\ record'[i][o] = r
  /\ \A j \in Instance, p \in Origin :
       j # i \/ p # o => record'[j][p] = record[j][p]

(* Nodes and records appear away from home only when home has a record. *)
LEMMA ForeignKnownKept ==
  ASSUME ForeignKnown, RecordsKept,
         \A j \in Instance, p \in Origin :
           node'[j][p] # Absent \/ Recorded(j, p)' =>
             node[j][p] # Absent \/ Recorded(j, p) \/ Recorded(Home[p], p)
  PROVE  ForeignKnown'
BY OriginAssumption DEF ForeignKnown, RecordsKept

(* What stays gone after a step is absent after it. *)
LEMMA GoneIsAbsent == StaysGone => RemovedIsAbsent'
BY DEF StaysGone, RemovedIsAbsent

(* A deletion that had completed, with its profile and credentials alone.  *)
LEMMA StillGone ==
  ASSUME IndInv, NEW j \in Instance, NEW p \in Origin, Removed(j, p)',
         record'[j][p] = record[j][p], node'[j][p] = node[j][p],
         secret'[j][p] = secret[j][p]
  PROVE  /\ node'[j][p] = Absent
         /\ Removed(j, p) /\ secret'[j][p] \in patch[j][p] \cup {secret[j][p]}
BY DEF IndInv, RemovedIsAbsent, Removed, Deleted, Recorded

(* Each deletion that is complete after the step has taken everything, or  *)
(* was complete before and is not touched.                                 *)
LEMMA GoneByCases ==
  ASSUME IndInv,
         \A j \in Instance, p \in Origin : Removed(j, p)' =>
           \/ node'[j][p] = Absent /\ secret'[j][p] = NoSecret
           \/ /\ record'[j][p] = record[j][p] /\ node'[j][p] = node[j][p]
              /\ secret'[j][p] = secret[j][p]
  PROVE  StaysGone
BY StillGone DEF StaysGone

(* A step that leaves deletions and credentials alone, and edits only      *)
(* nodes that are there.                                                   *)
LEMMA GoneUntouched ==
  ASSUME IndInv, UNCHANGED <<record, secret>>,
         \A j \in Instance, p \in Origin :
           node[j][p] = Absent /\ Recorded(j, p) => node'[j][p] = Absent
  PROVE  StaysGone
<1> SUFFICES ASSUME NEW j \in Instance, NEW p \in Origin, Removed(j, p)'
             PROVE  node'[j][p] = Absent /\ Removed(j, p) /\ secret'[j][p] = secret[j][p]
  BY DEF StaysGone
<1>1. Removed(j, p) /\ Recorded(j, p)
  BY DEF Removed, Deleted, Recorded
<1>2. QED
  BY <1>1 DEF IndInv, RemovedIsAbsent

-----------------------------------------------------------------------------
(* What users do *)

LEMMA CreateNodeKeeps ==
  ASSUME IndInv, NEW i \in Instance, NEW o \in Origin, NEW k \in AuthKind,
         NEW s \in AuthKind \cup {NoSecret}, CreateNode(i, o, k, s)
  PROVE  IndInv' /\ ClocksAdvance /\ StaysGone
<1>1. TypeOK'
  BY BoundAssumption DEF IndInv, TypeOK, CreateNode, workspaces
<1>2. ForeignKnown'
  BY DEF IndInv, TypeOK, ForeignKnown, Recorded, CreateNode
<1>3. StaysGone
  <2> SUFFICES ASSUME NEW j \in Instance, NEW p \in Origin, Removed(j, p)'
               PROVE  /\ node'[j][p] = Absent
                      /\ Removed(j, p) /\ secret'[j][p] \in patch[j][p] \cup {secret[j][p]}
    BY DEF StaysGone
  <2>1. j # i \/ p # o
    BY DEF CreateNode, Removed, Deleted, Recorded
  <2>2. /\ record'[j][p] = record[j][p] /\ node'[j][p] = node[j][p]
        /\ secret'[j][p] = secret[j][p]
    BY <2>1 DEF IndInv, TypeOK, CreateNode
  <2>3. QED
    BY <2>2, StillGone
<1>4. QED
  BY <1>1, <1>2, <1>3, GoneIsAbsent, VersionsUntouched DEF IndInv, CreateNode

LEMMA EditNodeKeeps ==
  ASSUME IndInv, NEW i \in Instance, NEW o \in Origin, NEW k \in AuthKind,
         NEW s \in AuthKind \cup {NoSecret}, EditNode(i, o, k, s)
  PROVE  IndInv' /\ ClocksAdvance /\ StaysGone
<1>1. TypeOK'
  <2>1. patch[i][o] \cup ({s} \ {NoSecret}) \in SUBSET AuthKind
    BY DEF IndInv, TypeOK
  <2>2. patch' \in [Instance -> [Origin -> SUBSET AuthKind]]
    BY <2>1 DEF IndInv, TypeOK, EditNode
  <2>3. QED
    BY <2>2, BoundAssumption DEF IndInv, TypeOK, EditNode, workspaces
<1>2. ForeignKnown'
  BY DEF IndInv, TypeOK, ForeignKnown, Recorded, EditNode
<1>3. \A j \in Instance, p \in Origin : node[j][p] = Absent => node'[j][p] = Absent
  BY DEF IndInv, TypeOK, EditNode
<1>4. StaysGone
  BY <1>3, GoneUntouched DEF EditNode
<1>5. QED
  BY <1>1, <1>2, <1>4, GoneIsAbsent, VersionsUntouched DEF IndInv, EditNode

(* A waiting PATCH is the one thing that brings credentials back.          *)
LEMMA EndPatchKeeps ==
  ASSUME IndInv, NEW i \in Instance, NEW o \in Origin, NEW s \in AuthKind,
         EndPatch(i, o, s)
  PROVE  IndInv' /\ ClocksAdvance /\ StaysGone
<1>1. /\ secret' \in [Instance -> [Origin -> AuthKind \cup {NoSecret}]]
      /\ \A j \in Instance, p \in Origin :
           secret'[j][p] \in patch[j][p] \cup {secret[j][p]}
  <2>1. CASE secret' = secret
    BY <2>1 DEF IndInv, TypeOK
  <2>2. CASE secret' = [secret EXCEPT ![i][o] = s]
    BY <2>2 DEF IndInv, TypeOK, EndPatch
  <2>3. QED
    BY <2>1, <2>2 DEF EndPatch
<1>2. TypeOK'
  <2>1. patch[i][o] \ {s} \in SUBSET AuthKind
    BY DEF IndInv, TypeOK
  <2>2. patch' \in [Instance -> [Origin -> SUBSET AuthKind]]
    BY <2>1 DEF IndInv, TypeOK, EndPatch
  <2>3. QED
    BY <1>1, <2>2 DEF IndInv, TypeOK, EndPatch, workspaces
<1>3. ForeignKnown'
  BY DEF IndInv, ForeignKnown, Recorded, EndPatch
<1>4. StaysGone
  <2> SUFFICES ASSUME NEW j \in Instance, NEW p \in Origin, Removed(j, p)'
               PROVE  node'[j][p] = Absent /\ Removed(j, p)
    BY <1>1 DEF StaysGone
  <2>1. Removed(j, p) /\ node' = node
    BY DEF Removed, Deleted, Recorded, EndPatch
  <2>2. QED
    BY <2>1 DEF IndInv, RemovedIsAbsent
<1>5. QED
  BY <1>2, <1>3, <1>4, GoneIsAbsent, VersionsUntouched DEF IndInv, EndPatch

(* Workspaces touch neither nodes nor records.                             *)
LEMMA WorkspaceKeeps ==
  ASSUME IndInv, NEW i \in Instance, NEW o \in Origin,
         BindWorkspace(i, o) \/ OpenWorkspace(i, o) \/ CloseWorkspace(i, o)
  PROVE  IndInv' /\ ClocksAdvance /\ StaysGone
<1>1. /\ UNCHANGED <<node, secret, patch, record, clock, published, faults>>
      /\ bound' \in [Instance -> SUBSET Origin] /\ inUse' \in [Instance -> SUBSET Origin]
      /\ edits' \in 0 .. MaxEdits
  <2>1. CASE BindWorkspace(i, o)
    BY <2>1, BoundAssumption DEF IndInv, TypeOK, BindWorkspace, profiles
  <2>2. CASE OpenWorkspace(i, o)
    BY <2>2 DEF IndInv, TypeOK, OpenWorkspace, profiles
  <2>3. CASE CloseWorkspace(i, o)
    BY <2>3 DEF IndInv, TypeOK, CloseWorkspace, profiles
  <2>4. QED
    BY <2>1, <2>2, <2>3
<1>2. TypeOK'
  BY <1>1 DEF IndInv, TypeOK
<1>3. ForeignKnown'
  BY <1>1 DEF IndInv, ForeignKnown, Recorded
<1>4. StaysGone
  BY <1>1, GoneUntouched
<1>5. QED
  BY <1>1, <1>2, <1>3, <1>4, GoneIsAbsent, VersionsUntouched DEF IndInv

(* The tombstone of a local deletion is a record. *)
LEMMA LocalTombstoneType ==
  ASSUME TypeOK, NEW i \in Instance, NEW now \in Time, TickFits(clock[i], now)
  PROVE  \A p \in BOOLEAN :
           [rev |-> Stamp(Tick(clock[i], now), i), version |-> Tombstone, pending |-> p]
             \in Record
<1>1. clock[i] \in Clock /\ now \in Nat
  BY NowIsNat DEF TypeOK
<1>2. Stamp(Tick(clock[i], now), i) \in Revision
  BY <1>1, TickAdvances, StampIsRevision
<1>3. QED
  BY <1>2 DEF Record, Version

(* The tombstone of a local deletion bears the revision the clock ticks    *)
(* to, whether the deletion is carried through or interrupted.             *)
LEMMA LocalTombstoneKeeps ==
  ASSUME IndInv, NEW i \in Instance, NEW o \in Origin, NEW now \in Time,
         TickFits(clock[i], now), node[i][o] # Absent,
         NEW r \in Record, r.rev = Stamp(Tick(clock[i], now), i),
         clock' = [clock EXCEPT ![i] = Tick(clock[i], now)],
         record' = [record EXCEPT ![i][o] = r],
         NEW n \in AuthKind \cup {Absent}, NEW s \in AuthKind \cup {NoSecret},
         node' = [node EXCEPT ![i][o] = n], secret' = [secret EXCEPT ![i][o] = s],
         ~r.pending => n = Absent /\ s = NoSecret,
         UNCHANGED <<patch, workspaces, published>>,
         edits' \in 0 .. MaxEdits, faults' \in 0 .. MaxFaults
  PROVE  IndInv' /\ ClocksAdvance /\ StaysGone
<1> DEFINE c == Tick(clock[i], now)
<1>1. clock[i] \in Clock /\ now \in Nat
  BY NowIsNat DEF IndInv, TypeOK
<1>2. c \in Clock /\ Covers(c, clock[i]) /\ ~Covers(clock[i], c)
  BY <1>1, TickAdvances
<1> HIDE DEF c
<1>3. clock' = [clock EXCEPT ![i] = c] /\ r.rev = Stamp(c, i)
  BY DEF c
<1>4. clock' \in [Instance -> Clock] /\ ClocksAdvance
  BY <1>2, <1>3, ClockMoves DEF IndInv
<1>5. r # NoRecord
  BY ValueAssumption
<1>6. OnlyRecord(i, o, r)
  BY DEF IndInv, TypeOK, OnlyRecord
<1>7. /\ node' \in [Instance -> [Origin -> AuthKind \cup {Absent}]]
      /\ secret' \in [Instance -> [Origin -> AuthKind \cup {NoSecret}]]
      /\ node'[i][o] = n /\ secret'[i][o] = s
      /\ \A j \in Instance, p \in Origin : j # i \/ p # o =>
           node'[j][p] = node[j][p] /\ secret'[j][p] = secret[j][p]
  BY DEF IndInv, TypeOK
<1>8. TypeOK'
  BY <1>4, <1>6, <1>7 DEF IndInv, TypeOK, OnlyRecord, workspaces
<1>9. RecordsKept
  BY <1>5, <1>6 DEF RecordsKept, Recorded, OnlyRecord
<1>10. \A v \in Versions' \ Versions : v = EntryOf(o, r)
  <2> SUFFICES ASSUME NEW v, v \in Versions', v \notin Versions
               PROVE  v = EntryOf(o, r)
    OBVIOUS
  <2>1. PICK j \in Instance, p \in Origin :
          Recorded(j, p)' /\ v = EntryOf(p, record'[j][p])
    BY VersionsIff, VersionsIffNext
  <2>2. j = i /\ p = o
    BY <1>6, <2>1, VersionsIff DEF Recorded, OnlyRecord
  <2>3. QED
    BY <1>6, <2>1, <2>2 DEF OnlyRecord
<1>11. LET v == EntryOf(o, r)
       IN  /\ v \in Entry /\ v.rev.w = i
           /\ ~Covers(clock[i], v.rev) /\ Covers(clock'[i], v.rev)
  <2>1. EntryOf(o, r) \in Entry /\ EntryOf(o, r).rev = Stamp(c, i)
    BY <1>3, EntryOfType DEF EntryOf
  <2>2. clock'[i] = c
    BY <1>3 DEF IndInv, TypeOK
  <2>3. QED
    BY <1>1, <1>2, <2>1, <2>2 DEF Covers, Stamp, Clock
<1>12. IssuedIsCovered' /\ UniqueRevision'
  <2>1. IssuedIsCovered /\ UniqueRevision /\ TypeOK
    BY DEF IndInv
  <2>2. QED
    BY <1>4, <1>10, <1>11, <2>1, FreshVersions
<1>13. OwnOriginRecorded'
  BY <1>9, OriginAssumption DEF IndInv, TypeOK, Entry, OwnOriginRecorded, RecordsKept
<1>14. ForeignKnown'
  <2>1. \A j \in Instance, p \in Origin :
          node'[j][p] # Absent \/ Recorded(j, p)' =>
            node[j][p] # Absent \/ Recorded(j, p) \/ Recorded(Home[p], p)
    BY <1>6, <1>7 DEF Recorded, OnlyRecord
  <2>2. QED
    BY <1>9, <2>1, ForeignKnownKept DEF IndInv
<1>15. StaysGone
  <2> SUFFICES ASSUME NEW j \in Instance, NEW p \in Origin, Removed(j, p)'
               PROVE  \/ node'[j][p] = Absent /\ secret'[j][p] = NoSecret
                      \/ /\ record'[j][p] = record[j][p] /\ node'[j][p] = node[j][p]
                         /\ secret'[j][p] = secret[j][p]
    BY GoneByCases
  <2>1. CASE j = i /\ p = o
    BY <1>6, <1>7, <2>1 DEF OnlyRecord, Removed
  <2>2. CASE j # i \/ p # o
    BY <1>6, <1>7, <2>2 DEF OnlyRecord
  <2>3. QED
    BY <2>1, <2>2
<1>16. QED
  BY <1>4, <1>8, <1>12, <1>13, <1>14, <1>15, GoneIsAbsent DEF IndInv

LEMMA RemoveLocalKeeps ==
  ASSUME IndInv, NEW i \in Instance, NEW o \in Origin, NEW now \in Time,
         RemoveLocal(i, o, now)
  PROVE  IndInv' /\ ClocksAdvance /\ StaysGone
<1> DEFINE r == [rev |-> Stamp(Tick(clock[i], now), i), version |-> Tombstone,
                 pending |-> FALSE]
<1>1. r \in Record /\ r.rev = Stamp(Tick(clock[i], now), i)
  BY LocalTombstoneType DEF IndInv, RemoveLocal
<1>2. record' = [record EXCEPT ![i][o] = r]
  BY DEF RemoveLocal
<1> HIDE DEF r
<1>3. edits' \in 0 .. MaxEdits /\ faults' \in 0 .. MaxFaults
  BY BoundAssumption DEF IndInv, TypeOK, RemoveLocal
<1>4. QED
  BY <1>1, <1>2, <1>3, LocalTombstoneKeeps DEF RemoveLocal

LEMMA RemoveLocalInterruptedKeeps ==
  ASSUME IndInv, NEW i \in Instance, NEW o \in Origin, NEW now \in Time,
         RemoveLocalInterrupted(i, o, now)
  PROVE  IndInv' /\ ClocksAdvance /\ StaysGone
<1> DEFINE r == [rev |-> Stamp(Tick(clock[i], now), i), version |-> Tombstone,
                 pending |-> TRUE]
<1>1. r \in Record /\ r.rev = Stamp(Tick(clock[i], now), i) /\ r.pending
  BY LocalTombstoneType DEF IndInv, RemoveLocalInterrupted
<1>2. record' = [record EXCEPT ![i][o] = r]
  BY DEF RemoveLocalInterrupted
<1> HIDE DEF r
<1>3. edits' \in 0 .. MaxEdits /\ faults' \in 0 .. MaxFaults
  BY BoundAssumption DEF IndInv, TypeOK, RemoveLocalInterrupted
<1>4. PICK n \in AuthKind \cup {Absent}, s \in AuthKind \cup {NoSecret} :
        /\ node' = [node EXCEPT ![i][o] = n]
        /\ secret' = [secret EXCEPT ![i][o] = s]
  <2>1. /\ node = [node EXCEPT ![i][o] = node[i][o]]
        /\ secret = [secret EXCEPT ![i][o] = secret[i][o]]
        /\ node[i][o] \in AuthKind \cup {Absent}
        /\ secret[i][o] \in AuthKind \cup {NoSecret}
    BY DEF IndInv, TypeOK
  <2>2. CASE UNCHANGED <<node, secret>>
    BY <2>1, <2>2
  <2>3. CASE node' = [node EXCEPT ![i][o] = Absent] /\ UNCHANGED secret
    BY <2>1, <2>3
  <2>4. CASE node' = [node EXCEPT ![i][o] = Absent] /\ secret' = [secret EXCEPT ![i][o] = NoSecret]
    BY <2>1, <2>4
  <2>5. QED
    BY <2>2, <2>3, <2>4 DEF RemoveLocalInterrupted
<1>5. /\ TickFits(clock[i], now) /\ node[i][o] # Absent /\ UNCHANGED <<patch, workspaces, published>>
      /\ clock' = [clock EXCEPT ![i] = Tick(clock[i], now)]
  BY DEF RemoveLocalInterrupted
<1>6. QED
  BY <1>1, <1>2, <1>3, <1>4, <1>5, LocalTombstoneKeeps

(* A removal that fails has used up a revision and left the record alone. *)
LEMMA RemoveLocalFailsKeeps ==
  ASSUME IndInv, NEW i \in Instance, NEW o \in Origin, NEW now \in Time,
         RemoveLocalFails(i, o, now)
  PROVE  IndInv' /\ ClocksAdvance /\ StaysGone
<1>1. clock[i] \in Clock /\ now \in Nat /\ TickFits(clock[i], now)
  BY NowIsNat DEF IndInv, TypeOK, RemoveLocalFails
<1>2. Tick(clock[i], now) \in Clock /\ Covers(Tick(clock[i], now), clock[i])
  BY <1>1, TickAdvances
<1>3. clock' \in [Instance -> Clock] /\ ClocksAdvance
  BY <1>2, ClockMoves DEF IndInv, RemoveLocalFails
<1> DEFINE Nodes == [Instance -> [Origin -> AuthKind \cup {Absent}]]
<1>4. /\ node \in Nodes /\ node' \in Nodes
      /\ \A j \in Instance, p \in Origin :
           node'[j][p] = node[j][p] \/ (j = i /\ p = o /\ node'[j][p] = Absent)
  <2>1. node \in Nodes
    BY DEF IndInv, TypeOK
  <2>2. CASE UNCHANGED node
    BY <2>1, <2>2
  <2>3. CASE node' = [node EXCEPT ![i][o] = Absent]
    BY <2>1, <2>3
  <2>4. QED
    BY <2>1, <2>2, <2>3 DEF RemoveLocalFails
<1>5. /\ UNCHANGED <<secret, patch, record, bound, inUse, published, edits>>
      /\ faults' \in 0 .. MaxFaults
  BY BoundAssumption DEF IndInv, TypeOK, RemoveLocalFails, workspaces
<1>6. TypeOK'
  BY <1>3, <1>4, <1>5 DEF IndInv, TypeOK
<1>7. IssuedIsCovered' /\ UniqueRevision'
  <2>1. Versions' = Versions
    BY DEF Versions, Held, HeldBy, Recorded, RemoveLocalFails
  <2>2. QED
    BY <1>3, <2>1, NoNewVersions DEF IndInv
<1>8. OwnOriginRecorded'
  BY DEF IndInv, OwnOriginRecorded, Recorded, RemoveLocalFails
<1>9. ForeignKnown'
  BY <1>4, <1>5 DEF IndInv, ForeignKnown, Recorded
<1>10. StaysGone
  <2>1. \A j \in Instance, p \in Origin : node[j][p] = Absent => node'[j][p] = Absent
    BY <1>4
  <2>2. QED
    BY <1>5, <2>1, GoneUntouched
<1>11. QED
  BY <1>3, <1>6, <1>7, <1>8, <1>9, <1>10, GoneIsAbsent DEF IndInv

-----------------------------------------------------------------------------
(* Imports *)

(* Taking an exported entry over as the record of its node. *)
LEMMA AdoptKeeps ==
  ASSUME IndInv, NEW i \in Instance, NEW e \in published, NEW r \in Record,
         EntryOf(e.origin, r) = e,
         clock' \in [Instance -> Clock], ClocksAdvance, UNCHANGED published,
         record' = [record EXCEPT ![i][e.origin] = r]
  PROVE  /\ OnlyRecord(i, e.origin, r) /\ RecordsKept
         /\ Recorded(Home[e.origin], e.origin)
         /\ IssuedIsCovered' /\ UniqueRevision' /\ OwnOriginRecorded'
<1>1. e \in Entry /\ e.origin \in Origin /\ e.rev \in Revision /\ e.version \in Version
  BY DEF IndInv, TypeOK, Entry
<1>2. r # NoRecord
  BY ValueAssumption
<1>3. record' \in [Instance -> [Origin -> Record \cup {NoRecord}]]
  BY <1>1, <1>2 DEF IndInv, TypeOK
<1>4. record'[i][e.origin] = r /\ Recorded(i, e.origin)'
  BY <1>1, <1>2 DEF IndInv, TypeOK, Recorded
<1>5. \A j \in Instance, p \in Origin :
        j # i \/ p # e.origin => record'[j][p] = record[j][p]
  BY <1>1 DEF IndInv, TypeOK
<1>6. RecordsKept
  BY <1>4, <1>5 DEF RecordsKept, Recorded
<1>7. Recorded(Home[e.origin], e.origin)
  BY DEF IndInv, OwnOriginRecorded
<1>8. Versions' \subseteq Versions
  <2> SUFFICES ASSUME NEW v \in Versions', v \notin published
               PROVE  v \in Versions
    BY VersionsIff
  <2>1. PICK j \in Instance, p \in Origin :
          Recorded(j, p)' /\ v = EntryOf(p, record'[j][p])
    BY VersionsIffNext
  <2>2. j # i \/ p # e.origin
    BY <1>2, <1>4, <2>1
  <2>3. QED
    BY <1>5, <2>1, <2>2, VersionsIff DEF Recorded
<1>9. IssuedIsCovered' /\ UniqueRevision'
  BY <1>8, NoNewVersions DEF IndInv
<1>10. OwnOriginRecorded'
  <2> SUFFICES ASSUME NEW f \in published PROVE Recorded(Home[f.origin], f.origin)'
    BY DEF OwnOriginRecorded
  <2>1. f.origin \in Origin /\ Recorded(Home[f.origin], f.origin)
    BY DEF IndInv, TypeOK, Entry, OwnOriginRecorded
  <2>2. QED
    BY <2>1, <1>6, OriginAssumption DEF RecordsKept
<1>11. QED
  BY <1>3, <1>4, <1>5, <1>6, <1>7, <1>9, <1>10 DEF OnlyRecord

(* The clock after an entry has been observed. *)
LEMMA ObservedClock ==
  ASSUME TypeOK, NEW i \in Instance, NEW e \in published, NEW now \in Time,
         ObserveFits(clock[i], e.rev, now),
         clock' = [clock EXCEPT ![i] = MergeClock(@, Observe(@, e.rev, now))]
  PROVE  clock' \in [Instance -> Clock] /\ ClocksAdvance
<1>1. clock[i] \in Clock /\ e.rev \in Revision /\ now \in Nat
  BY NowIsNat DEF TypeOK, Entry
<1>2. Observe(clock[i], e.rev, now) \in Clock
  BY <1>1, ObserveAdvances
<1>3. /\ MergeClock(clock[i], Observe(clock[i], e.rev, now)) \in Clock
      /\ Covers(MergeClock(clock[i], Observe(clock[i], e.rev, now)), clock[i])
  BY <1>1, <1>2, MergeClockType
<1>4. QED
  BY <1>3, ClockMoves

LEMMA ApplyLiveKeeps ==
  ASSUME IndInv, NEW i \in Instance, NEW e \in published, NEW now \in Time,
         ApplyLive(i, e, now)
  PROVE  IndInv' /\ ClocksAdvance /\ StaysGone
<1> DEFINE o == e.origin
<1>1. clock' \in [Instance -> Clock] /\ ClocksAdvance
  BY ObservedClock DEF IndInv, ApplyLive
<1>2. /\ record' = [record EXCEPT ![i][o] = Adopted(e, FALSE)]
      /\ UNCHANGED <<patch, bound, inUse, published, edits, faults>>
      /\ e.version # Tombstone
  BY DEF ApplyLive, workspaces
<1>3. /\ OnlyRecord(i, o, Adopted(e, FALSE)) /\ RecordsKept
      /\ Recorded(Home[o], o) /\ o \in Origin /\ e.version \in Version
      /\ IssuedIsCovered' /\ UniqueRevision' /\ OwnOriginRecorded'
  <2>1. /\ Adopted(e, FALSE) \in Record /\ EntryOf(o, Adopted(e, FALSE)) = e
        /\ o \in Origin /\ e.version \in Version
    BY AdoptedType DEF IndInv, TypeOK, Entry
  <2>2. QED
    BY <1>1, <1>2, <2>1, AdoptKeeps
<1>4. e.version.kind \in AuthKind /\ e.version.secret \in AuthKind \cup {NoSecret}
  BY <1>2, <1>3 DEF Version, Content
<1>5. /\ node' \in [Instance -> [Origin -> AuthKind \cup {Absent}]]
      /\ secret' \in [Instance -> [Origin -> AuthKind \cup {NoSecret}]]
      /\ node'[i][o] # Absent
      /\ \A j \in Instance, p \in Origin : j # i \/ p # o =>
           node'[j][p] = node[j][p] /\ secret'[j][p] = secret[j][p]
  BY <1>3, <1>4, ValueAssumption DEF IndInv, TypeOK, ApplyLive
<1>6. TypeOK'
  BY <1>1, <1>2, <1>3, <1>5 DEF IndInv, TypeOK, OnlyRecord
<1>7. ForeignKnown'
  <2>1. \A j \in Instance, p \in Origin :
          node'[j][p] # Absent \/ Recorded(j, p)' =>
            node[j][p] # Absent \/ Recorded(j, p) \/ Recorded(Home[p], p)
    BY <1>3, <1>5 DEF Recorded, OnlyRecord
  <2>2. QED
    BY <2>1, <1>3, ForeignKnownKept DEF IndInv
<1>8. StaysGone
  <2> SUFFICES ASSUME NEW j \in Instance, NEW p \in Origin, Removed(j, p)'
               PROVE  \/ node'[j][p] = Absent /\ secret'[j][p] = NoSecret
                      \/ /\ record'[j][p] = record[j][p] /\ node'[j][p] = node[j][p]
                         /\ secret'[j][p] = secret[j][p]
    BY GoneByCases
  <2>1. j # i \/ p # o
    BY <1>2, <1>3 DEF Removed, Deleted, Adopted, OnlyRecord
  <2>2. QED
    BY <1>3, <1>5, <2>1 DEF OnlyRecord
<1>9. QED
  BY <1>1, <1>3, <1>6, <1>7, <1>8, GoneIsAbsent DEF IndInv

(* Taking over a tombstone, whether or not the removal is carried out. *)
LEMMA TombstoneKeeps ==
  ASSUME IndInv, NEW i \in Instance, NEW e \in published, NEW r \in Record,
         EntryOf(e.origin, r) = e,
         clock' \in [Instance -> Clock], ClocksAdvance,
         record' = [record EXCEPT ![i][e.origin] = r],
         UNCHANGED <<patch, inUse, published, edits>>, faults' \in 0 .. MaxFaults,
         bound' \in [Instance -> SUBSET Origin],
         NEW n \in AuthKind \cup {Absent}, NEW s \in AuthKind \cup {NoSecret},
         node' = [node EXCEPT ![i][e.origin] = n],
         secret' = [secret EXCEPT ![i][e.origin] = s],
         ~r.pending => n = Absent /\ s = NoSecret
  PROVE  IndInv' /\ ClocksAdvance /\ StaysGone
<1> DEFINE o == e.origin
<1>0. o \in Origin /\ UNCHANGED published
  BY DEF IndInv, TypeOK, Entry
<1>1. /\ OnlyRecord(i, o, r) /\ RecordsKept /\ Recorded(Home[o], o)
      /\ IssuedIsCovered' /\ UniqueRevision' /\ OwnOriginRecorded'
  BY <1>0, AdoptKeeps
<1>2. /\ node' \in [Instance -> [Origin -> AuthKind \cup {Absent}]]
      /\ secret' \in [Instance -> [Origin -> AuthKind \cup {NoSecret}]]
      /\ node'[i][o] = n /\ secret'[i][o] = s
      /\ \A j \in Instance, p \in Origin : j # i \/ p # o =>
           node'[j][p] = node[j][p] /\ secret'[j][p] = secret[j][p]
  BY <1>0 DEF IndInv, TypeOK
<1>3. TypeOK'
  BY <1>0, <1>1, <1>2 DEF IndInv, TypeOK, OnlyRecord
<1>4. ForeignKnown'
  <2>1. \A j \in Instance, p \in Origin :
          node'[j][p] # Absent \/ Recorded(j, p)' =>
            node[j][p] # Absent \/ Recorded(j, p) \/ Recorded(Home[p], p)
    BY <1>1, <1>2 DEF Recorded, OnlyRecord
  <2>2. QED
    BY <2>1, <1>1, ForeignKnownKept DEF IndInv
<1>5. StaysGone
  <2> SUFFICES ASSUME NEW j \in Instance, NEW p \in Origin, Removed(j, p)'
               PROVE  \/ node'[j][p] = Absent /\ secret'[j][p] = NoSecret
                      \/ /\ record'[j][p] = record[j][p] /\ node'[j][p] = node[j][p]
                         /\ secret'[j][p] = secret[j][p]
    BY GoneByCases
  <2>1. CASE j = i /\ p = o
    BY <1>1, <1>2, <2>1 DEF OnlyRecord, Removed
  <2>2. CASE j # i \/ p # o
    BY <1>1, <1>2, <2>2 DEF OnlyRecord
  <2>3. QED
    BY <2>1, <2>2
<1>6. QED
  BY <1>1, <1>3, <1>4, <1>5, GoneIsAbsent DEF IndInv

LEMMA ApplyTombstoneKeeps ==
  ASSUME IndInv, NEW i \in Instance, NEW e \in published, NEW now \in Time,
         ApplyTombstone(i, e, now)
  PROVE  IndInv' /\ ClocksAdvance /\ StaysGone
<1> DEFINE o == e.origin
<1>1. clock' \in [Instance -> Clock] /\ ClocksAdvance
  BY ObservedClock DEF IndInv, ApplyTombstone
<1>2. /\ UNCHANGED <<patch, inUse, published, edits>> /\ faults' \in 0 .. MaxFaults
      /\ o \in Origin /\ node[i][o] \in AuthKind \cup {Absent}
      /\ secret[i][o] \in AuthKind \cup {NoSecret}
      /\ bound' \in [Instance -> SUBSET Origin]
  BY DEF IndInv, TypeOK, Entry, ApplyTombstone
<1>3. CASE o \in inUse[i]
  <2>1. (o \in inUse[i]) = TRUE
    BY <1>3
  <2>2. /\ record' = [record EXCEPT ![i][o] = Adopted(e, TRUE)]
        /\ node' = [node EXCEPT ![i][o] = node[i][o]]
        /\ secret' = [secret EXCEPT ![i][o] = secret[i][o]]
    BY <2>1 DEF ApplyTombstone, Adopted
  <2>3. /\ Adopted(e, TRUE) \in Record /\ EntryOf(o, Adopted(e, TRUE)) = e
        /\ Adopted(e, TRUE).pending
    BY AdoptedType DEF IndInv, TypeOK, Adopted
  <2>4. QED
    BY <1>1, <1>2, <2>2, <2>3, TombstoneKeeps
<1>4. CASE o \notin inUse[i]
  <2>1. (o \in inUse[i]) = FALSE
    BY <1>4
  <2>2. /\ record' = [record EXCEPT ![i][o] = Adopted(e, FALSE)]
        /\ node' = [node EXCEPT ![i][o] = Absent]
        /\ secret' = [secret EXCEPT ![i][o] = NoSecret]
    BY <2>1 DEF ApplyTombstone, Adopted
  <2>3. Adopted(e, FALSE) \in Record /\ EntryOf(o, Adopted(e, FALSE)) = e
    BY AdoptedType DEF IndInv, TypeOK
  <2>4. QED
    BY <1>1, <1>2, <2>2, <2>3, TombstoneKeeps
<1>5. QED
  BY <1>3, <1>4

LEMMA TombstoneInterruptedKeeps ==
  ASSUME IndInv, NEW i \in Instance, NEW e \in published,
         TombstoneInterrupted(i, e)
  PROVE  IndInv' /\ ClocksAdvance /\ StaysGone
<1> DEFINE o == e.origin
<1>1. clock' \in [Instance -> Clock] /\ ClocksAdvance
  BY CoversReflexive DEF IndInv, TypeOK, ClocksAdvance, TombstoneInterrupted
<1>2. /\ UNCHANGED <<patch, inUse, published, edits>> /\ faults' \in 0 .. MaxFaults
      /\ o \in Origin /\ node[i][o] \in AuthKind \cup {Absent}
      /\ secret[i][o] \in AuthKind \cup {NoSecret}
  BY BoundAssumption DEF IndInv, TypeOK, Entry, TombstoneInterrupted
<1>3. record' = [record EXCEPT ![i][o] = Adopted(e, TRUE)]
  BY DEF TombstoneInterrupted
<1>4. /\ bound' \in [Instance -> SUBSET Origin]
      /\ UNCHANGED node \/ node' = [node EXCEPT ![i][o] = Absent]
      /\ UNCHANGED secret \/ secret' = [secret EXCEPT ![i][o] = NoSecret]
  BY DEF IndInv, TypeOK, TombstoneInterrupted
<1>5. PICK n \in AuthKind \cup {Absent}, s \in AuthKind \cup {NoSecret} :
        /\ node' = [node EXCEPT ![i][o] = n]
        /\ secret' = [secret EXCEPT ![i][o] = s]
  <2>1. /\ node = [node EXCEPT ![i][o] = node[i][o]]
        /\ secret = [secret EXCEPT ![i][o] = secret[i][o]]
    BY DEF IndInv, TypeOK
  <2>2. \E n \in AuthKind \cup {Absent} : node' = [node EXCEPT ![i][o] = n]
    BY <1>2, <1>4, <2>1
  <2>3. \E s \in AuthKind \cup {NoSecret} : secret' = [secret EXCEPT ![i][o] = s]
    BY <1>2, <1>4, <2>1
  <2>4. QED
    BY <2>2, <2>3
<1>6. /\ Adopted(e, TRUE) \in Record /\ EntryOf(o, Adopted(e, TRUE)) = e
      /\ Adopted(e, TRUE).pending
  BY AdoptedType DEF IndInv, TypeOK, Adopted
<1>7. QED
  BY <1>1, <1>2, <1>3, <1>4, <1>5, <1>6, TombstoneKeeps

(* An interrupted update changes only the profile and the credentials. *)
LEMMA UpdateInterruptedKeeps ==
  ASSUME IndInv, NEW i \in Instance, NEW e \in published, UpdateInterrupted(i, e)
  PROVE  IndInv' /\ ClocksAdvance /\ StaysGone
<1> DEFINE o == e.origin
<1>1. o \in Origin /\ e.version.kind \in AuthKind /\ e.version.secret \in AuthKind \cup {NoSecret}
  BY DEF IndInv, TypeOK, Entry, Version, Content, UpdateInterrupted
<1>2. /\ secret' \in [Instance -> [Origin -> AuthKind \cup {NoSecret}]]
      /\ \A j \in Instance, p \in Origin : j # i \/ p # o => secret'[j][p] = secret[j][p]
  BY <1>1 DEF IndInv, TypeOK, UpdateInterrupted
<1>3. /\ node' \in [Instance -> [Origin -> AuthKind \cup {Absent}]]
      /\ node[i][o] # Absent /\ node'[i][o] # Absent
      /\ \A j \in Instance, p \in Origin : j # i \/ p # o => node'[j][p] = node[j][p]
  <2>1. node \in [Instance -> [Origin -> AuthKind \cup {Absent}]] /\ node[i][o] # Absent
    BY DEF IndInv, TypeOK, UpdateInterrupted
  <2>2. CASE UNCHANGED node
    BY <2>1, <2>2
  <2>3. CASE node' = [node EXCEPT ![i][o] = e.version.kind]
    BY <1>1, <2>1, <2>3, ValueAssumption
  <2>4. QED
    BY <2>2, <2>3 DEF UpdateInterrupted
<1>4. /\ UNCHANGED <<patch, record, clock, bound, inUse, published, edits>>
      /\ faults' \in 0 .. MaxFaults
  BY BoundAssumption DEF IndInv, TypeOK, UpdateInterrupted, workspaces
<1>5. TypeOK'
  BY <1>2, <1>3, <1>4 DEF IndInv, TypeOK
<1>6. ForeignKnown'
  BY <1>3, <1>4 DEF IndInv, ForeignKnown, Recorded
<1>7. StaysGone
  <2> SUFFICES ASSUME NEW j \in Instance, NEW p \in Origin, Removed(j, p)'
               PROVE  \/ node'[j][p] = Absent /\ secret'[j][p] = NoSecret
                      \/ /\ record'[j][p] = record[j][p] /\ node'[j][p] = node[j][p]
                         /\ secret'[j][p] = secret[j][p]
    BY GoneByCases
  <2>1. Removed(j, p)
    BY <1>4 DEF Removed, Deleted, Recorded
  <2>2. j # i \/ p # o
    BY <1>3, <2>1 DEF IndInv, RemovedIsAbsent
  <2>3. QED
    BY <1>2, <1>3, <1>4, <2>2
<1>8. QED
  BY <1>4, <1>5, <1>6, <1>7, VersionsUntouched, GoneIsAbsent DEF IndInv

LEMMA ReconcileKeeps ==
  ASSUME IndInv, NEW i \in Instance, Reconcile(i)
  PROVE  IndInv' /\ ClocksAdvance /\ StaysGone
<1>1. clock' \in [Instance -> Clock] /\ ClocksAdvance
  BY CoversReflexive DEF IndInv, TypeOK, ClocksAdvance, Reconcile
<1>2. /\ \A j \in Instance, p \in Origin : ~(j = i /\ p \in Removable(i)) =>
           /\ node'[j][p] = node[j][p] /\ secret'[j][p] = secret[j][p]
           /\ record'[j][p] = record[j][p]
      /\ \A p \in Removable(i) :
           /\ node'[i][p] = Absent /\ secret'[i][p] = NoSecret
           /\ record'[i][p] = [record[i][p] EXCEPT !.pending = FALSE]
      /\ UNCHANGED <<patch, inUse, published, edits, faults>>
      /\ bound' \in [Instance -> SUBSET Origin]
  BY DEF IndInv, TypeOK, Reconcile, Removable
<1>3. \A p \in Removable(i) :
        /\ p \in Origin /\ record[i][p] \in Record /\ record'[i][p] \in Record
        /\ EntryOf(p, record'[i][p]) = EntryOf(p, record[i][p])
        /\ Recorded(i, p) /\ Recorded(i, p)'
  <2> SUFFICES ASSUME NEW p \in Removable(i)
               PROVE  /\ p \in Origin /\ record[i][p] \in Record /\ record'[i][p] \in Record
                      /\ EntryOf(p, record'[i][p]) = EntryOf(p, record[i][p])
                      /\ Recorded(i, p) /\ Recorded(i, p)'
    OBVIOUS
  <2>1. p \in Origin /\ Recorded(i, p)
    BY DEF Removable, PendingRemoval, Deleted
  <2>2. record[i][p] \in Record
    BY <2>1 DEF IndInv, TypeOK, Recorded
  <2>3. record'[i][p] \in Record /\ EntryOf(p, record'[i][p]) = EntryOf(p, record[i][p])
    BY <2>2, <1>2 DEF Record, EntryOf
  <2>4. QED
    BY <2>1, <2>2, <2>3, ValueAssumption DEF Recorded
<1>4. TypeOK'
  <2>1. record' \in [Instance -> [Origin -> Record \cup {NoRecord}]]
    <3>1. \A p \in Origin : record'[i][p] \in Record \cup {NoRecord}
      BY <1>2, <1>3 DEF IndInv, TypeOK
    <3>2. record' = [record EXCEPT ![i] = [p \in Origin |-> record'[i][p]]]
      BY DEF IndInv, TypeOK, Reconcile
    <3>3. QED
      BY <3>1, <3>2 DEF IndInv, TypeOK
  <2>2. /\ node' \in [Instance -> [Origin -> AuthKind \cup {Absent}]]
        /\ secret' \in [Instance -> [Origin -> AuthKind \cup {NoSecret}]]
    BY DEF IndInv, TypeOK, Reconcile
  <2>3. QED
    BY <1>1, <1>2, <2>1, <2>2 DEF IndInv, TypeOK
<1>5. \A j \in Instance, p \in Origin : Recorded(j, p)' <=> Recorded(j, p)
  BY <1>2, <1>3 DEF Recorded
<1>6. IssuedIsCovered' /\ UniqueRevision'
  <2>1. Versions' \subseteq Versions
    <3> SUFFICES ASSUME NEW v \in Versions', v \notin published
                 PROVE  v \in Versions
      BY VersionsIff
    <3>1. PICK j \in Instance, p \in Origin :
            Recorded(j, p)' /\ v = EntryOf(p, record'[j][p])
      BY <1>2, VersionsIffNext
    <3>2. v = EntryOf(p, record[j][p])
      BY <1>2, <1>3, <3>1
    <3>3. QED
      BY <1>5, <3>1, <3>2, VersionsIff
  <2>2. QED
    BY <1>1, <2>1, NoNewVersions DEF IndInv
<1>7. OwnOriginRecorded' /\ ForeignKnown'
  <2>1. RecordsKept
    BY <1>5 DEF RecordsKept
  <2>2. ForeignKnown'
    BY <1>2, <1>5, <2>1, ForeignKnownKept DEF IndInv
  <2>3. OwnOriginRecorded'
    BY <1>2, <1>5, OriginAssumption DEF IndInv, TypeOK, Entry, OwnOriginRecorded
  <2>4. QED
    BY <2>2, <2>3
<1>8. StaysGone
  <2> SUFFICES ASSUME NEW j \in Instance, NEW p \in Origin, Removed(j, p)'
               PROVE  \/ node'[j][p] = Absent /\ secret'[j][p] = NoSecret
                      \/ /\ record'[j][p] = record[j][p] /\ node'[j][p] = node[j][p]
                         /\ secret'[j][p] = secret[j][p]
    BY GoneByCases
  <2>1. CASE j = i /\ p \in Removable(i)
    BY <1>2, <2>1
  <2>2. CASE ~(j = i /\ p \in Removable(i))
    BY <1>2, <2>2
  <2>3. QED
    BY <2>1, <2>2
<1>9. QED
  BY <1>1, <1>4, <1>6, <1>7, <1>8, GoneIsAbsent DEF IndInv

-----------------------------------------------------------------------------
(* Exports *)

(* A run of ticks that fits holds every shorter run, and ends no earlier.  *)
LEMMA ShorterRun ==
  ASSUME NEW c \in Clock, NEW now \in Nat, NEW n \in Nat, NEW k \in 1 .. n,
         TicksFit(c, now, n)
  PROVE  /\ Ticks(c, now, k) \in Clock
         /\ ~Covers(c, Ticks(c, now, k))
         /\ Covers(Ticks(c, now, n), Ticks(c, now, k))
<1>1. TicksFit(c, now, k)
  BY MaxCounterAssumption DEF TicksFit, Tick, TickFits, Clock
<1>2. Ticks(c, now, k) \in Clock /\ ~Covers(c, Ticks(c, now, k))
  BY <1>1, TicksAdvance
<1>3. Covers(Ticks(c, now, n), Ticks(c, now, k))
  <2>1. /\ Ticks(c, now, n).pt = Tick(c, now).pt
        /\ Ticks(c, now, n).lc = Tick(c, now).lc + n - 1
        /\ Ticks(c, now, k).pt = Tick(c, now).pt
        /\ Ticks(c, now, k).lc = Tick(c, now).lc + k - 1
    BY <1>1, TicksAdvance
  <2>2. Tick(c, now).lc \in Nat
    BY DEF Tick, Clock
  <2>3. QED
    BY <2>1, <2>2 DEF Covers
<1>4. QED
  BY <1>2, <1>3

(* What an export records of a node that has changed.                      *)
Exported(i, o) ==
  /\ record'[i][o] \in Record /\ record'[i][o].version = ContentOf(i, o)
  /\ record'[i][o].version \in Content /\ EntryOf(o, record'[i][o]) \in Entry
  /\ EntryOf(o, record'[i][o]).origin = o /\ EntryOf(o, record'[i][o]).rev.w = i
  /\ ~Covers(clock[i], EntryOf(o, record'[i][o]).rev)
  /\ Covers(clock'[i], EntryOf(o, record'[i][o]).rev)

(* An export writes the changed records, and shares what is recorded.      *)
LEMMA ExportStep ==
  ASSUME IndInv, NEW i \in Instance, NEW now \in Time, Export(i, now)
  PROVE  /\ clock' \in [Instance -> Clock] /\ ClocksAdvance
         /\ UNCHANGED <<node, secret, patch, bound, inUse, edits, faults>>
         /\ record' \in [Instance -> [Origin -> Record \cup {NoRecord}]]
         /\ \A j \in Instance, o \in Origin : j # i => record'[j][o] = record[j][o]
         /\ \A o \in Origin : o \notin Changed(i) => record'[i][o] = record[i][o]
         /\ Changed(i) \subseteq Exportable(i) /\ Changed(i) \subseteq Origin
         /\ \A o \in Changed(i) : Exported(i, o)
         /\ published \subseteq published'
         /\ \A e \in published' \ published :
              \E o \in Origin : /\ o \in Changed(i) \/ Recorded(i, o)
                               /\ e = EntryOf(o, record'[i][o])
<1> DEFINE n == Cardinality(Changed(i))
           listed == {o \in Origin : o \in Exportable(i) \/ Deleted(i, o)}
           last == Ticks(clock[i], now, n)
<1>1. PICK order \in Bijection(Changed(i), 1 .. n) :
        /\ n > 0 => TicksFit(clock[i], now, n)
        /\ clock' = [clock EXCEPT ![i] = IF n = 0 THEN @ ELSE MergeClock(@, last)]
        /\ record' = [record EXCEPT ![i] = AfterExport(i, now, order)]
        /\ published' = published \cup {EntryOf(o, AfterExport(i, now, order)[o]) : o \in listed}
        /\ UNCHANGED <<node, secret, patch, bound, inUse, edits, faults>>
  BY DEF Export, profiles, workspaces
<1> DEFINE after == AfterExport(i, now, order)
<1>2. /\ n \in Nat /\ Changed(i) \subseteq Exportable(i)
      /\ Changed(i) \subseteq Origin /\ clock[i] \in Clock /\ now \in Nat
  BY ChangedFinite, NowIsNat DEF IndInv, TypeOK
<1>3. \A o \in Changed(i) : order[o] \in 1 .. n
  BY <1>1 DEF Bijection, Injection
<1>4. /\ n # 0 => last \in Clock /\ Covers(clock'[i], last)
      /\ clock' \in [Instance -> Clock] /\ ClocksAdvance
  <2>1. CASE n = 0
    <3>1. clock' = [clock EXCEPT ![i] = clock[i]]
      BY <1>1, <2>1
    <3>2. QED
      BY <1>2, <2>1, <3>1, CoversReflexive, ClockMoves DEF IndInv
  <2>2. CASE n # 0
    <3>1. last \in Clock
      BY <1>1, <1>2, <2>2, TicksAdvance
    <3>2. /\ MergeClock(clock[i], last) \in Clock
          /\ Covers(MergeClock(clock[i], last), clock[i])
          /\ Covers(MergeClock(clock[i], last), last)
      BY <1>2, <3>1, MergeClockType
    <3>3. clock' = [clock EXCEPT ![i] = MergeClock(clock[i], last)]
      BY <1>1, <2>2
    <3>4. clock'[i] = MergeClock(clock[i], last)
      BY <3>3 DEF IndInv, TypeOK
    <3> HIDE DEF last
    <3>5. QED
      BY <3>1, <3>2, <3>3, <3>4, ClockMoves DEF IndInv
  <2>3. QED
    BY <2>1, <2>2
<1> HIDE DEF n, last
<1>5. ASSUME NEW o \in Changed(i)
      PROVE  /\ o \in Origin /\ after[o] \in Record
             /\ after[o].version = ContentOf(i, o) /\ after[o].version \in Content
             /\ EntryOf(o, after[o]) \in Entry
             /\ EntryOf(o, after[o]).origin = o
             /\ EntryOf(o, after[o]).rev.w = i
             /\ ~Covers(clock[i], EntryOf(o, after[o]).rev)
             /\ Covers(clock'[i], EntryOf(o, after[o]).rev)
  <2> DEFINE k == order[o]
             c == Ticks(clock[i], now, k)
  <2>1. o \in Origin /\ node[i][o] # Absent /\ k \in 1 .. n /\ n # 0 /\ n > 0
    BY <1>2, <1>3 DEF Exportable
  <2>2. /\ c \in Clock /\ ~Covers(clock[i], c) /\ Covers(last, c)
    BY <1>1, <1>2, <2>1, ShorterRun DEF last
  <2>3. after[o] = [rev |-> Stamp(c, i), version |-> ContentOf(i, o), pending |-> FALSE]
    BY <2>1 DEF AfterExport
  <2> HIDE DEF c, after
  <2>4. ContentOf(i, o) \in Content
    BY <2>1, ContentOfType DEF IndInv
  <2>5. Stamp(c, i) \in Revision
    BY <2>2, StampIsRevision
  <2>6. after[o] \in Record /\ after[o].version = ContentOf(i, o) /\ after[o].rev = Stamp(c, i)
    BY <2>3, <2>4, <2>5 DEF Record, Version
  <2>7. EntryOf(o, after[o]) \in Entry
    BY <2>1, <2>6, EntryOfType
  <2>8. clock'[i] \in Clock /\ Covers(clock'[i], c)
    BY <1>4, <2>1, <2>2, CoversTransitive
  <2>9. EntryOf(o, after[o]).rev = Stamp(c, i) /\ EntryOf(o, after[o]).origin = o
    BY <2>6 DEF EntryOf
  <2>10. QED
    BY <1>2, <2>1, <2>2, <2>4, <2>6, <2>7, <2>8, <2>9 DEF Stamp, Covers, Clock
<1>6. ASSUME NEW o \in Origin, o \notin Changed(i)
      PROVE  after[o] = record[i][o]
  BY <1>6 DEF AfterExport
<1>7. /\ \A o \in Origin : record'[i][o] = after[o]
      /\ \A j \in Instance, o \in Origin : j # i => record'[j][o] = record[j][o]
      /\ record' \in [Instance -> [Origin -> Record \cup {NoRecord}]]
  <2>1. after \in [Origin -> Record \cup {NoRecord}]
    <3>1. \A o \in Origin : after[o] \in Record \cup {NoRecord}
      BY <1>5, <1>6 DEF IndInv, TypeOK
    <3>2. after = [o \in Origin |-> after[o]]
      BY DEF AfterExport
    <3>3. QED
      BY <3>1, <3>2
  <2> HIDE DEF after
  <2>2. record' = [record EXCEPT ![i] = after]
    BY <1>1 DEF after
  <2>3. QED
    BY <2>1, <2>2 DEF IndInv, TypeOK
<1>8. \A o \in Changed(i) : Exported(i, o)
  BY <1>2, <1>5, <1>7 DEF Exported
<1>9. \A o \in listed : o \in Origin /\ (o \in Changed(i) \/ Recorded(i, o))
  BY DEF Changed, Deleted
<1>10. \A e \in published' \ published : \E o \in listed : e = EntryOf(o, after[o])
  BY <1>1
<1>11. UNCHANGED <<node, secret, patch, bound, inUse, edits, faults>> /\ published \subseteq published'
  BY <1>1
<1> HIDE DEF after, listed
<1>12. QED
  BY <1>2, <1>4, <1>6, <1>7, <1>8, <1>9, <1>10, <1>11

LEMMA ExportKeeps ==
  ASSUME IndInv, NEW i \in Instance, NEW now \in Time, Export(i, now)
  PROVE  IndInv' /\ ClocksAdvance /\ StaysGone
<1>1. /\ clock' \in [Instance -> Clock] /\ ClocksAdvance
      /\ Changed(i) \subseteq Exportable(i) /\ Changed(i) \subseteq Origin
  BY ExportStep
<1>2. UNCHANGED <<node, secret, patch, bound, inUse, edits, faults>>
  BY ExportStep
<1>3. /\ \A j \in Instance, o \in Origin : j # i => record'[j][o] = record[j][o]
      /\ \A o \in Origin : o \notin Changed(i) => record'[i][o] = record[i][o]
      /\ record' \in [Instance -> [Origin -> Record \cup {NoRecord}]]
  BY ExportStep
<1>4. \A o \in Changed(i) : Exported(i, o)
  BY ExportStep
<1>5. \A e \in published' \ published :
        \E o \in Origin : /\ o \in Changed(i) \/ Recorded(i, o)
                         /\ e = EntryOf(o, record'[i][o])
  BY ExportStep
<1>6. RecordsKept /\ \A o \in Changed(i) : Recorded(i, o)'
  BY <1>1, <1>3, <1>4, ValueAssumption DEF RecordsKept, Recorded, Exported
<1>7. \A v \in Versions' \ Versions : \E o \in Changed(i) : v = EntryOf(o, record'[i][o])
  <2> SUFFICES ASSUME NEW v \in Versions', v \notin Versions
               PROVE  \E o \in Changed(i) : v = EntryOf(o, record'[i][o])
    OBVIOUS
  <2>1. CASE v \in published'
    <3>1. PICK o \in Origin : /\ o \in Changed(i) \/ Recorded(i, o)
                             /\ v = EntryOf(o, record'[i][o])
      BY <1>5, <2>1, VersionsIff
    <3>2. o \in Changed(i)
      BY <1>3, <3>1, VersionsIff
    <3>3. QED
      BY <3>1, <3>2
  <2>2. ASSUME NEW j \in Instance, NEW o \in Origin, Recorded(j, o)',
               v = EntryOf(o, record'[j][o])
        PROVE  \E p \in Changed(i) : v = EntryOf(p, record'[i][p])
    <3>1. j = i
      BY <1>3, <2>2, VersionsIff DEF Recorded
    <3>2. o \in Changed(i)
      BY <1>3, <2>2, <3>1, VersionsIff DEF Recorded
    <3>3. QED
      BY <2>2, <3>1, <3>2
  <2>3. QED
    BY <2>1, <2>2, VersionsIffNext
<1>8. IssuedIsCovered' /\ UniqueRevision'
  <2>1. \A v \in Versions' \ Versions :
          /\ v \in Entry /\ v.rev.w = i
          /\ ~Covers(clock[i], v.rev) /\ Covers(clock'[i], v.rev)
    BY <1>4, <1>7 DEF Exported
  <2>2. \A v, x \in Versions' \ Versions : v.origin = x.origin => v = x
    BY <1>4, <1>7 DEF Exported
  <2>3. QED
    BY <1>1, <2>1, <2>2, FreshVersions DEF IndInv
<1>9. TypeOK'
  <2>1. published' \subseteq Entry
    <3> SUFFICES ASSUME NEW e \in published', e \notin published PROVE e \in Entry
      BY DEF IndInv, TypeOK
    <3>1. PICK o \in Origin : /\ o \in Changed(i) \/ Recorded(i, o)
                             /\ e = EntryOf(o, record'[i][o])
      BY <1>5
    <3>2. CASE o \in Changed(i)
      BY <1>4, <3>1, <3>2 DEF Exported
    <3>3. CASE o \notin Changed(i)
      BY <1>3, <3>1, <3>3, EntryOfType DEF IndInv, TypeOK, Recorded
    <3>4. QED
      BY <3>2, <3>3
  <2>2. QED
    BY <1>1, <1>2, <1>3, <2>1 DEF IndInv, TypeOK
<1>10. OwnOriginRecorded'
  <2> SUFFICES ASSUME NEW e \in published' PROVE Recorded(Home[e.origin], e.origin)'
    BY DEF OwnOriginRecorded
  <2>1. CASE e \in published
    <3>1. e.origin \in Origin /\ Recorded(Home[e.origin], e.origin)
      BY <2>1 DEF IndInv, TypeOK, Entry, OwnOriginRecorded
    <3>2. QED
      BY <3>1, <1>6, OriginAssumption DEF RecordsKept
  <2>2. CASE e \notin published
    <3>1. PICK o \in Origin : /\ o \in Changed(i) \/ Recorded(i, o)
                             /\ e = EntryOf(o, record'[i][o])
      BY <1>5, <2>2
    <3>2. e.origin = o /\ o \in Origin
      BY <3>1 DEF EntryOf
    <3>3. Recorded(i, o)'
      BY <1>6, <3>1 DEF RecordsKept
    <3>4. CASE i = Home[o]
      BY <3>2, <3>3, <3>4
    <3>5. CASE i # Home[o]
      <4>1. node[i][o] # Absent \/ Recorded(i, o)
        BY <1>1, <3>1 DEF Exportable
      <4>2. Recorded(Home[o], o)
        BY <3>2, <3>5, <4>1 DEF IndInv, ForeignKnown
      <4>3. QED
        BY <1>6, <3>2, <4>2, OriginAssumption DEF RecordsKept
    <3>6. QED
      BY <3>4, <3>5
  <2>3. QED
    BY <2>1, <2>2
<1>11. ForeignKnown'
  <2>1. \A j \in Instance, p \in Origin :
          node'[j][p] # Absent \/ Recorded(j, p)' =>
            node[j][p] # Absent \/ Recorded(j, p) \/ Recorded(Home[p], p)
    <3> SUFFICES ASSUME NEW j \in Instance, NEW p \in Origin,
                        Recorded(j, p)', ~Recorded(j, p)
                 PROVE  node[j][p] # Absent
      BY <1>2
    <3>1. j = i /\ p \in Changed(i)
      BY <1>3 DEF Recorded
    <3>2. QED
      BY <1>1, <3>1 DEF Exportable
  <2>2. QED
    BY <1>6, <2>1, ForeignKnownKept DEF IndInv
<1>12. StaysGone
  <2> SUFFICES ASSUME NEW j \in Instance, NEW p \in Origin, Removed(j, p)'
               PROVE  \/ node'[j][p] = Absent /\ secret'[j][p] = NoSecret
                      \/ /\ record'[j][p] = record[j][p] /\ node'[j][p] = node[j][p]
                         /\ secret'[j][p] = secret[j][p]
    BY GoneByCases
  <2>1. ~(j = i /\ p \in Changed(i))
    <3>1. ASSUME j = i, p \in Changed(i) PROVE FALSE
      <4>1. record'[j][p].version \in Content
        BY <1>4, <3>1 DEF Exported
      <4>2. QED
        BY <4>1, ValueAssumption DEF Removed, Deleted
    <3>2. QED
      BY <3>1
  <2>2. QED
    BY <1>2, <1>3, <2>1
<1>13. QED
  BY <1>1, <1>8, <1>9, <1>10, <1>11, <1>12, GoneIsAbsent DEF IndInv

-----------------------------------------------------------------------------
(* The specification *)

LEMMA InitIndInv == Init => IndInv
<1> SUFFICES ASSUME Init PROVE IndInv
  OBVIOUS
<1>1. TypeOK
  BY MaxCounterAssumption, BoundAssumption DEF Init, TypeOK, ZeroClock, Clock
<1>2. Versions = {}
  BY VersionsIff DEF Init, Recorded
<1>3. IssuedIsCovered /\ UniqueRevision
  BY <1>2 DEF IssuedIsCovered, UniqueRevision
<1>4. OwnOriginRecorded /\ ForeignKnown /\ RemovedIsAbsent
  BY DEF Init, OwnOriginRecorded, ForeignKnown, RemovedIsAbsent, Removed, Deleted,
         Recorded
<1>5. QED
  BY <1>1, <1>3, <1>4 DEF IndInv

LEMMA NextKeeps == IndInv /\ [Next]_vars => IndInv' /\ ClocksAdvance /\ StaysGone
<1> SUFFICES ASSUME IndInv, [Next]_vars PROVE IndInv' /\ ClocksAdvance /\ StaysGone
  OBVIOUS
<1>1. CASE User
  BY <1>1, CreateNodeKeeps, EditNodeKeeps, EndPatchKeeps, WorkspaceKeeps,
     RemoveLocalKeeps DEF User
<1>2. ASSUME NEW i \in Instance, ExportSome(i) PROVE IndInv' /\ ClocksAdvance /\ StaysGone
  BY <1>2, ExportKeeps DEF ExportSome
<1>3. ASSUME NEW i \in Instance, ApplySome(i) PROVE IndInv' /\ ClocksAdvance /\ StaysGone
  BY <1>3, ApplyLiveKeeps, ApplyTombstoneKeeps DEF ApplySome
<1>4. ASSUME NEW i \in Instance, Reconcile(i) PROVE IndInv' /\ ClocksAdvance /\ StaysGone
  BY <1>4, ReconcileKeeps
<1>5. CASE Fault
  BY <1>5, TombstoneInterruptedKeeps, UpdateInterruptedKeeps, RemoveLocalFailsKeeps,
     RemoveLocalInterruptedKeeps DEF Fault
<1>6. CASE UNCHANGED vars
  <2>1. UNCHANGED <<node, secret, patch, record, clock, bound, inUse, published, edits, faults>>
    BY <1>6 DEF vars, profiles, workspaces
  <2>2. TypeOK' /\ ForeignKnown'
    BY <2>1 DEF IndInv, TypeOK, ForeignKnown, Recorded
  <2>3. IssuedIsCovered' /\ UniqueRevision' /\ OwnOriginRecorded' /\ ClocksAdvance
    BY <2>1, VersionsUntouched DEF IndInv
  <2>4. StaysGone
    BY <2>1, GoneUntouched
  <2>5. QED
    BY <2>2, <2>3, <2>4, GoneIsAbsent DEF IndInv
<1>7. QED
  BY <1>1, <1>2, <1>3, <1>4, <1>5, <1>6 DEF Next

(* The inductive invariant holds of every behaviour.                       *)
THEOREM Invariance == Spec => []IndInv
<1>1. Init => IndInv
  BY InitIndInv
<1>2. IndInv /\ [Next]_vars => IndInv'
  BY NextKeeps
<1>3. QED
  BY <1>1, <1>2, PTL DEF Spec

(* The state always has the shape sync-state.json is validated against.    *)
THEOREM TypeCorrect == Spec => []TypeOK
<1>1. IndInv => TypeOK
  BY DEF IndInv
<1>2. QED
  BY <1>1, Invariance, PTL

(* However manifests are delayed, repeated or reordered and operations     *)
(* fail, two versions of a node with one revision are the same version:    *)
(* applyManifest() never reports conflicting records for what instances    *)
(* exported.                                                               *)
THEOREM RevisionsAreUnique == Spec => []UniqueRevision
<1>1. IndInv => UniqueRevision
  BY DEF IndInv
<1>2. QED
  BY <1>1, Invariance, PTL

(* No instance has issued a revision past its persisted clock, so after a  *)
(* restart it cannot issue one twice.                                      *)
THEOREM ClockCoversIssued == Spec => []IssuedIsCovered
<1>1. IndInv => IssuedIsCovered
  BY DEF IndInv
<1>2. QED
  BY <1>1, Invariance, PTL

(* The local-origin branch of applyManifest() is never needed.             *)
THEOREM OwnOriginIsRecorded == Spec => []OwnOriginRecorded
<1>1. IndInv => OwnOriginRecorded
  BY DEF IndInv
<1>2. QED
  BY <1>1, Invariance, PTL

(* A completed removal takes profile and credentials, and only a PATCH     *)
(* that was waiting to write credentials brings any back under it.         *)
THEOREM DeletedIsGone == Spec => DeletedMeansGone
<1>1. IndInv /\ [Next]_vars => [StaysGone]_vars
  BY NextKeeps
<1>2. QED
  BY <1>1, Invariance, PTL DEF Spec, DeletedMeansGone

(* No persisted clock ever goes back.                                      *)
THEOREM ClocksNeverGoBack == Spec => ClockMonotone
<1>1. IndInv /\ [Next]_vars => [\A i \in Instance : Covers(clock'[i], clock[i])]_vars
  BY NextKeeps DEF ClocksAdvance
<1>2. QED
  BY <1>1, Invariance, PTL DEF Spec, ClockMonotone

-----------------------------------------------------------------------------
(* Nodes with records *)

(* What is interrupted is counted, and nothing else.                       *)
LEMMA FaultsCount ==
  ASSUME IndInv, [Next]_vars, faults' = 0
  PROVE  faults = 0 /\ ~Fault
<1>1. faults \in Nat
  BY BoundAssumption DEF IndInv, TypeOK
<1>2. Fault => faults' = faults + 1
  BY DEF Fault, TombstoneInterrupted, UpdateInterrupted, RemoveLocalFails,
         RemoveLocalInterrupted
<1>3. User => faults' = faults
  BY DEF User, CreateNode, EditNode, EndPatch, BindWorkspace, OpenWorkspace,
         CloseWorkspace, RemoveLocal
<1>4. ASSUME NEW i \in Instance, ExportSome(i) \/ ApplySome(i) \/ Reconcile(i)
      PROVE  faults' = faults
  <2>1. ExportSome(i) => faults' = faults
    BY DEF ExportSome, Export
  <2>2. ApplySome(i) => faults' = faults
    BY DEF ApplySome, ApplyLive, ApplyTombstone
  <2> QED BY <1>4, <2>1, <2>2 DEF Reconcile
<1>5. UNCHANGED vars => faults' = faults
  BY DEF vars
<1> QED BY <1>1, <1>2, <1>3, <1>4, <1>5 DEF Next

LEMMA LiveNodeKept ==
  ASSUME IndInv, LiveRecordHasNode, [Next]_vars
  PROVE  LiveRecordHasNode'
<1> SUFFICES ASSUME faults' = 0, NEW j \in Instance, NEW p \in Origin,
                    Recorded(j, p)', ~Deleted(j, p)'
             PROVE  node'[j][p] # Absent
  BY DEF LiveRecordHasNode
<1> USE DEF Recorded, Deleted
<1>1. /\ node \in [Instance -> [Origin -> AuthKind \cup {Absent}]]
      /\ record \in [Instance -> [Origin -> Record \cup {NoRecord}]]
      /\ faults \in Nat /\ published \subseteq Entry
  BY BoundAssumption DEF IndInv, TypeOK
<1>2. ASSUME faults = 0, Recorded(j, p), ~Deleted(j, p) PROVE node[j][p] # Absent
  BY <1>2 DEF LiveRecordHasNode
<1>3. ASSUME NEW i \in Instance, NEW o \in Origin, NEW k \in AuthKind,
             NEW s \in AuthKind \cup {NoSecret},
             CreateNode(i, o, k, s) \/ EditNode(i, o, k, s)
      PROVE  node'[j][p] # Absent
  BY <1>1, <1>2, <1>3, ValueAssumption DEF CreateNode, EditNode
<1>4. ASSUME NEW i \in Instance, NEW o \in Origin,
             \/ \E s \in AuthKind : EndPatch(i, o, s)
             \/ BindWorkspace(i, o) \/ OpenWorkspace(i, o) \/ CloseWorkspace(i, o)
      PROVE  node'[j][p] # Absent
  BY <1>2, <1>4 DEF EndPatch, BindWorkspace, OpenWorkspace, CloseWorkspace, profiles
<1>5. ASSUME NEW i \in Instance, NEW o \in Origin, NEW now \in Time,
             RemoveLocal(i, o, now)
      PROVE  node'[j][p] # Absent
  <2> DEFINE r == [rev |-> Stamp(Tick(clock[i], now), i), version |-> Tombstone,
                   pending |-> FALSE]
  <2>1. /\ record' = [record EXCEPT ![i][o] = r] /\ faults' = faults
        /\ node' = [node EXCEPT ![i][o] = Absent]
    BY <1>5 DEF RemoveLocal
  <2>2. r.version = Tombstone
    OBVIOUS
  <2> HIDE DEF r
  <2>3. ~(j = i /\ p = o)
    BY <1>1, <2>1, <2>2
  <2>4. QED
    BY <1>1, <1>2, <2>1, <2>3
<1>6. ASSUME NEW i \in Instance, NEW now \in Time, Export(i, now)
      PROVE  node'[j][p] # Absent
  <2>1. CASE j = i /\ p \in Changed(i)
    BY <1>6, <2>1, ExportStep DEF Exportable
  <2>2. CASE ~(j = i /\ p \in Changed(i))
    <3>1. record'[j][p] = record[j][p] /\ node' = node /\ faults' = faults
      BY <1>6, <2>2, ExportStep
    <3>2. QED
      BY <1>2, <3>1
  <2>3. QED
    BY <2>1, <2>2
<1>7. ASSUME NEW i \in Instance, NEW e \in published, NEW now \in Time,
             ApplyLive(i, e, now)
      PROVE  node'[j][p] # Absent
  <2>1. e.origin \in Origin /\ e.version \in Content /\ e.version.kind \in AuthKind
    BY <1>1, <1>7 DEF Entry, Version, Content, ApplyLive
  <2>2. QED
    BY <1>1, <1>2, <1>7, <2>1, ValueAssumption DEF ApplyLive
<1>8. ASSUME NEW i \in Instance, NEW e \in published, NEW now \in Time,
             ApplyTombstone(i, e, now)
      PROVE  node'[j][p] # Absent
  <2> DEFINE busy == e.origin \in inUse[i]
  <2>1. /\ record' = [record EXCEPT ![i][e.origin] = Adopted(e, busy)]
        /\ node' = [node EXCEPT ![i][e.origin] = IF busy THEN @ ELSE Absent]
        /\ faults' = faults /\ e.origin \in Origin
    BY <1>1, <1>8 DEF ApplyTombstone, Entry
  <2>2. Adopted(e, busy).version = Tombstone
    BY <1>8 DEF ApplyTombstone, Adopted
  <2>3. ~(j = i /\ p = e.origin)
    BY <1>1, <2>1, <2>2
  <2>4. QED
    BY <1>1, <1>2, <2>1, <2>3
<1>9. ASSUME NEW i \in Instance, Reconcile(i) PROVE node'[j][p] # Absent
  <2>1. ASSUME j = i, p \in Removable(i) PROVE FALSE
    <3>1. record'[j][p] = [record[j][p] EXCEPT !.pending = FALSE]
      BY <1>1, <1>9, <2>1 DEF Reconcile
    <3>2. record[j][p] \in Record /\ record[j][p].version = Tombstone
      BY <1>1, <2>1 DEF Removable, PendingRemoval
    <3>3. QED
      BY <3>1, <3>2 DEF Record
  <2>2. QED
    BY <1>1, <1>2, <1>9, <2>1 DEF Reconcile
<1>10. ~Fault
  BY FaultsCount
<1>11. CASE UNCHANGED vars
  BY <1>2, <1>11 DEF vars, profiles
<1>12. QED
  BY <1>3, <1>4, <1>5, <1>6, <1>7, <1>8, <1>9, <1>10, <1>11
     DEF Next, User, ExportSome, ApplySome

(* As long as no operation is interrupted, a node only vanishes with a     *)
(* deletion that peers will hear of: an export, an import or an edit never *)
(* leaves a live record without its node.                                  *)
THEOREM LiveRecordsHaveNodes == Spec => []LiveRecordHasNode
<1>1. Init => LiveRecordHasNode
  BY DEF Init, LiveRecordHasNode, Recorded
<1>2. IndInv /\ LiveRecordHasNode /\ [Next]_vars => LiveRecordHasNode'
  BY LiveNodeKept
<1>3. QED
  BY <1>1, <1>2, Invariance, PTL DEF Spec

-----------------------------------------------------------------------------
(* Refinement *)

HeldIsCovered ==
  \A i \in Instance, o \in Origin : Recorded(i, o) => Covers(clock[i], record[i][o].rev)

CalmInv == IndInv /\ (faults = 0 => HeldIsCovered)

-----------------------------------------------------------------------------
(* Kinds of steps *)

(* i has recorded a revision of its own that its clock had not reached.    *)
Written(i, o) ==
  /\ record'[i][o] \in Record /\ record'[i][o].rev.w = i
  /\ ~Covers(clock[i], record'[i][o].rev) /\ Covers(clock'[i], record'[i][o].rev)

LocalStep(i) ==
  /\ \A j \in Instance, o \in Origin :
       record'[j][o] # record[j][o] => j = i /\ Written(i, o)
  /\ published \subseteq published'
  /\ \A e \in published' \ published :
       \E o \in Origin : Recorded(i, o)' /\ e = EntryOf(o, record'[i][o])

AdoptStep(i, e) ==
  /\ e \in published /\ published' = published /\ Newer(i, e)
  /\ record'[i][e.origin] \in Record /\ EntryOf(e.origin, record'[i][e.origin]) = e
  /\ Covers(clock'[i], e.rev)
  /\ \A j \in Instance, o \in Origin :
       j # i \/ o # e.origin => record'[j][o] = record[j][o]

(* At most marks of pending removals go.                                   *)
QuietStep ==
  /\ published' = published
  /\ \A j \in Instance, o \in Origin :
       \/ record'[j][o] = record[j][o]
       \/ Recorded(j, o) /\ record'[j][o] = Adopted(EntryOf(o, record[j][o]), FALSE)

LEMMA RemoveLocalIsLocal ==
  ASSUME IndInv, NEW i \in Instance, NEW o \in Origin, NEW now \in Time,
         RemoveLocal(i, o, now)
  PROVE  LocalStep(i)
<1> DEFINE c == Tick(clock[i], now)
           r == [rev |-> Stamp(c, i), version |-> Tombstone, pending |-> FALSE]
<1>1. /\ TickFits(clock[i], now) /\ clock[i] \in Clock /\ now \in Nat
      /\ clock' = [clock EXCEPT ![i] = c] /\ record' = [record EXCEPT ![i][o] = r]
      /\ published' = published
  BY NowIsNat DEF RemoveLocal, IndInv, TypeOK
<1>2. r \in Record
  BY <1>1, LocalTombstoneType DEF IndInv
<1>3. c \in Clock /\ ~Covers(clock[i], c) /\ Covers(c, c)
  BY <1>1, TickAdvances, CoversReflexive
<1>4. clock'[i] = c
  BY <1>1 DEF IndInv, TypeOK
<1> HIDE DEF c
<1>5. ~Covers(clock[i], Stamp(c, i)) /\ Covers(clock'[i], Stamp(c, i)) /\ Stamp(c, i).w = i
  BY <1>3, <1>4 DEF Covers, Stamp
<1>6. r.rev = Stamp(c, i)
  OBVIOUS
<1> HIDE DEF r
<1>7. /\ record'[i][o] = r
      /\ \A j \in Instance, p \in Origin : j # i \/ p # o => record'[j][p] = record[j][p]
  BY <1>1 DEF IndInv, TypeOK
<1>8. Written(i, o)
  BY <1>2, <1>5, <1>6, <1>7 DEF Written
<1> QED BY <1>1, <1>7, <1>8 DEF LocalStep

LEMMA ExportIsLocal ==
  ASSUME IndInv, NEW i \in Instance, NEW now \in Time, Export(i, now)
  PROVE  LocalStep(i)
<1>1. /\ \A j \in Instance, o \in Origin : j # i => record'[j][o] = record[j][o]
      /\ \A o \in Origin : o \notin Changed(i) => record'[i][o] = record[i][o]
      /\ published \subseteq published'
  BY ExportStep
<1>2. \A o \in Changed(i) : Exported(i, o)
  BY ExportStep
<1>3. \A o \in Changed(i) : Written(i, o)
  BY <1>2 DEF Exported, Written, EntryOf
<1>4. \A o \in Origin : o \in Changed(i) \/ Recorded(i, o) => Recorded(i, o)'
  BY <1>1, <1>3, ValueAssumption DEF Written, Recorded
<1>5. \A e \in published' \ published :
        \E o \in Origin : /\ o \in Changed(i) \/ Recorded(i, o)
                         /\ e = EntryOf(o, record'[i][o])
  BY ExportStep
<1> QED BY <1>1, <1>3, <1>4, <1>5 DEF LocalStep

LEMMA ApplyAdopts ==
  ASSUME IndInv, NEW i \in Instance, NEW e \in published, NEW now \in Time,
         ApplyLive(i, e, now) \/ ApplyTombstone(i, e, now)
  PROVE  AdoptStep(i, e)
<1>1. PICK p \in BOOLEAN : record' = [record EXCEPT ![i][e.origin] = Adopted(e, p)]
  <2>1. CASE ApplyLive(i, e, now)
    BY <2>1 DEF ApplyLive
  <2>2. CASE ApplyTombstone(i, e, now)
    <3>1. CASE e.origin \in inUse[i]
      <4>1. (e.origin \in inUse[i]) = TRUE
        BY <3>1
      <4> QED BY <2>2, <4>1 DEF ApplyTombstone, Adopted
    <3>2. CASE e.origin \notin inUse[i]
      <4>1. (e.origin \in inUse[i]) = FALSE
        BY <3>2
      <4> QED BY <2>2, <4>1 DEF ApplyTombstone, Adopted
    <3> QED BY <3>1, <3>2
  <2> QED BY <2>1, <2>2
<1>2. /\ Newer(i, e) /\ ObserveFits(clock[i], e.rev, now) /\ published' = published
      /\ clock' = [clock EXCEPT ![i] = MergeClock(clock[i], Observe(clock[i], e.rev, now))]
  <2>1. CASE ApplyLive(i, e, now)
    BY <2>1 DEF ApplyLive
  <2>2. CASE ApplyTombstone(i, e, now)
    BY <2>2 DEF ApplyTombstone
  <2> QED BY <2>1, <2>2
<1>3. /\ e \in Entry /\ e.origin \in Origin /\ e.rev \in Revision
      /\ clock[i] \in Clock /\ now \in Nat
  BY NowIsNat DEF IndInv, TypeOK, Entry
<1>4. Adopted(e, p) \in Record /\ EntryOf(e.origin, Adopted(e, p)) = e
  BY <1>3, AdoptedType
<1> DEFINE c == Observe(clock[i], e.rev, now)
<1>5. c \in Clock /\ Covers(c, e.rev)
  BY <1>2, <1>3, ObserveAdvances
<1>6. clock'[i] = MergeClock(clock[i], c)
  BY <1>2 DEF IndInv, TypeOK
<1> HIDE DEF c
<1>7. MergeClock(clock[i], c) \in Clock /\ Covers(MergeClock(clock[i], c), c)
  BY <1>3, <1>5, MergeClockType
<1>8. Covers(clock'[i], e.rev)
  BY <1>3, <1>5, <1>6, <1>7, CoversTransitive
<1>9. /\ record'[i][e.origin] = Adopted(e, p)
      /\ \A j \in Instance, o \in Origin :
           j # i \/ o # e.origin => record'[j][o] = record[j][o]
  BY <1>1, <1>3 DEF IndInv, TypeOK
<1> QED BY <1>2, <1>4, <1>8, <1>9 DEF AdoptStep

LEMMA Unmarked ==
  ASSUME NEW r \in Record, NEW o
  PROVE  [r EXCEPT !.pending = FALSE] = Adopted(EntryOf(o, r), FALSE)
<1> DEFINE s == [r EXCEPT !.pending = FALSE]
<1>1. s \in Record /\ s.rev = r.rev /\ s.version = r.version /\ s.pending = FALSE
  BY DEF Record
<1> HIDE DEF s
<1>2. s = [rev |-> s.rev, version |-> s.version, pending |-> s.pending]
  BY <1>1 DEF Record
<1>3. s = Adopted(EntryOf(o, r), FALSE)
  BY <1>1, <1>2 DEF Adopted, EntryOf
<1> QED BY <1>3 DEF s

LEMMA ReconcileIsQuiet ==
  ASSUME IndInv, NEW i \in Instance, Reconcile(i)
  PROVE  QuietStep
<1>1. published' = published
  BY DEF Reconcile
<1>2. \A j \in Instance, o \in Origin :
        record'[j][o] = IF j = i /\ o \in Removable(i)
                        THEN [record[j][o] EXCEPT !.pending = FALSE] ELSE record[j][o]
  BY DEF Reconcile, IndInv, TypeOK
<1>3. ASSUME NEW o \in Removable(i)
      PROVE  /\ Recorded(i, o)
             /\ [record[i][o] EXCEPT !.pending = FALSE]
                  = Adopted(EntryOf(o, record[i][o]), FALSE)
  <2>1. Recorded(i, o) /\ record[i][o] \in Record
    BY <1>3 DEF Removable, PendingRemoval, Deleted, Recorded, IndInv, TypeOK
  <2> QED BY <2>1, Unmarked
<1> QED BY <1>1, <1>2, <1>3 DEF QuietStep

(* Every step that is not interrupted is of one of these kinds.            *)
LEMMA StepKinds ==
  ASSUME IndInv, [Next]_vars, faults' = 0
  PROVE  \/ \E i \in Instance : LocalStep(i)
         \/ \E i \in Instance, e \in published : AdoptStep(i, e)
         \/ QuietStep
<1>1. CASE UNCHANGED <<record, published>>
  BY <1>1 DEF QuietStep
<1>2. CASE User
  BY <1>1, <1>2, RemoveLocalIsLocal DEF User, CreateNode, EditNode, EndPatch,
       BindWorkspace, OpenWorkspace, CloseWorkspace
<1>3. ASSUME NEW i \in Instance, ExportSome(i) PROVE LocalStep(i)
  BY <1>3, ExportIsLocal DEF ExportSome
<1>4. ASSUME NEW i \in Instance, ApplySome(i) PROVE \E e \in published : AdoptStep(i, e)
  BY <1>4, ApplyAdopts DEF ApplySome
<1>5. ASSUME NEW i \in Instance, Reconcile(i) PROVE QuietStep
  BY <1>5, ReconcileIsQuiet
<1>6. ~Fault
  BY FaultsCount
<1>7. CASE UNCHANGED vars
  BY <1>1, <1>7 DEF vars
<1> QED BY <1>2, <1>3, <1>4, <1>5, <1>6, <1>7 DEF Next

-----------------------------------------------------------------------------
(* Records advance *)

(* What a clock does not cover is after all that it covers.                *)
LEMMA BeyondClock ==
  ASSUME NEW c \in Clock, NEW d \in Revision, NEW r \in Revision,
         Covers(c, d), ~Covers(c, r)
  PROVE  Before(d, r)
BY DEF Before, Covers, Clock, Revision

LEMMA CoverKept ==
  ASSUME IndInv, IndInv', ClocksAdvance, HeldIsCovered,
         NEW i \in Instance, NEW o \in Origin, Recorded(i, o)
  PROVE  Covers(clock'[i], record[i][o].rev)
<1>1. record[i][o].rev \in Revision /\ clock[i] \in Clock /\ clock'[i] \in Clock
  BY DEF Recorded, IndInv, TypeOK, Record
<1>2. Covers(clock'[i], clock[i]) /\ Covers(clock[i], record[i][o].rev)
  BY DEF ClocksAdvance, HeldIsCovered
<1> QED BY <1>1, <1>2, CoversTransitive

LEMMA CalmNext ==
  ASSUME CalmInv, [Next]_vars
  PROVE  CalmInv'
<1>1. IndInv' /\ ClocksAdvance /\ IndInv
  BY NextKeeps DEF CalmInv
<1> SUFFICES ASSUME faults' = 0 PROVE HeldIsCovered'
  BY <1>1 DEF CalmInv
<1>2. faults = 0
  BY <1>1, FaultsCount
<1>3. HeldIsCovered
  BY <1>2 DEF CalmInv
<1> SUFFICES ASSUME NEW j \in Instance, NEW o \in Origin, Recorded(j, o)'
             PROVE  Covers(clock'[j], record'[j][o].rev)
  BY DEF HeldIsCovered
<1>4. CASE record'[j][o] = record[j][o]
  BY <1>1, <1>3, <1>4, CoverKept DEF Recorded
<1>5. ASSUME NEW i \in Instance, LocalStep(i), record'[j][o] # record[j][o]
      PROVE  Covers(clock'[j], record'[j][o].rev)
  BY <1>5 DEF LocalStep, Written
<1>6. ASSUME NEW i \in Instance, NEW e \in published, AdoptStep(i, e),
             record'[j][o] # record[j][o]
      PROVE  Covers(clock'[j], record'[j][o].rev)
  BY <1>6 DEF AdoptStep, EntryOf
<1>7. ASSUME QuietStep, record'[j][o] # record[j][o]
      PROVE  Covers(clock'[j], record'[j][o].rev)
  <2>1. Recorded(j, o) /\ record'[j][o] = Adopted(EntryOf(o, record[j][o]), FALSE)
    BY <1>7 DEF QuietStep
  <2>2. record'[j][o].rev = record[j][o].rev
    BY <2>1 DEF Adopted, EntryOf
  <2> QED BY <2>1, <2>2, <1>1, <1>3, CoverKept
<1> QED BY <1>1, <1>4, <1>5, <1>6, <1>7, StepKinds
LEMMA CalmInit == Init => CalmInv
BY InitIndInv DEF CalmInv, Init, HeldIsCovered, Recorded

LEMMA Advance ==
  ASSUME IndInv, IndInv', HeldIsCovered, [Next]_vars, faults' = 0,
         NEW j \in Instance, NEW o \in Origin, Recorded(j, o), record'[j][o] # record[j][o]
  PROVE  \/ Before(record[j][o].rev, record'[j][o].rev)
         \/ Adopted(EntryOf(o, record[j][o]), FALSE) = record'[j][o]
<1>1. record[j][o] \in Record /\ record[j][o].rev \in Revision /\ clock[j] \in Clock
  BY DEF Recorded, IndInv, TypeOK, Record
<1>2. ASSUME NEW i \in Instance, LocalStep(i)
      PROVE  Before(record[j][o].rev, record'[j][o].rev)
  <2>1. Written(j, o)
    BY <1>2 DEF LocalStep
  <2>2. record'[j][o].rev \in Revision /\ ~Covers(clock[j], record'[j][o].rev)
    BY <2>1 DEF Written, Record
  <2>3. Covers(clock[j], record[j][o].rev)
    BY DEF HeldIsCovered
  <2> QED BY <1>1, <2>2, <2>3, BeyondClock
<1>3. ASSUME NEW i \in Instance, NEW e \in published, AdoptStep(i, e)
      PROVE  Before(record[j][o].rev, record'[j][o].rev)
  <2>1. j = i /\ o = e.origin /\ EntryOf(o, record'[j][o]) = e /\ Newer(j, e)
    BY <1>3 DEF AdoptStep
  <2>2. record'[j][o].rev = e.rev
    BY <2>1 DEF EntryOf
  <2> QED BY <2>1, <2>2 DEF Newer
<1>4. CASE QuietStep
  BY <1>4 DEF QuietStep
<1> QED BY <1>2, <1>3, <1>4, StepKinds

(* Without interruptions a record is only ever replaced by a newer one.    *)
THEOREM RecordsOnlyAdvance == Spec => RecordsAdvance
<1> DEFINE Step ==
      faults' = 0 => \A i \in Instance, o \in Origin :
        Recorded(i, o) /\ record'[i][o] # record[i][o] =>
          \/ Before(record[i][o].rev, record'[i][o].rev)
          \/ Adopted(EntryOf(o, record[i][o]), FALSE) = record'[i][o]
<1>1. CalmInv /\ [Next]_vars => CalmInv'
  BY CalmNext
<1>2. CalmInv /\ [Next]_vars => [Step]_vars
  <2> SUFFICES ASSUME CalmInv, [Next]_vars, faults' = 0
               PROVE  Step
    OBVIOUS
  <2>1. IndInv /\ IndInv' /\ HeldIsCovered
    BY NextKeeps, FaultsCount DEF CalmInv
  <2> QED BY <2>1, Advance
<1> QED BY CalmInit, <1>1, <1>2, PTL DEF Spec, RecordsAdvance

-----------------------------------------------------------------------------
(* The mapping *)

LEMMA HeldVersionAt ==
  ASSUME NEW i \in Instance, NEW o \in Origin
  PROVE  /\ HeldVersion[i][o] =
              IF Recorded(i, o) THEN EntryOf(o, record[i][o]) ELSE NoRecord
         /\ HeldVersion'[i][o] =
              IF Recorded(i, o)' THEN EntryOf(o, record'[i][o]) ELSE NoRecord
BY DEF HeldVersion

(* A record is not mistaken for the lack of one.                           *)
LEMMA HeldIsEntry ==
  ASSUME NEW o \in Origin, NEW r \in Record
  PROVE  /\ EntryOf(o, r) \in Entry /\ EntryOf(o, r) # NoRecord
         /\ EntryOf(o, r).rev = r.rev /\ r # NoRecord
BY EntryOfType, ValueAssumption DEF EntryOf

LEMMA SameOrder == ASSUME NEW a, NEW b PROVE Lww!Before(a, b) <=> Before(a, b)
BY DEF Before, Lww!Before

(* Nobody holds or shares a version with a revision its writer's clock has *)
(* not reached.                                                            *)
LEMMA FreshIsUnused ==
  ASSUME IndInv, NEW i \in Instance, NEW o \in Origin, NEW rev \in Revision,
         rev.w = i, ~Covers(clock[i], rev)
  PROVE  Lww!Unused(o, rev)
<1>1. \A v \in Versions : v.rev # rev
  BY DEF IndInv, IssuedIsCovered
<1>2. \A e \in published : e.rev # rev
  BY <1>1, VersionsIff
<1>3. ASSUME NEW j \in Instance, Recorded(j, o)
      PROVE  HeldVersion[j][o].rev # rev
  BY <1>1, <1>3, VersionsIff, HeldVersionAt
<1>4. \A j \in Instance : HeldVersion[j][o] = NoRecord \/ HeldVersion[j][o].rev # rev
  BY <1>3, HeldVersionAt
<1> QED BY <1>2, <1>4 DEF Lww!Unused

LEMMA LocalWrites ==
  ASSUME IndInv, HeldIsCovered, NEW i \in Instance, LocalStep(i)
  PROVE  Lww!Write(i)
<1>1. ASSUME NEW j \in Instance \ {i} PROVE HeldVersion'[j] = HeldVersion[j]
  <2>1. \A o \in Origin : record'[j][o] = record[j][o]
    BY DEF LocalStep
  <2> QED BY <2>1 DEF HeldVersion, Recorded
<1>2. ASSUME NEW o \in Origin, HeldVersion'[i][o] # HeldVersion[i][o]
      PROVE  /\ HeldVersion'[i][o] # NoRecord
             /\ Lww!Supersedes(HeldVersion'[i][o], HeldVersion[i][o])
             /\ HeldVersion'[i][o].rev.w = i
             /\ Lww!Unused(o, HeldVersion'[i][o].rev)
  <2>1. record'[i][o] # record[i][o]
    BY <1>2, HeldVersionAt DEF Recorded
  <2>2. Written(i, o)
    BY <2>1 DEF LocalStep
  <2> DEFINE rev == record'[i][o].rev
  <2>3. record'[i][o] \in Record /\ rev \in Revision /\ rev.w = i /\ ~Covers(clock[i], rev)
    BY <2>2 DEF Written, Record
  <2>4. HeldVersion'[i][o] # NoRecord /\ HeldVersion'[i][o].rev = rev
    BY <2>3, HeldVersionAt, HeldIsEntry DEF Recorded
  <2> HIDE DEF rev
  <2>5. Lww!Unused(o, rev)
    BY <2>3, FreshIsUnused
  <2>6. ASSUME Recorded(i, o) PROVE Lww!Before(HeldVersion[i][o].rev, rev)
    <3>1. record[i][o] \in Record /\ record[i][o].rev \in Revision /\ clock[i] \in Clock
      BY <2>6 DEF Recorded, IndInv, TypeOK, Record
    <3>2. HeldVersion[i][o].rev = record[i][o].rev
      BY <2>6, <3>1, HeldVersionAt, HeldIsEntry
    <3>3. Before(record[i][o].rev, rev)
      BY <2>3, <2>6, <3>1, BeyondClock DEF HeldIsCovered
    <3> QED BY <3>2, <3>3, SameOrder
  <2>7. Lww!Supersedes(HeldVersion'[i][o], HeldVersion[i][o])
    BY <2>4, <2>6, HeldVersionAt DEF Lww!Supersedes
  <2> QED BY <2>3, <2>4, <2>5, <2>7
<1>3. published \subseteq published'
  BY DEF LocalStep
<1>4. published' \subseteq published \cup {HeldVersion'[i][o] : o \in Origin}
  <2> SUFFICES ASSUME NEW e \in published', e \notin published
               PROVE  \E o \in Origin : e = HeldVersion'[i][o]
    OBVIOUS
  <2>1. PICK o \in Origin : Recorded(i, o)' /\ e = EntryOf(o, record'[i][o])
    BY DEF LocalStep
  <2> QED BY <2>1, HeldVersionAt
<1> QED BY <1>1, <1>2, <1>3, <1>4 DEF Lww!Write

LEMMA AdoptionAdopts ==
  ASSUME IndInv, NEW i \in Instance, NEW e \in published, AdoptStep(i, e)
  PROVE  Lww!Adopt(i)
<1>1. e \in Entry /\ e.origin \in Origin /\ e.rev \in Revision
  BY DEF IndInv, TypeOK, Entry
<1>2. HeldVersion'[i][e.origin] = e
  BY <1>1, HeldVersionAt, HeldIsEntry DEF AdoptStep, Recorded
<1>3. \A j \in Instance, o \in Origin :
        j # i \/ o # e.origin => HeldVersion'[j][o] = HeldVersion[j][o]
  BY HeldVersionAt DEF AdoptStep, Recorded
<1>4. Lww!Supersedes(e, HeldVersion[i][e.origin])
  <2>1. ASSUME Recorded(i, e.origin)
        PROVE  Lww!Before(HeldVersion[i][e.origin].rev, e.rev)
    <3>1. record[i][e.origin] \in Record
      BY <1>1, <2>1 DEF Recorded, IndInv, TypeOK
    <3>2. HeldVersion[i][e.origin].rev = record[i][e.origin].rev
      BY <1>1, <2>1, <3>1, HeldVersionAt, HeldIsEntry
    <3> QED BY <2>1, <3>2, SameOrder DEF AdoptStep, Newer
  <2> QED BY <1>1, <2>1, HeldVersionAt DEF Lww!Supersedes
<1>5. HeldVersion' = [HeldVersion EXCEPT ![i][e.origin] = e]
  <2>1. /\ HeldVersion = [j \in Instance |-> [o \in Origin |-> HeldVersion[j][o]]]
        /\ HeldVersion' = [j \in Instance |-> [o \in Origin |-> HeldVersion'[j][o]]]
    BY DEF HeldVersion
  <2> QED BY <1>1, <1>2, <1>3, <2>1
<1> QED BY <1>4, <1>5 DEF Lww!Adopt, AdoptStep

LEMMA QuietKeeps ==
  ASSUME IndInv, QuietStep
  PROVE  HeldVersion' = HeldVersion /\ published' = published
<1>1. ASSUME NEW j \in Instance, NEW o \in Origin
      PROVE  HeldVersion'[j][o] = HeldVersion[j][o]
  <2>1. CASE record'[j][o] = record[j][o]
    BY <2>1, HeldVersionAt DEF Recorded
  <2>2. CASE Recorded(j, o) /\ record'[j][o] = Adopted(EntryOf(o, record[j][o]), FALSE)
    <3>1. record[j][o] \in Record
      BY <2>2 DEF Recorded, IndInv, TypeOK
    <3>2. EntryOf(o, record[j][o]) \in Entry
      BY <3>1, HeldIsEntry
    <3>3. /\ record'[j][o] \in Record
          /\ EntryOf(o, record'[j][o]) = EntryOf(o, record[j][o])
      BY <2>2, <3>2, AdoptedType DEF EntryOf
    <3> QED BY <2>2, <3>3, HeldVersionAt, HeldIsEntry DEF Recorded
  <2> QED BY <2>1, <2>2 DEF QuietStep
<1>2. /\ HeldVersion = [j \in Instance |-> [o \in Origin |-> HeldVersion[j][o]]]
      /\ HeldVersion' = [j \in Instance |-> [o \in Origin |-> HeldVersion'[j][o]]]
  BY DEF HeldVersion
<1> QED BY <1>1, <1>2 DEF QuietStep

(* Without interruptions the instances implement the last-writer-wins      *)
(* store, whatever their number and however manifests travel.              *)
THEOREM Implementation ==
  ASSUME MaxFaults = 0
  PROVE  Spec => ImplementsLwwStore
<1>1. Init => Lww!LwwInit
  BY DEF Init, Recorded, HeldVersion, Lww!LwwInit
<1>2. CalmInv /\ [Next]_vars => CalmInv'
  BY CalmNext
<1>3. CalmInv /\ [Next]_vars => [Lww!LwwNext]_(Lww!lwwVars)
  <2> SUFFICES ASSUME CalmInv, [Next]_vars PROVE [Lww!LwwNext]_(Lww!lwwVars)
    OBVIOUS
  <2>1. IndInv /\ IndInv'
    BY NextKeeps DEF CalmInv
  <2>2. faults' = 0 /\ faults = 0
    BY <2>1 DEF IndInv, TypeOK
  <2>3. HeldIsCovered
    BY <2>2 DEF CalmInv
  <2>4. ASSUME NEW i \in Instance, LocalStep(i) PROVE Lww!LwwNext
    BY <2>1, <2>3, <2>4, LocalWrites DEF Lww!LwwNext
  <2>5. ASSUME NEW i \in Instance, NEW e \in published, AdoptStep(i, e) PROVE Lww!LwwNext
    BY <2>1, <2>5, AdoptionAdopts DEF Lww!LwwNext
  <2>6. QuietStep => UNCHANGED Lww!lwwVars
    BY <2>1, QuietKeeps DEF Lww!lwwVars
  <2> QED BY <2>1, <2>2, <2>4, <2>5, <2>6, StepKinds
<1> QED BY CalmInit, <1>1, <1>2, <1>3, PTL DEF Spec, ImplementsLwwStore, Lww!LwwSpec
=============================================================================
