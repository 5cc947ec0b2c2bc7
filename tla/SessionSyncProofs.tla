------------------------- MODULE SessionSyncProofs -------------------------
(***************************************************************************)
(* Proofs about SessionSync for any instances, sessions, links and bounds, *)
(* whatever users edit, delete and restore and wherever imports stop.      *)
(*                                                                         *)
(* A step concerns one session at one instance (StepIsSomewhere), so every *)
(* fact is shown where the step is and carried over elsewhere.  DataInv    *)
(* says what logs, records and archives hold of each other: Restorable is  *)
(* inductive only with the same fact about the live record, whose log an   *)
(* import may archive next.  RevInv adds that no revision borne by a       *)
(* version, a deleted one included, is beyond its writer's clock: that is  *)
(* why a new revision is new, which RevisionsAgree and the refinement of   *)
(* the last-writer-wins store both rest on.                                *)
(***************************************************************************)
EXTENDS SessionSyncRefinement, HlcProofs

-----------------------------------------------------------------------------
(* Sequences of changes *)

Content == Seq(Nat)

LEMMA PrefixReflexive ==
  ASSUME NEW a \in Content
  PROVE  Prefix(a, a)
BY DEF Prefix, Content

LEMMA PrefixAppend ==
  ASSUME NEW a \in Content, NEW b \in Content, NEW n \in Nat, Prefix(a, b)
  PROVE  Prefix(a, Append(b, n)) /\ Append(b, n) \in Content
BY DEF Prefix, Content

LEMMA PrefixTransitive ==
  ASSUME NEW a \in Content, NEW b \in Content, NEW c \in Content,
         Prefix(a, b), Prefix(b, c)
  PROVE  Prefix(a, c)
BY DEF Prefix, Content

LEMMA PartIsContent ==
  ASSUME NEW a \in Content, NEW n \in 0 .. Len(a)
  PROVE  SubSeq(a, 1, n) \in Content
BY DEF Content

-----------------------------------------------------------------------------
(* A step concerns one instance and one session *)

Shape ==
  /\ DOMAIN logs = Instance /\ DOMAIN attached = Instance /\ DOMAIN hidden = Instance
  /\ DOMAIN record = Instance /\ DOMAIN archives = Instance /\ DOMAIN erased = Instance
  /\ \A i \in Instance :
       /\ DOMAIN logs[i] = Session /\ DOMAIN attached[i] = Session /\ DOMAIN hidden[i] = Session
       /\ DOMAIN record[i] = Session /\ DOMAIN archives[i] = Session /\ DOMAIN erased[i] = Session
  /\ DOMAIN published = Instance /\ clock \in [Instance -> Clock]
  /\ changes \in 0 .. MaxChanges /\ stops \in 0 .. MaxStops

(* Nothing but s at i, and the clock and the bundles of i, is touched.     *)
Elsewhere(i, s) ==
  /\ \A k \in Instance, t \in Session : k # i \/ t # s =>
       /\ logs'[k][t] = logs[k][t] /\ attached'[k][t] = attached[k][t] /\ hidden'[k][t] = hidden[k][t]
       /\ record'[k][t] = record[k][t] /\ archives'[k][t] = archives[k][t] /\ erased'[k][t] = erased[k][t]
  /\ \A k \in Instance : k # i => clock'[k] = clock[k] /\ published'[k] = published[k]

LEMMA UserTouches ==
  ASSUME Shape, NEW i \in Instance, NEW s \in Session, User(i, s)
  PROVE  Shape' /\ Elsewhere(i, s)
<1> USE SessionBoundAssumption DEF Shape, Elsewhere, Change, desk, state, history
<1>1. CASE \E id \in DOMAIN logs[i][s] : Edit(i, s, id)
  BY <1>1 DEF Edit
<1>2. CASE \E id \in DOMAIN logs[i][s] : ToggleHidden(i, s, id)
  BY <1>2 DEF ToggleHidden
<1>3. CASE \E id \in DOMAIN logs[i][s] : DeleteSession(i, s, id)
  BY <1>3 DEF DeleteSession
<1>4. CASE \E d \in DOMAIN archives[i][s] : Restore(i, s, d)
  <2>1. PICK d \in DOMAIN archives[i][s] : Restore(i, s, d)
    BY <1>4
  <2>2. NextClock(i) \in Clock
    BY <2>1, TickAdvances DEF NextClock, Restore
  <2>3. QED
    BY <2>1, <2>2 DEF Restore
<1>5. CASE Unregister(i, s)
  BY <1>5 DEF Unregister
<1>6. QED
  BY <1>1, <1>2, <1>3, <1>4, <1>5 DEF User
LEMMA NextClockMoves ==
  ASSUME Shape, NEW i \in Instance, TickFits(clock[i], 0)
  PROVE  /\ NextClock(i) \in Clock
         /\ Covers(NextClock(i), clock[i]) /\ ~Covers(clock[i], NextClock(i))
         /\ NextRevision(i) \in Revision
         /\ Covers(NextClock(i), NextRevision(i)) /\ ~Covers(clock[i], NextRevision(i))
         /\ NextRevision(i).w = i
<1>1. clock[i] \in Clock
  BY DEF Shape
<1>2. /\ NextClock(i) \in Clock
      /\ Covers(NextClock(i), clock[i]) /\ ~Covers(clock[i], NextClock(i))
  BY <1>1, TickAdvances DEF NextClock
<1>3. QED
  BY <1>2, CoversReflexive DEF NextRevision, Stamp, Covers, Clock, Revision

LEMMA ObservedMoves ==
  ASSUME Shape, NEW j \in Instance, NEW e, e.rev \in Revision, Observed(j, e)
  PROVE  /\ clock' \in [Instance -> Clock]
         /\ \A k \in Instance : k # j => clock'[k] = clock[k]
         /\ Covers(clock'[j], clock[j]) /\ Covers(clock'[j], e.rev)
<1>1. clock[j] \in Clock /\ clock \in [Instance -> Clock]
  BY DEF Shape
<1>2. clock' = [clock EXCEPT ![j] = Observe(clock[j], e.rev, 0)] /\ ObserveFits(clock[j], e.rev, 0)
  BY DEF Observed
<1>3. /\ Observe(clock[j], e.rev, 0) \in Clock
      /\ Covers(Observe(clock[j], e.rev, 0), clock[j])
      /\ Covers(Observe(clock[j], e.rev, 0), e.rev)
  BY <1>1, <1>2, ObserveAdvances
<1>4. QED
  BY <1>1, <1>2, <1>3

LEMMA ExportTouches ==
  ASSUME Shape, NEW i \in Instance, NEW s \in Session, Export(i, s)
  PROVE  Shape' /\ Elsewhere(i, s)
<1> USE DEF Shape, Elsewhere, desk, state, history, Publish
<1>1. TickFits(clock[i], 0) => NextClock(i) \in Clock
  BY NextClockMoves
<1>2. CASE \E id \in DOMAIN logs[i][s] : ExportSession(i, s, id)
  BY <1>1, <1>2 DEF ExportSession
<1>3. CASE \E d \in DOMAIN archives[i][s] : ExportArchive(i, s, d)
  BY <1>1, <1>3 DEF ExportArchive
<1>4. CASE ExportMissing(i, s)
  BY <1>1, <1>4 DEF ExportMissing
<1>5. CASE ExportTombstone(i, s)
  BY <1>5 DEF ExportTombstone
<1>6. QED
  BY <1>2, <1>3, <1>4, <1>5 DEF Export

LEMMA ImportTouches ==
  ASSUME Shape, NEW j \in Instance, NEW e, e.session \in Session, e.rev \in Revision, Import(j, e)
  PROVE  Shape' /\ Elsewhere(j, e.session)
<1> USE DEF Shape, Elsewhere, desk, state, history, Attach, SetHidden, Written
<1>1. Observed(j, e) => /\ clock' \in [Instance -> Clock]
                        /\ \A k \in Instance : k # j => clock'[k] = clock[k]
  BY ObservedMoves
<1>2. CASE ApplyTombstone(j, e)
  BY <1>1, <1>2 DEF ApplyTombstone
<1>3. CASE ApplySame(j, e)
  BY <1>3 DEF ApplySame
<1>4. CASE ApplyMembership(j, e)
  BY <1>1, <1>4 DEF ApplyMembership
<1>5. CASE ApplyLive(j, e)
  BY <1>1, <1>5 DEF ApplyLive
<1>6. CASE ApplyConflicts(j, e)
  BY <1>6 DEF ApplyConflicts
<1>7. CASE ApplyArchive(j, e)
  BY <1>1, <1>7 DEF ApplyArchive
<1>8. CASE ApplyArchiveSame(j, e)
  BY <1>8 DEF ApplyArchiveSame
<1>9. CASE ApplyArchiveState(j, e)
  BY <1>1, <1>9 DEF ApplyArchiveState
<1>10. CASE ApplyStops(j, e)
  BY <1>10, SessionBoundAssumption DEF ApplyStops
<1>11. QED
  BY <1>2, <1>3, <1>4, <1>5, <1>6, <1>7, <1>8, <1>9, <1>10 DEF Import
-----------------------------------------------------------------------------
(* What logs, records and archives of one session say of each other: L are *)
(* its logs, A its archives, r its record, E the ids of logs once deleted. *)

HasContents(L) == \A id \in DOMAIN L : L[id] \in Content

Grows(L, M) == \A id \in DOMAIN L : id \in DOMAIN M /\ Prefix(L[id], M[id])

Restores(A, L, E) ==
  \A d \in DOMAIN A :
    /\ d.content \in Content /\ A[d].rev \in Revision
    /\ A[d].local \in DOMAIN L
    /\ A[d].local \notin E => Prefix(d.content, L[A[d].local])

Holds(r, L, E) ==
  r.local \notin E => r.local \in DOMAIN L /\ Prefix(r.digest.content, L[r.local])

IsRecord(r) ==
  /\ r.rev \in Revision /\ r.digest.content \in Content
  /\ r.hidden \in BOOLEAN /\ r.deleted \in BOOLEAN
  /\ r.deleted => r.digest = Deleted

IsEntry(e) ==
  /\ e.session \in Session /\ e.rev \in Revision
  /\ e.digest.content \in Content /\ e.hidden \in BOOLEAN
  /\ e.kind \in {"live", "tombstone", "branch"}
  /\ e.kind = "tombstone" => e.digest = Deleted /\ ~e.hidden
  /\ e.kind = "branch" => e.hidden

Sound(i, s) ==
  /\ HasContents(logs[i][s])
  /\ attached[i][s] \cup hidden[i][s] \subseteq DOMAIN logs[i][s]
  /\ Recorded(i, s) => IsRecord(record[i][s])
  /\ Live(i, s) => Holds(record[i][s], logs[i][s], erased[i][s])
  /\ Restores(archives[i][s], logs[i][s], erased[i][s])

DataInv ==
  /\ Shape
  /\ \A i \in Instance : \A e \in published[i] : IsEntry(e)
  /\ \A i \in Instance, s \in Session : Sound(i, s)

LEMMA RestoresGrow ==
  ASSUME NEW A, NEW L, NEW M, NEW E,
         Restores(A, L, E), HasContents(L), HasContents(M), Grows(L, M)
  PROVE  Restores(A, M, E)
<1> SUFFICES ASSUME NEW d \in DOMAIN A
             PROVE  /\ d.content \in Content /\ A[d].rev \in Revision
                    /\ A[d].local \in DOMAIN M
                    /\ A[d].local \notin E => Prefix(d.content, M[A[d].local])
  BY DEF Restores
<1>1. /\ d.content \in Content /\ A[d].rev \in Revision
      /\ A[d].local \in DOMAIN L /\ L[A[d].local] \in Content
      /\ A[d].local \notin E => Prefix(d.content, L[A[d].local])
  BY DEF Restores, HasContents
<1>2. A[d].local \in DOMAIN M /\ M[A[d].local] \in Content /\ Prefix(L[A[d].local], M[A[d].local])
  BY <1>1 DEF Grows, HasContents
<1>3. QED
  BY <1>1, <1>2, PrefixTransitive

LEMMA HoldsGrow ==
  ASSUME NEW r, NEW L, NEW M, NEW E, r.digest.content \in Content,
         Holds(r, L, E), HasContents(L), HasContents(M), Grows(L, M)
  PROVE  Holds(r, M, E)
<1> SUFFICES ASSUME r.local \notin E
             PROVE  r.local \in DOMAIN M /\ Prefix(r.digest.content, M[r.local])
  BY DEF Holds
<1>1. r.local \in DOMAIN L /\ Prefix(r.digest.content, L[r.local]) /\ L[r.local] \in Content
  BY DEF Holds, HasContents
<1>2. r.local \in DOMAIN M /\ M[r.local] \in Content /\ Prefix(L[r.local], M[r.local])
  BY <1>1 DEF Grows, HasContents
<1>3. QED
  BY <1>1, <1>2, PrefixTransitive

LEMMA PutGrows ==
  ASSUME NEW L, NEW id, NEW c \in Content, HasContents(L), id \in DOMAIN L => Prefix(L[id], c)
  PROVE  /\ HasContents(Put(L, id, c)) /\ Grows(L, Put(L, id, c))
         /\ id \in DOMAIN Put(L, id, c) /\ Put(L, id, c)[id] = c
         /\ DOMAIN L \subseteq DOMAIN Put(L, id, c)
BY PrefixReflexive DEF HasContents, Grows, Put

LEMMA NewIsRecord ==
  ASSUME NEW rev \in Revision, NEW d, d.content \in Content, NEW h \in BOOLEAN, NEW id
  PROVE  LET r == [rev |-> rev, digest |-> d, hidden |-> h, deleted |-> FALSE, local |-> id]
         IN  IsRecord(r) /\ ~r.deleted /\ r.local = id /\ r.digest = d
BY DEF IsRecord

LEMMA GrowsReflexive ==
  ASSUME NEW L, HasContents(L)
  PROVE  Grows(L, L)
BY PrefixReflexive DEF HasContents, Grows

(* archiveCurrent() keeps every archive restorable, the new one included.  *)
LEMMA ArchivesWithRestores ==
  ASSUME NEW i \in Instance, NEW s \in Session, Sound(i, s)
  PROVE  /\ Restores(ArchivesWith(i, s), logs[i][s], erased[i][s])
         /\ HiddenWith(i, s) \subseteq DOMAIN logs[i][s]
<1>1. CASE Archivable(i, s)
  <2>1. /\ Live(i, s) /\ IsRecord(record[i][s]) /\ Holds(record[i][s], logs[i][s], erased[i][s])
        /\ record[i][s].local \in DOMAIN logs[i][s]
    BY <1>1 DEF Archivable, Sound, Live, HasLog
  <2>2. QED
    BY <1>1, <2>1 DEF ArchivesWith, HiddenWith, Sound, Restores, Holds, IsRecord, Put
<1>2. CASE ~Archivable(i, s)
  BY <1>2 DEF ArchivesWith, HiddenWith, Sound
<1>3. QED
  BY <1>1, <1>2
-----------------------------------------------------------------------------
(* Every step keeps what it touches sound *)

LEMMA EditSound ==
  ASSUME DataInv, NEW i \in Instance, NEW s \in Session, NEW id, Edit(i, s, id)
  PROVE  Sound(i, s)'
<1>1. Shape /\ Sound(i, s)
  BY DEF DataInv
<1> DEFINE L == logs[i][s]
           M == logs'[i][s]
<1>2. /\ id \in DOMAIN L /\ L[id] \in Content /\ changes + 1 \in Nat
      /\ DOMAIN M = DOMAIN L
      /\ \A x \in DOMAIN M : M[x] = IF x = id THEN Append(L[id], changes + 1) ELSE L[x]
  BY <1>1 DEF Edit, Shape, Sound, HasContents, HasLog
<1>3. HasContents(M) /\ Grows(L, M)
  BY <1>1, <1>2, PrefixAppend, PrefixReflexive DEF Sound, HasContents, Grows
<1>4. /\ attached' = attached /\ hidden' = hidden /\ record' = record
      /\ archives' = archives /\ erased' = erased
  BY DEF Edit, state
<1>5. Restores(archives[i][s], M, erased[i][s])
  BY <1>1, <1>3, RestoresGrow DEF Sound
<1>6. Live(i, s) => Holds(record[i][s], M, erased[i][s])
  BY <1>1, <1>3, HoldsGrow DEF Sound, Live, IsRecord
<1>7. QED
  BY <1>1, <1>2, <1>3, <1>4, <1>5, <1>6 DEF Sound, Recorded, Live

LEMMA ToggleHiddenSound ==
  ASSUME DataInv, NEW i \in Instance, NEW s \in Session, NEW id, ToggleHidden(i, s, id)
  PROVE  Sound(i, s)'
<1>1. Shape /\ Sound(i, s)
  BY DEF DataInv
<1>2. QED
  BY <1>1 DEF ToggleHidden, Shape, Sound, HasLog, Recorded, Live, state

LEMMA DeleteSessionSound ==
  ASSUME DataInv, NEW i \in Instance, NEW s \in Session, NEW id, DeleteSession(i, s, id)
  PROVE  Sound(i, s)'
<1>1. Shape /\ Sound(i, s)
  BY DEF DataInv
<1> DEFINE L == logs[i][s]
           M == logs'[i][s]
           E == erased'[i][s]
<1>2. /\ M = Drop(L, id) /\ E = erased[i][s] \cup {id}
      /\ attached'[i][s] = attached[i][s] \ {id} /\ hidden'[i][s] = hidden[i][s] \ {id}
      /\ record' = record /\ archives' = archives
  BY <1>1 DEF DeleteSession, Shape, state
<1>3. DOMAIN M = DOMAIN L \ {id} /\ \A x \in DOMAIN M : M[x] = L[x]
  BY <1>2 DEF Drop
<1>4. \A d \in DOMAIN archives[i][s] : archives[i][s][d].local # id
  BY DEF DeleteSession, ArchiveLocals
<1>5. Restores(archives[i][s], M, E)
  BY <1>1, <1>2, <1>3, <1>4 DEF Sound, Restores
<1>6. Live(i, s) => Holds(record[i][s], M, E)
  BY <1>1, <1>2, <1>3 DEF Sound, Holds
<1>7. QED
  BY <1>1, <1>2, <1>3, <1>5, <1>6 DEF Sound, Recorded, Live, HasContents

LEMMA RestoreSound ==
  ASSUME DataInv, NEW i \in Instance, NEW s \in Session, NEW d, Restore(i, s, d)
  PROVE  Sound(i, s)'
<1>1. Shape /\ Sound(i, s)
  BY DEF DataInv
<1> DEFINE id == archives[i][s][d].local
           A == IF Live(i, s) /\ record[i][s].local # id THEN ArchivesWith(i, s) ELSE archives[i][s]
           H == IF Live(i, s) /\ record[i][s].local # id THEN HiddenWith(i, s) ELSE hidden[i][s]
           r == [rev |-> NextRevision(i), digest |-> d, hidden |-> TRUE, deleted |-> FALSE, local |-> id]
<1>2. /\ d \in DOMAIN archives[i][s] /\ id \in DOMAIN logs[i][s] /\ TickFits(clock[i], 0)
      /\ archives'[i][s] = Drop(A, d) /\ hidden'[i][s] = H \ {id} /\ record'[i][s] = r
      /\ logs' = logs /\ attached' = attached /\ erased' = erased
  BY <1>1 DEF Restore, Shape, HasLog
<1>3. Restores(A, logs[i][s], erased[i][s]) /\ H \subseteq DOMAIN logs[i][s]
  BY <1>1, ArchivesWithRestores DEF Sound
<1>4. Restores(Drop(A, d), logs[i][s], erased[i][s])
  BY <1>3 DEF Restores, Drop
<1>5. IsRecord(r) /\ Holds(r, logs[i][s], erased[i][s])
  BY <1>1, <1>2, NextClockMoves DEF IsRecord, Holds, Sound, Restores
<1> HIDE DEF r, A, H
<1>6. QED
  BY <1>1, <1>2, <1>3, <1>4, <1>5 DEF Sound, Recorded, Live

LEMMA UnregisterSound ==
  ASSUME DataInv, NEW i \in Instance, NEW s \in Session, Unregister(i, s)
  PROVE  Sound(i, s)'
<1>1. Shape /\ Sound(i, s)
  BY DEF DataInv
<1>2. QED
  BY <1>1 DEF Unregister, Shape, Sound, Recorded, Live, state

LEMMA ExportSessionSound ==
  ASSUME DataInv, NEW i \in Instance, NEW s \in Session, NEW id, ExportSession(i, s, id)
  PROVE  Sound(i, s)' /\ \A e \in published'[i] : IsEntry(e)
<1>1. Shape /\ Sound(i, s) /\ \A e \in published[i] : IsEntry(e)
  BY DEF DataInv
<1> DEFINE new == [rev |-> NextRevision(i), digest |-> Digest(i, s, id), hidden |-> id \in hidden[i][s],
                   deleted |-> FALSE, local |-> id]
           r == IF Changed(i, s, id) THEN new ELSE record[i][s]
<1>2. /\ id \in DOMAIN logs[i][s]
      /\ Changed(i, s, id) => TickFits(clock[i], 0)
      /\ record'[i][s] = r /\ archives' = archives
      /\ logs' = logs /\ attached' = attached /\ hidden' = hidden /\ erased' = erased
      /\ published'[i] = published[i] \/ published'[i] = published[i] \cup {LiveEntry(i, s, r)}
  BY <1>1 DEF ExportSession, Shape, HasLog, desk, history, Exportable, Publish
<1>3. ASSUME Changed(i, s, id)
      PROVE  IsRecord(new) /\ ~new.deleted /\ Holds(new, logs[i][s], erased[i][s])
  <2>1. Digest(i, s, id).content = logs[i][s][id] /\ logs[i][s][id] \in Content
    BY <1>1, <1>2 DEF Sound, HasContents, Digest, DigestOf, Log
  <2>2. NextRevision(i) \in Revision
    BY <1>1, <1>2, <1>3, NextClockMoves
  <2> DEFINE h == id \in hidden[i][s]
  <2>3. h \in BOOLEAN
    OBVIOUS
  <2>4. new = [rev |-> NextRevision(i), digest |-> Digest(i, s, id), hidden |-> h,
               deleted |-> FALSE, local |-> id]
    OBVIOUS
  <2> HIDE DEF new, h
  <2>5. IsRecord(new) /\ ~new.deleted /\ new.local = id /\ new.digest = Digest(i, s, id)
    BY <2>1, <2>2, <2>3, <2>4, NewIsRecord
  <2>6. QED
    BY <1>2, <2>1, <2>5, PrefixReflexive DEF Holds
<1>4. ASSUME ~Changed(i, s, id)
      PROVE  /\ IsRecord(record[i][s]) /\ ~record[i][s].deleted
             /\ Holds(record[i][s], logs[i][s], erased[i][s])
  <2>1. Recorded(i, s) /\ ~record[i][s].deleted
    BY <1>4 DEF Changed
  <2>2. QED
    BY <1>1, <2>1 DEF Live, Sound
<1> HIDE DEF new
<1>5. IsRecord(r) /\ ~r.deleted /\ Holds(r, logs[i][s], erased[i][s])
  BY <1>3, <1>4
<1>6. IsEntry(LiveEntry(i, s, r))
  BY <1>5 DEF IsEntry, LiveEntry, IsRecord
<1> HIDE DEF r
<1>7. QED
  BY <1>1, <1>2, <1>5, <1>6 DEF Sound, Recorded, Live

LEMMA ExportArchiveSound ==
  ASSUME DataInv, NEW i \in Instance, NEW s \in Session, NEW d, ExportArchive(i, s, d)
  PROVE  Sound(i, s)' /\ \A e \in published'[i] : IsEntry(e)
<1>1. Shape /\ Sound(i, s) /\ \A e \in published[i] : IsEntry(e)
  BY DEF DataInv
<1> DEFINE a == archives[i][s][d]
           now == Digest(i, s, a.local)
           rev == IF now = d THEN a.rev ELSE NextRevision(i)
           b == [rev |-> rev, local |-> a.local]
<1>2. /\ d \in DOMAIN archives[i][s] /\ a.local \in DOMAIN logs[i][s]
      /\ now # d => TickFits(clock[i], 0)
      /\ archives'[i][s] = Put(Drop(archives[i][s], d), now, b) /\ record' = record
      /\ logs' = logs /\ attached' = attached /\ hidden' = hidden /\ erased' = erased
      /\ published'[i] = published[i] \/ published'[i] = published[i] \cup {BranchEntry(s, now, rev)}
  BY <1>1 DEF ExportArchive, Shape, HasLog, desk, history, Publish
<1>3. rev \in Revision /\ now.content \in Content
  BY <1>1, <1>2, NextClockMoves DEF Sound, Restores, HasContents, Digest, DigestOf, Log
<1>4. IsEntry(BranchEntry(s, now, rev))
  BY <1>3 DEF IsEntry, BranchEntry
<1>5. /\ DOMAIN Put(Drop(archives[i][s], d), now, b) \subseteq DOMAIN archives[i][s] \cup {now}
      /\ \A x \in DOMAIN Put(Drop(archives[i][s], d), now, b) :
           Put(Drop(archives[i][s], d), now, b)[x] = IF x = now THEN b ELSE archives[i][s][x]
  BY DEF Put, Drop
<1>7. Prefix(now.content, logs[i][s][a.local])
  BY <1>1, <1>2, PrefixReflexive DEF Sound, HasContents, Digest, DigestOf, Log
<1>8. Restores(Put(Drop(archives[i][s], d), now, b), logs[i][s], erased[i][s])
  <2> SUFFICES ASSUME NEW x \in DOMAIN Put(Drop(archives[i][s], d), now, b)
               PROVE  LET A == Put(Drop(archives[i][s], d), now, b)
                      IN  /\ x.content \in Content /\ A[x].rev \in Revision
                          /\ A[x].local \in DOMAIN logs[i][s]
                          /\ A[x].local \notin erased[i][s] => Prefix(x.content, logs[i][s][A[x].local])
    BY DEF Restores
  <2>1. CASE x = now
    <3>1. Put(Drop(archives[i][s], d), now, b)[x] = b /\ b.rev = rev /\ b.local = a.local
      BY <2>1, <1>5
    <3>2. QED
      BY <2>1, <3>1, <1>2, <1>3, <1>7
  <2>2. CASE x # now
    BY <2>2, <1>1, <1>5 DEF Sound, Restores
  <2>3. QED
    BY <2>1, <2>2
<1> HIDE DEF a, now, rev, b
<1>9. QED
  BY <1>1, <1>2, <1>4, <1>8 DEF Sound, Recorded, Live

LEMMA ExportMissingSound ==
  ASSUME DataInv, NEW i \in Instance, NEW s \in Session, ExportMissing(i, s)
  PROVE  Sound(i, s)' /\ \A e \in published'[i] : IsEntry(e)
<1>1. Shape /\ Sound(i, s) /\ \A e \in published[i] : IsEntry(e)
  BY DEF DataInv
<1> DEFINE r == [rev |-> NextRevision(i), digest |-> Deleted, hidden |-> record[i][s].hidden,
                 deleted |-> TRUE, local |-> record[i][s].local]
<1>2. /\ Live(i, s) /\ TickFits(clock[i], 0)
      /\ record'[i][s] = r /\ archives' = archives
      /\ logs' = logs /\ attached' = attached /\ hidden' = hidden /\ erased' = erased
      /\ published'[i] = published[i] \cup {Tombstone(s, NextRevision(i))}
  BY <1>1 DEF ExportMissing, Shape, desk, history, Publish
<1>3. NextRevision(i) \in Revision /\ Deleted.content \in Content
  BY <1>1, <1>2, NextClockMoves DEF Deleted, Content
<1>4. IsRecord(record[i][s])
  BY <1>1, <1>2 DEF Sound, Live
<1>6. IsRecord(r) /\ r.deleted
  BY <1>3, <1>4 DEF IsRecord
<1>7. IsEntry(Tombstone(s, NextRevision(i)))
  BY <1>3 DEF IsEntry, Tombstone
<1> HIDE DEF r
<1>8. QED
  BY <1>1, <1>2, <1>6, <1>7 DEF Sound, Recorded, Live

LEMMA ExportTombstoneSound ==
  ASSUME DataInv, NEW i \in Instance, NEW s \in Session, ExportTombstone(i, s)
  PROVE  Sound(i, s)' /\ \A e \in published'[i] : IsEntry(e)
<1>1. Shape /\ Sound(i, s) /\ \A e \in published[i] : IsEntry(e)
  BY DEF DataInv
<1>2. /\ desk' = desk /\ state' = state /\ erased' = erased
      /\ published'[i] = published[i] \cup {Tombstone(s, record[i][s].rev)}
  BY <1>1 DEF ExportTombstone, Shape, desk, state, history, Publish
<1>3. record[i][s].rev \in Revision /\ Deleted.content \in Content
  BY <1>1 DEF ExportTombstone, Sound, IsRecord, Deleted, Content
<1>4. IsEntry(Tombstone(s, record[i][s].rev))
  BY <1>3 DEF IsEntry, Tombstone
<1>5. QED
  BY <1>1, <1>2, <1>4 DEF Sound, Recorded, Live, desk, state
LEMMA RecordOfIsRecord ==
  ASSUME NEW e, IsEntry(e), NEW id
  PROVE  /\ IsRecord(RecordOf(e, id)) /\ RecordOf(e, id).local = id
         /\ RecordOf(e, id).digest = e.digest
         /\ RecordOf(e, id).deleted <=> e.kind = "tombstone"
<1> DEFINE dead == e.kind = "tombstone"
<1>1. dead \in BOOLEAN
  OBVIOUS
<1>2. RecordOf(e, id) = [rev |-> e.rev, digest |-> e.digest, hidden |-> e.hidden, deleted |-> dead, local |-> id]
  BY DEF RecordOf
<1>3. e.rev \in Revision /\ e.digest.content \in Content /\ e.hidden \in BOOLEAN /\ (dead => e.digest = Deleted)
  BY DEF IsEntry
<1> HIDE DEF dead
<1>4. IsRecord(RecordOf(e, id)) /\ RecordOf(e, id).local = id /\ RecordOf(e, id).digest = e.digest
      /\ RecordOf(e, id).deleted = dead
  BY <1>1, <1>2, <1>3 DEF IsRecord
<1>5. QED
  BY <1>4 DEF dead

LEMMA ApplyTombstoneSound ==
  ASSUME DataInv, NEW j \in Instance, NEW e, IsEntry(e), ApplyTombstone(j, e)
  PROVE  Sound(j, e.session)'
<1> DEFINE s == e.session
           id == IF Recorded(j, s) THEN record[j][s].local ELSE SyncId(Deleted)
<1>1. Shape /\ s \in Session /\ Sound(j, s)
  BY DEF DataInv, IsEntry
<1>2. /\ archives'[j][s] = ArchivesWith(j, s) /\ hidden'[j][s] = HiddenWith(j, s)
      /\ record'[j][s] = RecordOf(e, id) /\ e.kind = "tombstone"
      /\ logs' = logs /\ attached' = attached /\ erased' = erased
  BY <1>1 DEF ApplyTombstone, Shape, history
<1>3. IsRecord(RecordOf(e, id)) /\ RecordOf(e, id).deleted
  BY <1>2, RecordOfIsRecord
<1> HIDE DEF id
<1>4. QED
  BY <1>1, <1>2, <1>3, ArchivesWithRestores DEF Sound, Recorded, Live

LEMMA ApplySameSound ==
  ASSUME DataInv, NEW j \in Instance, NEW e, IsEntry(e), ApplySame(j, e)
  PROVE  Sound(j, e.session)'
<1>1. Shape /\ e.session \in Session /\ Sound(j, e.session)
  BY DEF DataInv, IsEntry
<1>2. QED
  BY <1>1 DEF ApplySame, Shape, Sound, Recorded, Live, HasLog, Attach, state, history

LEMMA ApplyMembershipSound ==
  ASSUME DataInv, NEW j \in Instance, NEW e, IsEntry(e), ApplyMembership(j, e)
  PROVE  Sound(j, e.session)'
<1> DEFINE s == e.session
           id == record[j][s].local
<1>1. Shape /\ s \in Session /\ Sound(j, s)
  BY DEF DataInv, IsEntry
<1>2. /\ Live(j, s) /\ record[j][s].digest = e.digest /\ id \in DOMAIN logs[j][s]
      /\ attached'[j][s] = attached[j][s] \cup {id}
      /\ hidden'[j][s] \subseteq hidden[j][s] \cup {id}
      /\ record'[j][s] = RecordOf(e, id) /\ logs' = logs /\ archives' = archives /\ erased' = erased
  BY <1>1 DEF ApplyMembership, StateOnly, Attach, SetHidden, HasLog, Shape, history
<1>3. IsRecord(RecordOf(e, id)) /\ RecordOf(e, id).local = id /\ RecordOf(e, id).digest = e.digest
  BY RecordOfIsRecord
<1>4. Holds(RecordOf(e, id), logs[j][s], erased[j][s])
  BY <1>1, <1>2, <1>3 DEF Sound, Holds
<1> HIDE DEF id
<1>5. QED
  BY <1>1, <1>2, <1>3, <1>4 DEF Sound, Recorded, Live

(* An entry's log is written over nothing, or over its own beginning.      *)
LEMMA WrittenGrows ==
  ASSUME DataInv, NEW j \in Instance, NEW e, IsEntry(e), Continues(j, e), Written(j, e)
  PROVE  LET L == logs[j][e.session]
             M == logs'[j][e.session]
         IN  /\ HasContents(M) /\ Grows(L, M) /\ DOMAIN L \subseteq DOMAIN M
             /\ Prepared(e).local \in DOMAIN M /\ M[Prepared(e).local] = e.digest.content
<1>1. Shape /\ e.session \in Session /\ HasContents(logs[j][e.session]) /\ e.digest.content \in Content
  BY DEF DataInv, IsEntry, Sound
<1>2. /\ logs'[j][e.session] = Put(logs[j][e.session], Prepared(e).local, e.digest.content)
      /\ Prepared(e).local \in DOMAIN logs[j][e.session]
           => Prefix(logs[j][e.session][Prepared(e).local], e.digest.content)
  BY <1>1 DEF Written, Continues, Prepared, HasLog, Log, Shape
<1>3. QED
  BY <1>1, <1>2, PutGrows

LEMMA ApplyLiveSound ==
  ASSUME DataInv, NEW j \in Instance, NEW e, IsEntry(e), ApplyLive(j, e)
  PROVE  Sound(j, e.session)'
<1> DEFINE s == e.session
           id == Prepared(e).local
           M == logs'[j][s]
<1>1. Shape /\ s \in Session /\ Sound(j, s) /\ e.digest.content \in Content
  BY DEF DataInv, IsEntry
<1>2. /\ Continues(j, e) /\ Written(j, e)
      /\ archives'[j][s] = ArchivesAt(j, e)
      /\ hidden'[j][s] \subseteq HiddenAt(j, e) \cup {id}
      /\ attached'[j][s] = attached[j][s] \cup {id}
      /\ record'[j][s] = RecordOf(e, id) /\ erased' = erased
  BY <1>1 DEF ApplyLive, Attach, Shape, history
<1>3. /\ HasContents(M) /\ Grows(logs[j][s], M) /\ DOMAIN logs[j][s] \subseteq DOMAIN M
      /\ id \in DOMAIN M /\ M[id] = e.digest.content
  BY <1>2, WrittenGrows
<1>4. Restores(ArchivesAt(j, e), logs[j][s], erased[j][s]) /\ HiddenAt(j, e) \subseteq DOMAIN logs[j][s]
  BY <1>1, ArchivesWithRestores DEF ArchivesAt, HiddenAt, Sound
<1>5. Restores(ArchivesAt(j, e), M, erased[j][s])
  BY <1>1, <1>3, <1>4, RestoresGrow DEF Sound
<1>6. IsRecord(RecordOf(e, id)) /\ RecordOf(e, id).local = id /\ RecordOf(e, id).digest = e.digest
  BY RecordOfIsRecord
<1>7. Holds(RecordOf(e, id), M, erased[j][s])
  BY <1>1, <1>3, <1>6, PrefixReflexive DEF Holds
<1> HIDE DEF id
<1>8. QED
  BY <1>1, <1>2, <1>3, <1>4, <1>5, <1>6, <1>7 DEF Sound, Recorded, Live

LEMMA ApplyConflictsSound ==
  ASSUME DataInv, NEW j \in Instance, NEW e, IsEntry(e), ApplyConflicts(j, e)
  PROVE  Sound(j, e.session)'
<1> DEFINE s == e.session
<1>1. Shape /\ s \in Session /\ Sound(j, s)
  BY DEF DataInv, IsEntry
<1>2. /\ archives'[j][s] = ArchivesAt(j, e) /\ hidden'[j][s] = HiddenAt(j, e)
      /\ logs' = logs /\ attached' = attached /\ record' = record /\ erased' = erased
  BY <1>1 DEF ApplyConflicts, Shape, history
<1>3. Restores(ArchivesAt(j, e), logs[j][s], erased[j][s]) /\ HiddenAt(j, e) \subseteq DOMAIN logs[j][s]
  BY <1>1, ArchivesWithRestores DEF ArchivesAt, HiddenAt, Sound
<1>4. QED
  BY <1>1, <1>2, <1>3 DEF Sound, Recorded, Live

LEMMA ApplyArchiveSound ==
  ASSUME DataInv, NEW j \in Instance, NEW e, IsEntry(e), ApplyArchive(j, e)
  PROVE  Sound(j, e.session)'
<1> DEFINE s == e.session
           id == Prepared(e).local
           M == logs'[j][s]
           a == [rev |-> e.rev, local |-> id]
<1>1. Shape /\ s \in Session /\ Sound(j, s) /\ e.digest.content \in Content /\ e.rev \in Revision
  BY DEF DataInv, IsEntry
<1>2. /\ Continues(j, e) /\ Written(j, e)
      /\ archives'[j][s] = Put(archives[j][s], e.digest, a)
      /\ hidden'[j][s] = hidden[j][s] \cup {id} /\ attached'[j][s] = attached[j][s] \cup {id}
      /\ record' = record /\ erased' = erased
  BY <1>1 DEF ApplyArchive, Attach, Shape, history
<1>3. /\ HasContents(M) /\ Grows(logs[j][s], M) /\ DOMAIN logs[j][s] \subseteq DOMAIN M
      /\ id \in DOMAIN M /\ M[id] = e.digest.content
  BY <1>2, WrittenGrows
<1>4. Restores(archives[j][s], M, erased[j][s])
  BY <1>1, <1>3, RestoresGrow DEF Sound
<1>5. Live(j, s) => Holds(record[j][s], M, erased[j][s])
  BY <1>1, <1>3, HoldsGrow DEF Sound, Live, IsRecord
<1>6. Restores(Put(archives[j][s], e.digest, a), M, erased[j][s])
  BY <1>1, <1>3, <1>4, PrefixReflexive DEF Restores, Put
<1> HIDE DEF id, a
<1>7. QED
  BY <1>1, <1>2, <1>3, <1>5, <1>6 DEF Sound, Recorded, Live

LEMMA ApplyArchiveSameSound ==
  ASSUME DataInv, NEW j \in Instance, NEW e, IsEntry(e), ApplyArchiveSame(j, e)
  PROVE  Sound(j, e.session)'
<1>1. Shape /\ e.session \in Session /\ Sound(j, e.session)
  BY DEF DataInv, IsEntry
<1>2. QED
  BY <1>1 DEF ApplyArchiveSame, HereAs, Shape, Sound, Recorded, Live, HasLog, Attach, state, history

LEMMA ApplyArchiveStateSound ==
  ASSUME DataInv, NEW j \in Instance, NEW e, IsEntry(e), ApplyArchiveState(j, e)
  PROVE  Sound(j, e.session)'
<1> DEFINE s == e.session
           id == archives[j][s][e.digest].local
           a == [rev |-> e.rev, local |-> id]
<1>1. Shape /\ s \in Session /\ Sound(j, s) /\ e.rev \in Revision
  BY DEF DataInv, IsEntry
<1>2. /\ e.digest \in DOMAIN archives[j][s] /\ id \in DOMAIN logs[j][s]
      /\ archives'[j][s] = Put(archives[j][s], e.digest, a)
      /\ hidden'[j][s] = hidden[j][s] \cup {id} /\ attached'[j][s] = attached[j][s] \cup {id}
      /\ logs' = logs /\ record' = record /\ erased' = erased
  BY <1>1 DEF ApplyArchiveState, HereAs, HasLog, Attach, Shape, history
<1>3. Restores(Put(archives[j][s], e.digest, a), logs[j][s], erased[j][s])
  BY <1>1, <1>2 DEF Restores, Put, Sound
<1> HIDE DEF id, a
<1>4. QED
  BY <1>1, <1>2, <1>3 DEF Sound, Recorded, Live
(* A log that is written in part is a new one, so no archive names it, and *)
(* no live version does unless its user has deleted that log.              *)
LEMMA ApplyStopsSound ==
  ASSUME DataInv, NEW j \in Instance, NEW e, IsEntry(e), ApplyStops(j, e)
  PROVE  Sound(j, e.session)' /\ Grows(logs[j][e.session], logs'[j][e.session])
<1> DEFINE s == e.session
           id == Prepared(e).local
           L == logs[j][s]
           M == logs'[j][s]
<1>1. Shape /\ s \in Session /\ Sound(j, s) /\ e.digest.content \in Content
  BY DEF DataInv, IsEntry
<1>2. /\ Continues(j, e)
      /\ archives'[j][s] = ArchivesAt(j, e) /\ hidden'[j][s] = HiddenAt(j, e)
      /\ record' = record /\ erased' = erased
  BY <1>1 DEF ApplyStops, Shape
<1>3. Restores(ArchivesAt(j, e), L, erased[j][s]) /\ HiddenAt(j, e) \subseteq DOMAIN L
  BY <1>1, ArchivesWithRestores DEF ArchivesAt, HiddenAt, Sound
<1>4. /\ HasContents(M) /\ Grows(L, M) /\ DOMAIN L \subseteq DOMAIN M
      /\ attached'[j][s] \subseteq DOMAIN M
  <2>1. CASE UNCHANGED <<logs, attached>>
    BY <1>1, <2>1, GrowsReflexive DEF Sound
  <2>2. CASE /\ ~HasLog(j, s, id)
             /\ \E n \in 0 .. Len(e.digest.content) - 1 :
                  logs' = [logs EXCEPT ![j][s] = Put(@, id, SubSeq(Prepared(e).content, 1, n))]
             /\ UNCHANGED attached
    <3>1. PICK n \in 0 .. Len(e.digest.content) - 1 :
            logs' = [logs EXCEPT ![j][s] = Put(@, id, SubSeq(e.digest.content, 1, n))]
      BY <2>2 DEF Prepared
    <3>2. SubSeq(e.digest.content, 1, n) \in Content
      BY <1>1, PartIsContent DEF Content
    <3>3. M = Put(L, id, SubSeq(e.digest.content, 1, n)) /\ id \notin DOMAIN L
      BY <1>1, <2>2, <3>1 DEF Shape, HasLog
    <3>4. QED
      BY <1>1, <2>2, <3>2, <3>3, PutGrows DEF Sound
  <2>3. CASE Written(j, e) /\ Attach(j, s, id)
    <3>1. attached'[j][s] = attached[j][s] \cup {id}
      BY <1>1, <2>3 DEF Attach, Shape
    <3>2. QED
      BY <1>1, <1>2, <2>3, <3>1, WrittenGrows DEF Sound
  <2>4. QED
    BY <2>1, <2>2, <2>3 DEF ApplyStops
<1>5. Restores(ArchivesAt(j, e), M, erased[j][s])
  BY <1>1, <1>3, <1>4, RestoresGrow DEF Sound
<1>6. Live(j, s) => Holds(record[j][s], M, erased[j][s])
  BY <1>1, <1>4, HoldsGrow DEF Sound, Live, IsRecord
<1>7. QED
  BY <1>1, <1>2, <1>3, <1>4, <1>5, <1>6 DEF Sound, Recorded, Live

LEMMA UserSound ==
  ASSUME DataInv, NEW i \in Instance, NEW s \in Session, User(i, s)
  PROVE  Sound(i, s)' /\ published' = published
<1>1. published' = published
  BY DEF User, Edit, ToggleHidden, DeleteSession, Restore, Unregister
<1>2. QED
  BY <1>1, EditSound, ToggleHiddenSound, DeleteSessionSound, RestoreSound, UnregisterSound DEF User

LEMMA ExportSound ==
  ASSUME DataInv, NEW i \in Instance, NEW s \in Session, Export(i, s)
  PROVE  Sound(i, s)' /\ \A e \in published'[i] : IsEntry(e)
BY ExportSessionSound, ExportArchiveSound, ExportMissingSound, ExportTombstoneSound DEF Export

LEMMA ImportSound ==
  ASSUME DataInv, NEW j \in Instance, NEW e, IsEntry(e), Import(j, e)
  PROVE  Sound(j, e.session)' /\ published' = published
<1>1. published' = published
  BY DEF Import, ApplyTombstone, ApplySame, ApplyMembership, ApplyLive, ApplyConflicts, ApplyArchive,
         ApplyArchiveSame, ApplyArchiveState, ApplyStops
<1>2. QED
  BY <1>1, ApplyTombstoneSound, ApplySameSound, ApplyMembershipSound, ApplyLiveSound, ApplyConflictsSound,
     ApplyArchiveSound, ApplyArchiveSameSound, ApplyArchiveStateSound, ApplyStopsSound DEF Import

LEMMA ElsewhereSound ==
  ASSUME DataInv, NEW i \in Instance, NEW s \in Session, Elsewhere(i, s), Sound(i, s)',
         NEW k \in Instance, NEW t \in Session
  PROVE  Sound(k, t)'
<1>1. Sound(k, t)
  BY DEF DataInv
<1>2. CASE k = i /\ t = s
  BY <1>2
<1>3. CASE k # i \/ t # s
  BY <1>1, <1>3 DEF Elsewhere, Sound, Recorded, Live
<1>4. QED
  BY <1>2, <1>3

(* Every step is a user's, an export's or an import's, at one place.       *)
LEMMA StepIsSomewhere ==
  ASSUME DataInv, Next
  PROVE  \E i \in Instance, s \in Session :
           /\ Shape' /\ Elsewhere(i, s) /\ Sound(i, s)'
           /\ \A e \in published'[i] : IsEntry(e)
           /\ \/ User(i, s)
              \/ Export(i, s)
              \/ \E e \in UNION {published[k] : k \in Instance} : e.session = s /\ IsEntry(e) /\ Import(i, e)
<1>1. Shape
  BY DEF DataInv
<1>2. CASE \E i \in Instance, s \in Session : User(i, s)
  BY <1>1, <1>2, UserTouches, UserSound DEF DataInv
<1>3. CASE \E i \in Instance, s \in Session : Export(i, s)
  BY <1>1, <1>3, ExportTouches, ExportSound
<1>4. CASE \E i, j \in Instance : \E e \in published[i] : Import(j, e)
  <2>. PICK i \in Instance, j \in Instance : \E e \in published[i] : Import(j, e)
    BY <1>4
  <2>1. PICK e \in published[i] : Import(j, e)
    OBVIOUS
  <2>2. IsEntry(e) /\ e.session \in Session /\ e.rev \in Revision
    BY DEF DataInv, IsEntry
  <2>3. Shape' /\ Elsewhere(j, e.session) /\ Sound(j, e.session)' /\ published' = published
    BY <1>1, <2>1, <2>2, ImportTouches, ImportSound
  <2>4. e \in UNION {published[k] : k \in Instance}
    OBVIOUS
  <2>5. \A x \in published'[j] : IsEntry(x)
    BY <2>3 DEF DataInv
  <2>6. QED
    BY <2>1, <2>2, <2>3, <2>4, <2>5
<1>5. QED
  BY <1>2, <1>3, <1>4 DEF Next

LEMMA InitData == Init => DataInv
<1> SUFFICES ASSUME Init PROVE DataInv
  OBVIOUS
<1> USE SessionBoundAssumption, MaxCounterAssumption DEF Init
<1>1. Shape
  BY DEF Shape, Clock, ZeroClock
<1>2. \A i \in Instance : \A e \in published[i] : IsEntry(e)
  OBVIOUS
<1>3. ASSUME NEW i \in Instance, NEW s \in Session
      PROVE  Sound(i, s)
  <2>1. <<>> \in Content
    BY DEF Content
  <2>2. QED
    BY <2>1 DEF Sound, HasContents, Restores, Recorded, Live, Put, Nowhere
<1>4. QED
  BY <1>1, <1>2, <1>3 DEF DataInv

LEMMA NextData == DataInv /\ [Next]_vars => DataInv'
<1> SUFFICES ASSUME DataInv, [Next]_vars PROVE DataInv'
  OBVIOUS
<1>1. CASE UNCHANGED vars
  BY <1>1 DEF vars, desk, state, history, DataInv, Shape, Sound, Recorded, Live
<1>2. CASE Next
  <2>1. PICK i \in Instance, s \in Session :
               /\ Shape' /\ Elsewhere(i, s) /\ Sound(i, s)'
               /\ \A e \in published'[i] : IsEntry(e)
    BY <1>2, StepIsSomewhere
  <2>2. \A k \in Instance, t \in Session : Sound(k, t)'
    BY <2>1, ElsewhereSound
  <2>3. \A k \in Instance : \A e \in published'[k] : IsEntry(e)
    BY <2>1 DEF Elsewhere, DataInv
  <2>4. QED
    BY <2>1, <2>2, <2>3 DEF DataInv
<1>3. QED
  BY <1>1, <1>2

(* What logs, records and archives hold of each other holds always.        *)
THEOREM DataInvariance == Spec => []DataInv
<1>1. QED
  BY InitData, NextData, PTL DEF Spec

(* Type correctness: every record and archive keeps its shape, and nothing *)
(* is attached or hidden whose log is not there.                           *)
THEOREM SessionTypeCorrect == Spec => []TypeOK
<1>1. DataInv => TypeOK
  BY DEF DataInv, Shape, Sound, Restores, IsRecord, IsEntry, TypeOK
<1>2. QED
  BY <1>1, DataInvariance, PTL

(* Every archive has its log, and unless its user deleted that log once,   *)
(* the log holds the whole version that lost: for any imports, stops,      *)
(* deletions and edits.                                                    *)
THEOREM ArchivesRestorable == Spec => []Restorable
<1>1. DataInv => Restorable
  BY DEF DataInv, Sound, Restores, Restorable, HasLog, Log
<1>2. QED
  BY <1>1, DataInvariance, PTL

-----------------------------------------------------------------------------
(* No step of synchronisation removes or rewrites what a log holds *)

LEMMA UserChanges ==
  ASSUME DataInv, NEW i \in Instance, NEW s \in Session, User(i, s)
  PROVE  changes' = changes + 1 /\ changes \in Nat
BY SessionBoundAssumption
   DEF User, Edit, ToggleHidden, DeleteSession, Restore, Unregister, Change, DataInv, Shape

LEMMA ExportKeepsLogs ==
  ASSUME NEW i \in Instance, NEW s \in Session, Export(i, s)
  PROVE  logs' = logs /\ changes' = changes
BY DEF Export, ExportSession, ExportArchive, ExportMissing, ExportTombstone, desk, history

LEMMA ImportGrowsLogs ==
  ASSUME DataInv, NEW j \in Instance, NEW e, IsEntry(e), Import(j, e)
  PROVE  Grows(logs[j][e.session], logs'[j][e.session]) /\ changes' = changes
<1>1. changes' = changes
  BY DEF Import, ApplyTombstone, ApplySame, ApplyMembership, ApplyLive, ApplyConflicts, ApplyArchive,
         ApplyArchiveSame, ApplyArchiveState, ApplyStops, history
<1>2. HasContents(logs[j][e.session])
  BY DEF DataInv, Sound, IsEntry
<1>3. CASE ApplyLive(j, e) \/ ApplyArchive(j, e)
  BY <1>1, <1>3, WrittenGrows DEF ApplyLive, ApplyArchive
<1>4. CASE ApplyStops(j, e)
  BY <1>1, <1>4, ApplyStopsSound
<1>5. CASE logs' = logs
  BY <1>1, <1>2, <1>5, GrowsReflexive
<1>6. QED
  BY <1>1, <1>3, <1>4, <1>5
     DEF Import, ApplyTombstone, ApplySame, ApplyMembership, ApplyConflicts, ApplyArchiveSame, ApplyArchiveState

LEMMA StepGrowsLogs ==
  ASSUME DataInv, [Next]_vars, changes' = changes,
         NEW k \in Instance, NEW t \in Session
  PROVE  Grows(logs[k][t], logs'[k][t])
<1>1. HasContents(logs[k][t])
  BY DEF DataInv, Sound
<1>2. CASE logs'[k][t] = logs[k][t]
  BY <1>1, <1>2, GrowsReflexive
<1>3. CASE Next
  <2>1. PICK i \in Instance, s \in Session :
               /\ Elsewhere(i, s)
               /\ \/ User(i, s)
                  \/ Export(i, s)
                  \/ \E e \in UNION {published[x] : x \in Instance} : e.session = s /\ IsEntry(e) /\ Import(i, e)
    BY <1>3, StepIsSomewhere
  <2>2. CASE k # i \/ t # s
    BY <1>2, <2>1, <2>2 DEF Elsewhere
  <2>3. CASE k = i /\ t = s
    BY <1>2, <2>1, <2>3, UserChanges, ExportKeepsLogs, ImportGrowsLogs
  <2>4. QED
    BY <2>2, <2>3
<1>4. QED
  BY <1>2, <1>3 DEF vars, desk

(* What a log holds, synchronisation leaves there.                         *)
THEOREM LogsAreKept == Spec => LogsOnlyGrow
<1>1. DataInv /\ [Next]_vars =>
        [changes' = changes =>
           \A i \in Instance, s \in Session : \A id \in DOMAIN logs[i][s] :
             id \in DOMAIN logs'[i][s] /\ Prefix(logs[i][s][id], logs'[i][s][id])]_vars
  BY StepGrowsLogs DEF Grows
<1>2. QED
  BY <1>1, DataInvariance, PTL DEF Spec, LogsOnlyGrow

-----------------------------------------------------------------------------
(* The version that loses is kept *)

LEMMA ArchivedWith ==
  ASSUME NEW i \in Instance, NEW s \in Session, Live(i, s), HasLog(i, s, record[i][s].local)
  PROVE  record[i][s].digest \in DOMAIN ArchivesWith(i, s)
BY DEF ArchivesWith, Archivable, Put

LEMMA UserKeepsLoser ==
  ASSUME DataInv, NEW i \in Instance, NEW s \in Session, User(i, s),
         Live(i, s), HasLog(i, s, record[i][s].local)
  PROVE  Kept(i, s)
<1>1. CASE record' = record
  BY <1>1 DEF Kept, Live
<1>2. CASE \E d \in DOMAIN archives[i][s] : Restore(i, s, d)
  <2>1. PICK d \in DOMAIN archives[i][s] : Restore(i, s, d)
    BY <1>2
  <2> DEFINE id == archives[i][s][d].local
             A == IF record[i][s].local # id THEN ArchivesWith(i, s) ELSE archives[i][s]
  <2>2. /\ archives'[i][s] = Drop(A, d) /\ record'[i][s].digest = d
        /\ record'[i][s].local = id /\ ~record'[i][s].deleted
    BY <2>1 DEF Restore, DataInv, Shape
  <2>3. CASE record[i][s].local = id
    BY <2>2, <2>3 DEF Kept
  <2>4. CASE record[i][s].local # id
    BY <2>2, <2>4, ArchivedWith DEF Kept, Drop
  <2>5. QED
    BY <2>3, <2>4
<1>3. QED
  BY <1>1, <1>2 DEF User, Edit, ToggleHidden, DeleteSession, Unregister, state

LEMMA ExportKeepsLoser ==
  ASSUME DataInv, NEW i \in Instance, NEW s \in Session, Export(i, s),
         Live(i, s), record'[i][s].rev.w # i
  PROVE  Kept(i, s)
<1>1. CASE record'[i][s] = record[i][s]
  BY <1>1 DEF Kept, Live
<1>2. CASE \E id \in DOMAIN logs[i][s] : ExportSession(i, s, id)
  BY <1>1, <1>2 DEF ExportSession, DataInv, Shape, NextRevision, Stamp
<1>3. CASE ExportMissing(i, s)
  BY <1>3 DEF ExportMissing, DataInv, Shape, NextRevision, Stamp
<1>4. QED
  BY <1>1, <1>2, <1>3 DEF Export, ExportArchive, ExportTombstone, state

LEMMA ImportKeepsLoser ==
  ASSUME DataInv, NEW j \in Instance, NEW e, IsEntry(e), Import(j, e),
         Live(j, e.session), HasLog(j, e.session, record[j][e.session].local)
  PROVE  Kept(j, e.session)
<1> DEFINE s == e.session
<1>1. Shape /\ s \in Session
  BY DEF DataInv, IsEntry
<1>2. CASE record' = record
  BY <1>2 DEF Kept, Live
<1>3. CASE ApplyTombstone(j, e)
  <2>1. archives'[j][s] = ArchivesWith(j, s)
    BY <1>1, <1>3 DEF ApplyTombstone, Shape
  <2>2. QED
    BY <2>1, ArchivedWith, <1>1 DEF Kept
<1>4. CASE ApplyMembership(j, e)
  <2>1. record'[j][s] = RecordOf(e, record[j][s].local) /\ e.kind = "live"
    BY <1>1, <1>4 DEF ApplyMembership, Shape
  <2>2. QED
    BY <2>1, RecordOfIsRecord DEF Kept
<1>5. CASE ApplyLive(j, e)
  <2> DEFINE id == Prepared(e).local
  <2>1. /\ record'[j][s] = RecordOf(e, id) /\ e.kind = "live"
        /\ archives'[j][s] = ArchivesAt(j, e)
    BY <1>1, <1>5 DEF ApplyLive, Due, Shape
  <2>2. CASE record[j][s].local = id
    BY <2>1, <2>2, RecordOfIsRecord DEF Kept
  <2>3. CASE record[j][s].local # id
    <3>1. archives'[j][s] = ArchivesWith(j, s)
      BY <2>1, <2>3 DEF ArchivesAt, Displaces
    <3>2. QED
      BY <3>1, ArchivedWith, <1>1 DEF Kept
  <2>4. QED
    BY <2>2, <2>3
<1>6. QED
  BY <1>2, <1>3, <1>4, <1>5
     DEF Import, ApplySame, ApplyConflicts, ApplyArchive, ApplyArchiveSame, ApplyArchiveState, ApplyStops, state

LEMMA StepKeepsLoser ==
  ASSUME DataInv, [Next]_vars, NEW k \in Instance, NEW t \in Session,
         Live(k, t), HasLog(k, t, record[k][t].local),
         record'[k][t].rev.w # k \/ changes' # changes
  PROVE  Kept(k, t)
<1>1. CASE record'[k][t] = record[k][t]
  BY <1>1 DEF Kept, Live
<1>2. CASE Next
  <2>1. PICK i \in Instance, s \in Session :
               /\ Elsewhere(i, s)
               /\ \/ User(i, s)
                  \/ Export(i, s)
                  \/ \E e \in UNION {published[x] : x \in Instance} : e.session = s /\ IsEntry(e) /\ Import(i, e)
    BY <1>2, StepIsSomewhere
  <2>2. CASE k # i \/ t # s
    BY <1>1, <2>1, <2>2 DEF Elsewhere
  <2>3. CASE k = i /\ t = s
    BY <2>1, <2>3, UserKeepsLoser, ExportKeepsLogs, ExportKeepsLoser, ImportKeepsLoser
  <2>4. QED
    BY <2>2, <2>3
<1>3. QED
  BY <1>1, <1>2 DEF vars, state

(* A version that gives way to another one, with its log there, is kept.   *)
THEOREM LosersAreKept == Spec => LoserKept
<1>1. DataInv /\ [Next]_vars =>
        [\A i \in Instance, s \in Session :
           /\ Live(i, s) /\ HasLog(i, s, record[i][s].local)
           /\ record'[i][s].rev.w # i \/ changes' # changes
           => Kept(i, s)]_vars
  BY StepKeepsLoser
<1>2. QED
  BY <1>1, DataInvariance, PTL DEF Spec, LoserKept
-----------------------------------------------------------------------------
(* Which versions of a session there are: those in bundles, recorded ones, *)
(* deleted sessions among them, and archived ones.                         *)

HeldAt(x, i, s) ==
  \/ x \in published[i] /\ x.session = s
  \/ Live(i, s) /\ x = LiveEntry(i, s, record[i][s])
  \/ Recorded(i, s) /\ record[i][s].deleted /\ x = Tombstone(s, record[i][s].rev)
  \/ \E d \in DOMAIN archives[i][s] : x = BranchEntry(s, d, archives[i][s][d].rev)

Held(x, s) == \E i \in Instance : HeldAt(x, i, s)

Agree(x, y) ==
  x.rev = y.rev =>
    x.digest = y.digest /\ (x.kind = "live" /\ y.kind = "live" => x.hidden = y.hidden)

(* x says of its revision nothing that z does not say.                     *)
Repeats(x, z) ==
  x.rev = z.rev /\ x.digest = z.digest /\ (x.kind = "live" => z.kind = "live" /\ z.hidden = x.hidden)

Known(x, s) == \E z : Held(z, s) /\ Repeats(x, z)

(* What i holds of s after a step it did before, or it bears the one       *)
(* revision that i has given out.                                          *)
NothingNew(i, s) == \A x : HeldAt(x, i, s)' => Known(x, s)

OneNew(i, s) ==
  /\ TickFits(clock[i], 0) /\ clock'[i] = NextClock(i)
  /\ \E f : f.rev = NextRevision(i) /\ \A x : HeldAt(x, i, s)' => Known(x, s) \/ Repeats(x, f)

Moves(i, s) ==
  /\ NothingNew(i, s) \/ OneNew(i, s)
  /\ Covers(clock'[i], clock[i])
  /\ record'[i][s] = record[i][s] \/ Covers(clock'[i], record'[i][s].rev)
  /\ \A e \in published'[i] : e \in published[i] \/ e.session = s

LEMMA HeldIsEntry ==
  ASSUME DataInv, NEW s \in Session, NEW x, Held(x, s)
  PROVE  IsEntry(x)
<1>1. PICK i \in Instance : HeldAt(x, i, s)
  BY DEF Held
<1>2. /\ \A e \in published[i] : IsEntry(e)
      /\ Recorded(i, s) => IsRecord(record[i][s])
      /\ Restores(archives[i][s], logs[i][s], erased[i][s])
  BY DEF DataInv, Sound
<1>3. Deleted.content \in Content
  BY DEF Deleted, Content
<1>4. CASE Live(i, s) /\ x = LiveEntry(i, s, record[i][s])
  BY <1>2, <1>4 DEF Live, LiveEntry, IsRecord, IsEntry
<1>5. CASE Recorded(i, s) /\ x = Tombstone(s, record[i][s].rev)
  BY <1>2, <1>3, <1>5 DEF Tombstone, IsRecord, IsEntry
<1>6. CASE \E d \in DOMAIN archives[i][s] : x = BranchEntry(s, d, archives[i][s][d].rev)
  BY <1>2, <1>6 DEF BranchEntry, Restores, IsEntry
<1>7. QED
  BY <1>1, <1>2, <1>4, <1>5, <1>6 DEF HeldAt

LEMMA HeldIsKnown ==
  ASSUME NEW s, NEW x, Held(x, s)
  PROVE  Known(x, s)
BY DEF Known, Repeats

LEMMA ArchivesWithKnown ==
  ASSUME NEW i \in Instance, NEW s \in Session, NEW d \in DOMAIN ArchivesWith(i, s)
  PROVE  Known(BranchEntry(s, d, ArchivesWith(i, s)[d].rev), s)
<1> DEFINE A == ArchivesWith(i, s)
<1>1. CASE Archivable(i, s) /\ d = record[i][s].digest
  <2>1. Live(i, s) /\ A[d].rev = record[i][s].rev
    BY <1>1 DEF ArchivesWith, Archivable, Put
  <2>2. Held(LiveEntry(i, s, record[i][s]), s)
    BY <2>1 DEF Held, HeldAt
  <2>3. Repeats(BranchEntry(s, d, A[d].rev), LiveEntry(i, s, record[i][s]))
    BY <1>1, <2>1 DEF Repeats, BranchEntry, LiveEntry
  <2>4. QED
    BY <2>2, <2>3 DEF Known
<1>2. CASE ~(Archivable(i, s) /\ d = record[i][s].digest)
  <2>1. d \in DOMAIN archives[i][s] /\ A[d] = archives[i][s][d]
    BY <1>2 DEF ArchivesWith, Put
  <2>2. Held(BranchEntry(s, d, A[d].rev), s)
    BY <2>1 DEF Held, HeldAt
  <2>3. QED
    BY <2>2, HeldIsKnown
<1>3. QED
  BY <1>1, <1>2

(* Enough for NothingNew: its three parts.                                 *)
LEMMA NothingNewParts ==
  ASSUME NEW i \in Instance, NEW s \in Session,
         published' = published,
         \/ record'[i][s] = record[i][s]
         \/ ~record'[i][s].deleted /\ Known(LiveEntry(i, s, record'[i][s]), s)
         \/ record'[i][s].deleted /\ Known(Tombstone(s, record'[i][s].rev), s),
         \A d \in DOMAIN archives'[i][s] : Known(BranchEntry(s, d, archives'[i][s][d].rev), s)
  PROVE  NothingNew(i, s)
<1> SUFFICES ASSUME NEW x, HeldAt(x, i, s)' PROVE Known(x, s)
  BY DEF NothingNew
<1>1. CASE x \in published'[i] /\ x.session = s
  BY <1>1, HeldIsKnown DEF Held, HeldAt
<1>2. CASE Live(i, s)' /\ x = LiveEntry(i, s, record'[i][s])
  BY <1>2, HeldIsKnown DEF Held, HeldAt, Live, Recorded
<1>3. CASE Recorded(i, s)' /\ record'[i][s].deleted /\ x = Tombstone(s, record'[i][s].rev)
  BY <1>3, HeldIsKnown DEF Held, HeldAt, Recorded
<1>4. CASE \E d \in DOMAIN archives'[i][s] : x = BranchEntry(s, d, archives'[i][s][d].rev)
  BY <1>4
<1>5. QED
  BY <1>1, <1>2, <1>3, <1>4 DEF HeldAt, LiveEntry

LEMMA ArchivesKnown ==
  ASSUME NEW i \in Instance, NEW s \in Session, NEW d \in DOMAIN archives[i][s]
  PROVE  Known(BranchEntry(s, d, archives[i][s][d].rev), s)
BY HeldIsKnown DEF Held, HeldAt
(* The same for OneNew.                                                    *)
LEMMA OneNewParts ==
  ASSUME NEW i \in Instance, NEW s \in Session, NEW f,
         TickFits(clock[i], 0), clock'[i] = NextClock(i), f.rev = NextRevision(i),
         \A e \in published'[i] : e \in published[i] \/ Repeats(e, f),
         \/ record'[i][s] = record[i][s]
         \/ ~record'[i][s].deleted /\ Repeats(LiveEntry(i, s, record'[i][s]), f)
         \/ record'[i][s].deleted /\ Repeats(Tombstone(s, record'[i][s].rev), f),
         \A d \in DOMAIN archives'[i][s] :
           LET b == BranchEntry(s, d, archives'[i][s][d].rev) IN Known(b, s) \/ Repeats(b, f)
  PROVE  OneNew(i, s)
<1> SUFFICES ASSUME NEW x, HeldAt(x, i, s)' PROVE Known(x, s) \/ Repeats(x, f)
  BY DEF OneNew
<1>1. CASE x \in published'[i] /\ x.session = s
  BY <1>1, HeldIsKnown DEF Held, HeldAt
<1>2. CASE Live(i, s)' /\ x = LiveEntry(i, s, record'[i][s])
  BY <1>2, HeldIsKnown DEF Held, HeldAt, Live, Recorded
<1>3. CASE Recorded(i, s)' /\ record'[i][s].deleted /\ x = Tombstone(s, record'[i][s].rev)
  BY <1>3, HeldIsKnown DEF Held, HeldAt, Recorded
<1>4. CASE \E d \in DOMAIN archives'[i][s] : x = BranchEntry(s, d, archives'[i][s][d].rev)
  BY <1>4
<1>5. QED
  BY <1>1, <1>2, <1>3, <1>4 DEF HeldAt, LiveEntry

(* A step that leaves records, archives, clock and bundles alone.          *)
LEMMA QuietMoves ==
  ASSUME DataInv, NEW i \in Instance, NEW s \in Session, state' = state, published' = published
  PROVE  Moves(i, s)
<1>1. clock[i] \in Clock
  BY DEF DataInv, Shape
<1>2. record' = record /\ archives' = archives /\ clock' = clock
  BY DEF state
<1>3. NothingNew(i, s)
  BY <1>2, NothingNewParts, ArchivesKnown
<1>4. QED
  BY <1>1, <1>2, <1>3, CoversReflexive DEF Moves

LEMMA RestoreMoves ==
  ASSUME DataInv, NEW i \in Instance, NEW s \in Session, NEW d, Restore(i, s, d)
  PROVE  Moves(i, s)
<1> DEFINE id == archives[i][s][d].local
           A == IF Live(i, s) /\ record[i][s].local # id THEN ArchivesWith(i, s) ELSE archives[i][s]
           r == [rev |-> NextRevision(i), digest |-> d, hidden |-> TRUE, deleted |-> FALSE, local |-> id]
           f == LiveEntry(i, s, r)
<1>1. /\ TickFits(clock[i], 0) /\ clock'[i] = NextClock(i)
      /\ archives'[i][s] = Drop(A, d) /\ record'[i][s] = r /\ published' = published
  BY DEF Restore, DataInv, Shape
<1>2. f.rev = NextRevision(i) /\ ~r.deleted /\ r.rev = NextRevision(i)
  BY DEF LiveEntry
<1>3. \A x \in DOMAIN Drop(A, d) : x \in DOMAIN A /\ Drop(A, d)[x] = A[x]
  BY DEF Drop
<1>4. \A x \in DOMAIN A : Known(BranchEntry(s, x, A[x].rev), s)
  BY ArchivesWithKnown, ArchivesKnown
<1>5. Repeats(LiveEntry(i, s, r), f)
  BY DEF Repeats
<1> HIDE DEF A, r, f
<1>6. OneNew(i, s)
  BY <1>1, <1>2, <1>3, <1>4, <1>5, OneNewParts
<1>7. QED
  BY <1>1, <1>2, <1>6, NextClockMoves DEF Moves, DataInv

LEMMA ExportSessionMoves ==
  ASSUME DataInv, NEW i \in Instance, NEW s \in Session, NEW id, ExportSession(i, s, id)
  PROVE  Moves(i, s)
<1> DEFINE r == record'[i][s]
           f == LiveEntry(i, s, r)
<1>1. /\ archives' = archives
      /\ published'[i] = published[i] \/ published'[i] = published[i] \cup {f}
  BY DEF ExportSession, DataInv, Shape, Publish
<1>2. f.session = s
  BY DEF LiveEntry
<1>3. CASE Changed(i, s, id)
  <2>1. /\ TickFits(clock[i], 0) /\ clock'[i] = NextClock(i) /\ ~r.deleted /\ r.rev = NextRevision(i)
    BY <1>3 DEF ExportSession, DataInv, Shape
  <2>2. f.rev = NextRevision(i) /\ Repeats(f, f)
    BY <2>1 DEF LiveEntry, Repeats
  <2>3. OneNew(i, s)
    <3> HIDE DEF f
    <3>1. Repeats(LiveEntry(i, s, record'[i][s]), f)
      BY <2>2 DEF f
    <3>2. QED
      BY <1>1, <2>1, <2>2, <3>1, OneNewParts, ArchivesKnown
  <2> HIDE DEF f
  <2>4. QED
    BY <1>1, <1>2, <2>1, <2>3, NextClockMoves DEF Moves, DataInv
<1>4. CASE ~Changed(i, s, id)
  <2>1. r = record[i][s] /\ clock' = clock
    BY <1>4 DEF ExportSession, DataInv, Shape
  <2>2. Live(i, s)
    BY <1>4 DEF Changed, Live
  <2>3. Held(f, s)
    BY <2>1, <2>2 DEF Held, HeldAt
  <2> HIDE DEF f
  <2>4. NothingNew(i, s)
    <3> SUFFICES ASSUME NEW x, HeldAt(x, i, s)' PROVE Known(x, s)
      BY DEF NothingNew
    <3>1. x = f \/ HeldAt(x, i, s)
      BY <1>1, <2>1 DEF HeldAt, Live, Recorded, LiveEntry
    <3>2. QED
      BY <3>1, <2>3, HeldIsKnown DEF Held
  <2>5. clock[i] \in Clock
    BY DEF DataInv, Shape
  <2>6. QED
    BY <1>1, <1>2, <2>1, <2>4, <2>5, CoversReflexive DEF Moves
<1>5. QED
  BY <1>3, <1>4

LEMMA ExportArchiveMoves ==
  ASSUME DataInv, NEW i \in Instance, NEW s \in Session, NEW d, ExportArchive(i, s, d)
  PROVE  Moves(i, s)
<1> DEFINE a == archives[i][s][d]
           now == Digest(i, s, a.local)
           rev == IF now = d THEN a.rev ELSE NextRevision(i)
           b == [rev |-> rev, local |-> a.local]
           f == BranchEntry(s, now, rev)
           A == archives'[i][s]
<1>1. /\ d \in DOMAIN archives[i][s] /\ record' = record
      /\ A = Put(Drop(archives[i][s], d), now, b)
      /\ now # d => TickFits(clock[i], 0)
      /\ clock'[i] = IF now = d THEN clock[i] ELSE NextClock(i)
      /\ published'[i] = published[i] \/ published'[i] = published[i] \cup {f}
  BY DEF ExportArchive, DataInv, Shape, Publish
<1>2. /\ DOMAIN A \subseteq DOMAIN archives[i][s] \cup {now}
      /\ \A x \in DOMAIN A : A[x] = IF x = now THEN b ELSE archives[i][s][x]
  BY <1>1 DEF Put, Drop
<1>3. f.session = s /\ f.rev = rev /\ b.rev = rev /\ Repeats(f, f)
  BY DEF BranchEntry, Repeats
<1>4. clock[i] \in Clock
  BY DEF DataInv, Shape
<1>5. \A x \in DOMAIN A : Known(BranchEntry(s, x, A[x].rev), s) \/ BranchEntry(s, x, A[x].rev) = f
  <2> HIDE DEF a, b, now, rev, A
  <2> SUFFICES ASSUME NEW x \in DOMAIN A
               PROVE  Known(BranchEntry(s, x, A[x].rev), s) \/ BranchEntry(s, x, A[x].rev) = f
    OBVIOUS
  <2>1. CASE x = now
    BY <1>2, <1>3, <2>1
  <2>2. CASE x # now
    BY <1>2, <2>2, ArchivesKnown
  <2>3. QED
    BY <2>1, <2>2
<1>6. CASE now = d
  <2>1. Known(f, s)
    BY <1>1, <1>6, ArchivesKnown
  <2>2. NothingNew(i, s)
    <3> HIDE DEF f, now, rev, b, a
    <3> SUFFICES ASSUME NEW x, HeldAt(x, i, s)' PROVE Known(x, s)
      BY DEF NothingNew
    <3>1. \/ x = f \/ HeldAt(x, i, s)
          \/ \E y \in DOMAIN A : x = BranchEntry(s, y, A[y].rev)
      BY <1>1 DEF HeldAt, Live, Recorded, LiveEntry
    <3>2. QED
      BY <1>5, <2>1, <3>1, HeldIsKnown DEF Held
  <2> HIDE DEF f, now, rev, b, a
  <2>3. QED
    BY <1>1, <1>3, <1>4, <1>6, <2>2, CoversReflexive DEF Moves
<1>7. CASE now # d
  <2>1. rev = NextRevision(i) /\ TickFits(clock[i], 0) /\ clock'[i] = NextClock(i)
    BY <1>1, <1>7
  <2> HIDE DEF f, now, rev, b, a
  <2>2. OneNew(i, s)
    BY <1>1, <1>3, <1>5, <2>1, OneNewParts
  <2>3. QED
    BY <1>1, <1>3, <2>1, <2>2, NextClockMoves DEF Moves, DataInv
<1>8. QED
  BY <1>6, <1>7
LEMMA ExportMissingMoves ==
  ASSUME DataInv, NEW i \in Instance, NEW s \in Session, ExportMissing(i, s)
  PROVE  Moves(i, s)
<1> DEFINE r == record'[i][s]
           f == Tombstone(s, r.rev)
<1>1. /\ archives' = archives /\ TickFits(clock[i], 0) /\ clock'[i] = NextClock(i)
      /\ r.deleted /\ r.rev = NextRevision(i) /\ published'[i] = published[i] \cup {f}
  BY DEF ExportMissing, DataInv, Shape, Publish
<1>2. f.session = s /\ f.rev = NextRevision(i) /\ Repeats(f, f)
  BY <1>1 DEF Tombstone, Repeats
<1>3. OneNew(i, s)
  <2> HIDE DEF f
  <2>1. Repeats(Tombstone(s, record'[i][s].rev), f)
    BY <1>2 DEF f
  <2>2. QED
    BY <1>1, <1>2, <2>1, OneNewParts, ArchivesKnown
<1> HIDE DEF f
<1>4. QED
  BY <1>1, <1>2, <1>3, NextClockMoves DEF Moves, DataInv

LEMMA ExportTombstoneMoves ==
  ASSUME DataInv, NEW i \in Instance, NEW s \in Session, ExportTombstone(i, s)
  PROVE  Moves(i, s)
<1> DEFINE f == Tombstone(s, record[i][s].rev)
<1>1. /\ record' = record /\ archives' = archives /\ clock' = clock
      /\ published'[i] = published[i] \cup {f} /\ Recorded(i, s) /\ record[i][s].deleted
  BY DEF ExportTombstone, DataInv, Shape, Publish, state
<1>2. f.session = s /\ Held(f, s)
  BY <1>1 DEF Tombstone, Held, HeldAt
<1> HIDE DEF f
<1>3. NothingNew(i, s)
  <2> SUFFICES ASSUME NEW x, HeldAt(x, i, s)' PROVE Known(x, s)
    BY DEF NothingNew
  <2>1. x = f \/ HeldAt(x, i, s)
    BY <1>1 DEF HeldAt, Live, Recorded
  <2>2. QED
    BY <1>2, <2>1, HeldIsKnown DEF Held
<1>4. clock[i] \in Clock
  BY DEF DataInv, Shape
<1>5. QED
  BY <1>1, <1>2, <1>3, <1>4, CoversReflexive DEF Moves

(* An entry that is adopted is known, in whatever way it is recorded.      *)
LEMMA EntryKnown ==
  ASSUME NEW k \in Instance, NEW e \in published[k], IsEntry(e), NEW id
  PROVE  LET r == RecordOf(e, id)
         IN  /\ Held(e, e.session) /\ r.rev = e.rev
             /\ e.kind = "live" => ~r.deleted /\ Known(LiveEntry(k, e.session, r), e.session)
             /\ e.kind = "tombstone" => r.deleted /\ Known(Tombstone(e.session, r.rev), e.session)
             /\ \A rev : rev = e.rev => Known(BranchEntry(e.session, e.digest, rev), e.session)
<1> DEFINE r == RecordOf(e, id)
<1>1. Held(e, e.session)
  BY DEF Held, HeldAt
<1>2. /\ r.rev = e.rev /\ r.digest = e.digest /\ r.hidden = e.hidden
      /\ r.deleted <=> e.kind = "tombstone"
  BY RecordOfIsRecord DEF RecordOf
<1> HIDE DEF r
<1>3. e.kind = "live" => Repeats(LiveEntry(k, e.session, r), e)
  BY <1>2 DEF LiveEntry, Repeats
<1>4. e.kind = "tombstone" => Repeats(Tombstone(e.session, r.rev), e)
  BY <1>2 DEF Tombstone, Repeats, IsEntry
<1>5. \A rev : rev = e.rev => Repeats(BranchEntry(e.session, e.digest, rev), e)
  BY DEF BranchEntry, Repeats
<1>6. QED
  BY <1>1, <1>2, <1>3, <1>4, <1>5 DEF Known, r

LEMMA ApplyTombstoneMoves ==
  ASSUME DataInv, NEW j \in Instance, NEW k \in Instance, NEW e \in published[k], IsEntry(e),
         ApplyTombstone(j, e)
  PROVE  Moves(j, e.session)
<1> DEFINE s == e.session
           id == IF Recorded(j, s) THEN record[j][s].local ELSE SyncId(Deleted)
<1>1. /\ archives'[j][s] = ArchivesWith(j, s) /\ record'[j][s] = RecordOf(e, id)
      /\ e.kind = "tombstone" /\ published' = published /\ Observed(j, e)
  BY DEF ApplyTombstone, DataInv, Shape, IsEntry
<1>2. /\ RecordOf(e, id).rev = e.rev /\ RecordOf(e, id).deleted
      /\ Known(Tombstone(s, RecordOf(e, id).rev), s)
  BY <1>1, EntryKnown
<1>3. e.rev \in Revision /\ s \in Session /\ Shape
  BY DEF IsEntry, DataInv
<1> HIDE DEF id
<1>4. NothingNew(j, s)
  BY <1>1, <1>2, <1>3, NothingNewParts, ArchivesWithKnown
<1>5. QED
  BY <1>1, <1>2, <1>3, <1>4, ObservedMoves DEF Moves

LEMMA ApplyMembershipMoves ==
  ASSUME DataInv, NEW j \in Instance, NEW k \in Instance, NEW e \in published[k], IsEntry(e),
         ApplyMembership(j, e)
  PROVE  Moves(j, e.session)
<1> DEFINE s == e.session
           id == record[j][s].local
<1>1. /\ archives' = archives /\ record'[j][s] = RecordOf(e, id)
      /\ e.kind = "live" /\ published' = published /\ Observed(j, e)
  BY DEF ApplyMembership, DataInv, Shape, IsEntry
<1>2. /\ RecordOf(e, id).rev = e.rev /\ ~RecordOf(e, id).deleted
      /\ Known(LiveEntry(j, s, RecordOf(e, id)), s)
  BY <1>1, EntryKnown DEF LiveEntry
<1>3. e.rev \in Revision /\ s \in Session /\ Shape
  BY DEF IsEntry, DataInv
<1> HIDE DEF id
<1>4. NothingNew(j, s)
  BY <1>1, <1>2, <1>3, NothingNewParts, ArchivesKnown
<1>5. QED
  BY <1>1, <1>2, <1>3, <1>4, ObservedMoves DEF Moves

LEMMA ArchivesAtKnown ==
  ASSUME NEW j \in Instance, NEW e, IsEntry(e), NEW d \in DOMAIN ArchivesAt(j, e)
  PROVE  Known(BranchEntry(e.session, d, ArchivesAt(j, e)[d].rev), e.session)
BY ArchivesWithKnown, ArchivesKnown DEF ArchivesAt, IsEntry

LEMMA ApplyLiveMoves ==
  ASSUME DataInv, NEW j \in Instance, NEW k \in Instance, NEW e \in published[k], IsEntry(e),
         ApplyLive(j, e)
  PROVE  Moves(j, e.session)
<1> DEFINE s == e.session
           id == Prepared(e).local
<1>1. /\ archives'[j][s] = ArchivesAt(j, e) /\ record'[j][s] = RecordOf(e, id)
      /\ e.kind = "live" /\ published' = published /\ Observed(j, e)
  BY DEF ApplyLive, Due, DataInv, Shape, IsEntry
<1>2. /\ RecordOf(e, id).rev = e.rev /\ ~RecordOf(e, id).deleted
      /\ Known(LiveEntry(j, s, RecordOf(e, id)), s)
  BY <1>1, EntryKnown DEF LiveEntry
<1>3. e.rev \in Revision /\ s \in Session /\ Shape
  BY DEF IsEntry, DataInv
<1> HIDE DEF id
<1>4. NothingNew(j, s)
  BY <1>1, <1>2, <1>3, NothingNewParts, ArchivesAtKnown
<1>5. QED
  BY <1>1, <1>2, <1>3, <1>4, ObservedMoves DEF Moves

(* A failing or stopping import has archived at most.                      *)
LEMMA ApplyPartMoves ==
  ASSUME DataInv, NEW j \in Instance, NEW e, IsEntry(e), ApplyConflicts(j, e) \/ ApplyStops(j, e)
  PROVE  Moves(j, e.session)
<1> DEFINE s == e.session
<1>1. /\ archives'[j][s] = ArchivesAt(j, e) /\ record' = record
      /\ published' = published /\ clock' = clock
  BY DEF ApplyConflicts, ApplyStops, DataInv, Shape, IsEntry
<1>2. clock[j] \in Clock /\ s \in Session
  BY DEF DataInv, Shape, IsEntry
<1>3. NothingNew(j, s)
  BY <1>1, <1>2, NothingNewParts, ArchivesAtKnown
<1>4. QED
  BY <1>1, <1>2, <1>3, CoversReflexive DEF Moves

LEMMA ApplyBranchMoves ==
  ASSUME DataInv, NEW j \in Instance, NEW k \in Instance, NEW e \in published[k], IsEntry(e),
         ApplyArchive(j, e) \/ ApplyArchiveState(j, e)
  PROVE  Moves(j, e.session)
<1> DEFINE s == e.session
<1>1. PICK id : /\ archives'[j][s] = Put(archives[j][s], e.digest, [rev |-> e.rev, local |-> id])
                /\ record' = record /\ published' = published /\ Observed(j, e)
  <2>1. CASE ApplyArchive(j, e)
    <3>1. /\ archives'[j][s] = Put(archives[j][s], e.digest, [rev |-> e.rev, local |-> Prepared(e).local])
          /\ record' = record /\ published' = published /\ Observed(j, e)
      BY <2>1 DEF ApplyArchive, DataInv, Shape, IsEntry
    <3>2. QED
      BY <3>1
  <2>2. CASE ApplyArchiveState(j, e)
    <3>1. /\ archives'[j][s] = Put(archives[j][s], e.digest,
                                   [rev |-> e.rev, local |-> archives[j][s][e.digest].local])
          /\ record' = record /\ published' = published /\ Observed(j, e)
      BY <2>2 DEF ApplyArchiveState, DataInv, Shape, IsEntry
    <3>2. QED
      BY <3>1
  <2>3. QED
    BY <2>1, <2>2
<1>2. e.rev \in Revision /\ s \in Session /\ Shape
  BY DEF IsEntry, DataInv
<1>3. ASSUME NEW d \in DOMAIN archives'[j][s]
      PROVE  Known(BranchEntry(s, d, archives'[j][s][d].rev), s)
  <2>1. CASE d = e.digest
    BY <1>1, <2>1, EntryKnown DEF Put
  <2>2. CASE d # e.digest
    BY <1>1, <1>2, <2>2, ArchivesKnown DEF Put
  <2>3. QED
    BY <2>1, <2>2
<1>4. NothingNew(j, s)
  BY <1>1, <1>2, <1>3, NothingNewParts
<1>5. QED
  BY <1>1, <1>2, <1>4, ObservedMoves DEF Moves

LEMMA StepMoves ==
  ASSUME DataInv, NEW i \in Instance, NEW s \in Session,
         \/ User(i, s) \/ Export(i, s)
         \/ \E e \in UNION {published[x] : x \in Instance} : e.session = s /\ IsEntry(e) /\ Import(i, e)
  PROVE  Moves(i, s)
<1>1. CASE User(i, s)
  <2>1. CASE \E d \in DOMAIN archives[i][s] : Restore(i, s, d)
    BY <2>1, RestoreMoves
  <2>2. CASE ~\E d \in DOMAIN archives[i][s] : Restore(i, s, d)
    <3>1. state' = state /\ published' = published
      BY <1>1, <2>2 DEF User, Edit, ToggleHidden, DeleteSession, Unregister
    <3>2. QED
      BY <3>1, QuietMoves
  <2>3. QED
    BY <2>1, <2>2
<1>2. CASE Export(i, s)
  BY <1>2, ExportSessionMoves, ExportArchiveMoves, ExportMissingMoves, ExportTombstoneMoves DEF Export
<1>3. CASE \E e \in UNION {published[x] : x \in Instance} : e.session = s /\ IsEntry(e) /\ Import(i, e)
  <2>1. PICK e \in UNION {published[x] : x \in Instance} : e.session = s /\ IsEntry(e) /\ Import(i, e)
    BY <1>3
  <2>2. PICK k \in Instance : e \in published[k]
    OBVIOUS
  <2>3. CASE ApplySame(i, e) \/ ApplyArchiveSame(i, e)
    BY <2>1, <2>3, QuietMoves DEF ApplySame, ApplyArchiveSame, state
  <2>4. QED
    BY <2>1, <2>2, <2>3, ApplyTombstoneMoves, ApplyMembershipMoves, ApplyLiveMoves, ApplyPartMoves,
       ApplyBranchMoves DEF Import
<1>4. QED
  BY <1>1, <1>2, <1>3
-----------------------------------------------------------------------------
(* A revision stands for one version: a new one is strictly after its      *)
(* writer's clock, and everything the writer ever issued is not.           *)

HeldIsCovered == \A s \in Session : \A x : Held(x, s) => Covers(clock[x.rev.w], x.rev)

HeldAgrees == \A s \in Session : \A x, y : Held(x, s) /\ Held(y, s) => Agree(x, y)

RecordIsCovered ==
  \A i \in Instance, s \in Session : Recorded(i, s) => Covers(clock[i], record[i][s].rev)

RevInv == DataInv /\ HeldIsCovered /\ HeldAgrees /\ RecordIsCovered

(* A revision given out next is borne by nothing yet.                      *)
LEMMA NextIsUnused ==
  ASSUME RevInv, NEW i \in Instance, NEW s \in Session, TickFits(clock[i], 0), NEW x, Held(x, s)
  PROVE  x.rev # NextRevision(i)
<1>1. NextRevision(i).w = i /\ ~Covers(clock[i], NextRevision(i))
  BY NextClockMoves DEF RevInv, DataInv
<1>2. Covers(clock[x.rev.w], x.rev)
  BY DEF RevInv, HeldIsCovered
<1>3. QED
  BY <1>1, <1>2

(* What a step leaves at s is known, or bears the new revision.            *)
LEMMA HeldNext ==
  ASSUME DataInv, NEW i \in Instance, NEW s \in Session, Elsewhere(i, s), Moves(i, s),
         NEW t \in Session, NEW x, Held(x, t)'
  PROVE  Known(x, t) \/ (t = s /\ HeldAt(x, i, s)')
<1>1. PICK k \in Instance : HeldAt(x, k, t)'
  BY DEF Held
<1>2. CASE k = i /\ t = s
  BY <1>1, <1>2
<1>3. CASE k # i \/ t # s
  <2>1. /\ record'[k][t] = record[k][t] /\ archives'[k][t] = archives[k][t]
        /\ x \in published'[k] /\ x.session = t => x \in published[k]
    BY <1>3 DEF Elsewhere, Moves
  <2>2. HeldAt(x, k, t)
    BY <1>1, <2>1 DEF HeldAt, Live, Recorded, LiveEntry
  <2>3. QED
    BY <2>2, HeldIsKnown DEF Held
<1>4. QED
  BY <1>2, <1>3

LEMMA KnownAgree ==
  ASSUME RevInv, NEW s \in Session, NEW x, NEW y, Known(x, s), Known(y, s)
  PROVE  Agree(x, y)
<1>1. PICK a : Held(a, s) /\ Repeats(x, a)
  BY DEF Known
<1>2. PICK b : Held(b, s) /\ Repeats(y, b)
  BY DEF Known
<1>3. Agree(a, b)
  BY <1>1, <1>2 DEF RevInv, HeldAgrees
<1>4. QED
  BY <1>1, <1>2, <1>3 DEF Agree, Repeats

LEMMA ClocksAdvance ==
  ASSUME DataInv, NEW i \in Instance, NEW s \in Session, Elsewhere(i, s), Moves(i, s),
         Shape', NEW r \in Revision, NEW k \in Instance, Covers(clock[k], r)
  PROVE  Covers(clock'[k], r)
<1>1. clock[k] \in Clock /\ clock'[k] \in Clock
  BY DEF DataInv, Shape
<1>2. Covers(clock'[k], clock[k])
  BY <1>1, CoversReflexive DEF Elsewhere, Moves
<1>3. QED
  BY <1>1, <1>2, CoversTransitive

LEMMA KnownIsCovered ==
  ASSUME RevInv, NEW s \in Session, NEW x, Known(x, s)
  PROVE  x.rev \in Revision /\ x.rev.w \in Instance /\ Covers(clock[x.rev.w], x.rev)
<1>1. PICK a : Held(a, s) /\ Repeats(x, a)
  BY DEF Known
<1>2. a.rev \in Revision /\ Covers(clock[a.rev.w], a.rev)
  BY <1>1, HeldIsEntry DEF RevInv, HeldIsCovered, IsEntry
<1>3. QED
  BY <1>1, <1>2 DEF Repeats, Revision

LEMMA StepKeepsRevisions ==
  ASSUME RevInv, NEW i \in Instance, NEW s \in Session, Shape', Elsewhere(i, s), Moves(i, s)
  PROVE  HeldIsCovered' /\ HeldAgrees' /\ RecordIsCovered'
<1>1. DataInv
  BY DEF RevInv
<1>2. ASSUME NEW t \in Session, NEW x, Held(x, t)', ~Known(x, t)
      PROVE  /\ t = s /\ OneNew(i, s)
             /\ \A f : (\A y : HeldAt(y, i, s)' => Known(y, s) \/ Repeats(y, f)) => Repeats(x, f)
  BY <1>1, <1>2, HeldNext DEF Moves, NothingNew
<1>3. ASSUME NEW t \in Session, NEW x, Held(x, t)'
      PROVE  Covers(clock'[x.rev.w], x.rev)
  <2>1. CASE Known(x, t)
    BY <1>1, <2>1, KnownIsCovered, ClocksAdvance
  <2>2. CASE ~Known(x, t)
    <3>1. x.rev = NextRevision(i) /\ clock'[i] = NextClock(i) /\ TickFits(clock[i], 0)
      BY <1>2, <1>3, <2>2 DEF OneNew, Repeats
    <3>2. QED
      BY <1>1, <3>1, NextClockMoves DEF DataInv
  <2>3. QED
    BY <2>1, <2>2
<1>4. ASSUME NEW t \in Session, NEW x, NEW y, Held(x, t)', Held(y, t)'
      PROVE  Agree(x, y)
  <2>1. CASE Known(x, t) /\ Known(y, t)
    BY <2>1, KnownAgree
  <2>2. CASE ~Known(x, t) /\ ~Known(y, t)
    <3>1. PICK f : \A z : HeldAt(z, i, s)' => Known(z, s) \/ Repeats(z, f)
      BY <1>2, <1>4, <2>2 DEF OneNew
    <3>2. Repeats(x, f) /\ Repeats(y, f)
      BY <1>2, <1>4, <2>2, <3>1
    <3>3. QED
      BY <3>2 DEF Repeats, Agree
  <2>3. ASSUME NEW a, NEW b, Held(a, t)', Known(b, t), ~Known(a, t)
        PROVE  a.rev # b.rev
    <3>1. t = s /\ a.rev = NextRevision(i) /\ TickFits(clock[i], 0)
      BY <1>2, <2>3 DEF OneNew, Repeats
    <3>2. PICK z : Held(z, t) /\ b.rev = z.rev
      BY <2>3 DEF Known, Repeats
    <3>3. QED
      BY <3>1, <3>2, NextIsUnused
  <2>4. QED
    BY <1>4, <2>1, <2>2, <2>3 DEF Agree
<1>5. ASSUME NEW k \in Instance, NEW t \in Session, Recorded(k, t)'
      PROVE  Covers(clock'[k], record'[k][t].rev)
  <2>1. CASE record'[k][t] = record[k][t]
    <3>1. Recorded(k, t)
      BY <1>5, <2>1 DEF Recorded
    <3>2. record[k][t].rev \in Revision /\ Covers(clock[k], record[k][t].rev)
      BY <3>1 DEF RevInv, RecordIsCovered, DataInv, Sound, IsRecord
    <3>3. QED
      BY <1>1, <2>1, <3>2, ClocksAdvance
  <2>2. CASE record'[k][t] # record[k][t]
    BY <2>2 DEF Elsewhere, Moves
  <2>3. QED
    BY <2>1, <2>2
<1>6. QED
  BY <1>3, <1>4, <1>5 DEF HeldIsCovered, HeldAgrees, RecordIsCovered

LEMMA InitRevisions == Init => RevInv
<1> SUFFICES ASSUME Init PROVE RevInv
  OBVIOUS
<1>1. \A i \in Instance, s \in Session : ~Recorded(i, s) /\ archives[i][s] = Nowhere /\ published[i] = {}
  BY DEF Init, Recorded
<1>2. \A s \in Session : \A x : ~Held(x, s)
  BY <1>1 DEF Held, HeldAt, Live, Nowhere
<1>3. QED
  BY <1>1, <1>2, InitData DEF RevInv, HeldIsCovered, HeldAgrees, RecordIsCovered

LEMMA NextRevisions == RevInv /\ [Next]_vars => RevInv'
<1> SUFFICES ASSUME RevInv, [Next]_vars PROVE RevInv'
  OBVIOUS
<1>1. DataInv /\ DataInv'
  BY NextData DEF RevInv
<1>2. CASE UNCHANGED vars
  BY <1>1, <1>2 DEF RevInv, HeldIsCovered, HeldAgrees, RecordIsCovered, Held, HeldAt, Live, Recorded,
     LiveEntry, vars, state
<1>3. CASE Next
  <2>1. PICK i \in Instance, s \in Session : Shape' /\ Elsewhere(i, s) /\ Moves(i, s)
    BY <1>1, <1>3, StepIsSomewhere, StepMoves
  <2>2. QED
    BY <1>1, <2>1, StepKeepsRevisions DEF RevInv
<1>4. QED
  BY <1>2, <1>3

(* What revisions, clocks and records say of each other holds always.      *)
THEOREM RevisionInvariance == Spec => []RevInv
<1>1. QED
  BY InitRevisions, NextRevisions, PTL DEF Spec

(* Two versions of a session that bear one revision are the same version,  *)
(* wherever they are: no import can ever end in a revision conflict.       *)
THEOREM RevisionsStandForOne == Spec => []RevisionsAgree
<1>1. ASSUME DataInv, NEW s \in Session, NEW x \in Holdings(s)
      PROVE  Held(x, s) /\ (x.kind = "branch" => x.hidden) /\ (x.kind = "tombstone" => ~x.hidden)
             /\ x.kind \in {"live", "tombstone", "branch"} /\ x.hidden \in BOOLEAN
  <2> DEFINE P == UNION {{e \in published[i] : e.session = s} : i \in Instance}
             R == {LiveEntry(i, s, record[i][s]) : i \in {j \in Instance : Live(j, s)}}
             B == UNION {{BranchEntry(s, d, archives[i][s][d].rev) : d \in DOMAIN archives[i][s]} : i \in Instance}
  <2>1. Held(x, s)
    <3>1. CASE x \in P
      BY <3>1 DEF Held, HeldAt
    <3>2. CASE x \in R
      <4>1. PICK i \in Instance : Live(i, s) /\ x = LiveEntry(i, s, record[i][s])
        BY <3>2
      <4>2. QED
        BY <4>1 DEF Held, HeldAt
    <3>3. CASE x \in B
      <4>1. PICK i \in Instance : \E d \in DOMAIN archives[i][s] : x = BranchEntry(s, d, archives[i][s][d].rev)
        BY <3>3
      <4>2. QED
        BY <4>1 DEF Held, HeldAt
    <3>4. Holdings(s) = P \cup R \cup B
      BY DEF Holdings, P, R, B
    <3> HIDE DEF P, R, B
    <3>5. QED
      BY <1>1, <3>1, <3>2, <3>3, <3>4
  <2>2. QED
    BY <1>1, <2>1, HeldIsEntry DEF IsEntry
<1>2. RevInv => RevisionsAgree
  <2> SUFFICES ASSUME RevInv, NEW s \in Session, NEW x \in Holdings(s), NEW y \in Holdings(s), x.rev = y.rev
               PROVE  x.digest = y.digest /\ (x.kind = y.kind => x.hidden = y.hidden)
    BY DEF RevisionsAgree
  <2>1. DataInv
    BY DEF RevInv
  <2>2. Agree(x, y)
    BY <1>1, <2>1 DEF RevInv, HeldAgrees
  <2>3. x.digest = y.digest /\ (x.kind = "live" /\ y.kind = "live" => x.hidden = y.hidden)
    BY <2>2 DEF Agree
  <2>4. QED
    BY <1>1, <2>1, <2>3
<1>3. QED
  BY <1>2, RevisionInvariance, PTL
-----------------------------------------------------------------------------
(* SessionSync implements the last-writer-wins store *)

VersionOf(s, r) == Version(s, IF r.deleted THEN Tombstone(s, r.rev) ELSE r)

LEMMA HeldVersionAt ==
  ASSUME NEW i \in Instance, NEW s \in Session
  PROVE  /\ HeldVersion[i][s] = IF Recorded(i, s) THEN VersionOf(s, record[i][s]) ELSE None
         /\ HeldVersion'[i][s] = IF Recorded(i, s)' THEN VersionOf(s, record'[i][s]) ELSE None
BY DEF HeldVersion, VersionOf, Version, Tombstone

LEMMA HeldVersionShape ==
  /\ HeldVersion = [i \in Instance |-> [s \in Session |-> HeldVersion[i][s]]]
  /\ HeldVersion' = [i \in Instance |-> [s \in Session |-> HeldVersion'[i][s]]]
BY DEF HeldVersion

LEMMA VersionFields ==
  ASSUME NEW s, NEW r
  PROVE  VersionOf(s, r) # None /\ VersionOf(s, r).rev = r.rev
BY DEF VersionOf, Version, Tombstone, None

LEMMA SharedIff ==
  ASSUME NEW v
  PROVE  /\ v \in SharedVersions <=>
              \E i \in Instance : \E e \in published[i] : e.kind # "branch" /\ v = Version(e.session, e)
         /\ v \in SharedVersions' <=>
              \E i \in Instance : \E e \in published'[i] : e.kind # "branch" /\ v = Version(e.session, e)
<1>1. v \in SharedVersions <=>
        \E i \in Instance : \E e \in published[i] : e.kind # "branch" /\ v = Version(e.session, e)
  BY DEF SharedVersions
<1>2. v \in SharedVersions' <=>
        \E i \in Instance : \E e \in published'[i] : e.kind # "branch" /\ v = Version(e.session, e)
  BY DEF SharedVersions
<1>3. QED
  BY <1>1, <1>2

(* i records a version of its own, or none, and gives out what it holds.   *)
LocalStep(i, s) ==
  /\ \/ record'[i][s] = record[i][s]
     \/ record'[i][s] # None /\ TickFits(clock[i], 0) /\ record'[i][s].rev = NextRevision(i)
  /\ published[i] \subseteq published'[i]
  /\ \A e \in published'[i] :
       e \in published[i] \/ e.kind = "branch" \/ Version(e.session, e) = HeldVersion'[i][s]

AdoptStep(j, e) ==
  /\ \E k \in Instance : e \in published[k]
  /\ e.kind # "branch" /\ Newer(j, e) /\ published' = published
  /\ \E id : record'[j][e.session] = RecordOf(e, id)

LEMMA UserIsLocal ==
  ASSUME DataInv, NEW i \in Instance, NEW s \in Session, User(i, s)
  PROVE  LocalStep(i, s)
<1>1. published' = published
  BY UserSound
<1>2. CASE \E d \in DOMAIN archives[i][s] : Restore(i, s, d)
  <2>1. PICK d \in DOMAIN archives[i][s] : Restore(i, s, d)
    BY <1>2
  <2>2. record'[i][s] # None /\ record'[i][s].rev = NextRevision(i) /\ TickFits(clock[i], 0)
    BY <2>1 DEF Restore, DataInv, Shape, None
  <2>3. QED
    BY <1>1, <2>2 DEF LocalStep
<1>3. CASE ~\E d \in DOMAIN archives[i][s] : Restore(i, s, d)
  <2>1. record' = record
    BY <1>3 DEF User, Edit, ToggleHidden, DeleteSession, Unregister, state
  <2>2. QED
    BY <1>1, <2>1 DEF LocalStep
<1>4. QED
  BY <1>2, <1>3

LEMMA ExportIsLocal ==
  ASSUME DataInv, NEW i \in Instance, NEW s \in Session, Export(i, s)
  PROVE  LocalStep(i, s)
<1>1. CASE \E id \in DOMAIN logs[i][s] : ExportSession(i, s, id)
  <2>1. PICK id \in DOMAIN logs[i][s] : ExportSession(i, s, id)
    BY <1>1
  <2> DEFINE r == record'[i][s]
  <2>2. \/ published'[i] = published[i]
        \/ published'[i] = published[i] \cup {LiveEntry(i, s, r)}
    BY <2>1 DEF ExportSession, DataInv, Shape, Publish
  <2>3. r # None /\ ~r.deleted
    <3>1. CASE Changed(i, s, id)
      BY <2>1, <3>1 DEF ExportSession, DataInv, Shape, None
    <3>2. CASE ~Changed(i, s, id)
      <4>1. r = record[i][s]
        BY <2>1, <3>2 DEF ExportSession, DataInv, Shape
      <4>2. QED
        BY <3>2, <4>1 DEF Changed, Recorded
    <3>3. QED
      BY <3>1, <3>2
  <2>4. r = record[i][s] \/ (r # None /\ TickFits(clock[i], 0) /\ r.rev = NextRevision(i))
    <3>1. CASE Changed(i, s, id)
      BY <2>1, <2>3, <3>1 DEF ExportSession, DataInv, Shape
    <3>2. CASE ~Changed(i, s, id)
      BY <2>1, <3>2 DEF ExportSession, DataInv, Shape
    <3>3. QED
      BY <3>1, <3>2
  <2> HIDE DEF r
  <2>5. /\ LiveEntry(i, s, r).session = s
        /\ Version(s, LiveEntry(i, s, r)) = VersionOf(s, r)
    BY <2>3 DEF LiveEntry, Version, VersionOf
  <2>6. HeldVersion'[i][s] = VersionOf(s, r)
    BY <2>3, HeldVersionAt DEF Recorded, r
  <2>7. QED
    BY <2>2, <2>4, <2>5, <2>6 DEF LocalStep, r
<1>2. CASE \E d \in DOMAIN archives[i][s] : ExportArchive(i, s, d)
  <2>1. PICK d \in DOMAIN archives[i][s] : ExportArchive(i, s, d)
    BY <1>2
  <2>2. /\ record' = record /\ published[i] \subseteq published'[i]
        /\ \A e \in published'[i] : e \in published[i] \/ e.kind = "branch"
    BY <2>1 DEF ExportArchive, DataInv, Shape, Publish, BranchEntry
  <2>3. QED
    BY <2>2 DEF LocalStep
<1>3. ASSUME ExportMissing(i, s) \/ ExportTombstone(i, s)
      PROVE  LocalStep(i, s)
  <2> DEFINE r == record'[i][s]
  <2>1. /\ published'[i] = published[i] \cup {Tombstone(s, r.rev)}
        /\ r # None /\ r.deleted
        /\ r = record[i][s] \/ (TickFits(clock[i], 0) /\ r.rev = NextRevision(i))
    <3>1. CASE ExportMissing(i, s)
      BY <3>1 DEF ExportMissing, DataInv, Shape, Publish, None
    <3>2. CASE ExportTombstone(i, s)
      BY <3>2 DEF ExportTombstone, DataInv, Shape, Publish, state, Recorded
    <3>3. QED
      BY <1>3, <3>1, <3>2
  <2> HIDE DEF r
  <2>2. /\ Tombstone(s, r.rev).session = s
        /\ Version(s, Tombstone(s, r.rev)) = VersionOf(s, r)
    BY <2>1 DEF Tombstone, Version, VersionOf
  <2>3. HeldVersion'[i][s] = VersionOf(s, r)
    BY <2>1, HeldVersionAt DEF Recorded, r
  <2>4. QED
    BY <2>1, <2>2, <2>3 DEF LocalStep, r
<1>4. QED
  BY <1>1, <1>2, <1>3 DEF Export

LEMMA ImportIsLocalOrAdopts ==
  ASSUME DataInv, NEW j \in Instance, NEW k \in Instance, NEW e \in published[k], IsEntry(e), Import(j, e)
  PROVE  LocalStep(j, e.session) \/ AdoptStep(j, e)
<1>1. published' = published
  BY ImportSound
<1>2. CASE record' = record
  BY <1>1, <1>2 DEF LocalStep
<1>3. CASE ApplyTombstone(j, e) \/ ApplyMembership(j, e) \/ ApplyLive(j, e)
  <2>1. e.kind # "branch" /\ Newer(j, e)
    BY <1>3 DEF ApplyTombstone, ApplyMembership, ApplyLive, Due
  <2>2. \E id : record'[j][e.session] = RecordOf(e, id)
    BY <1>3 DEF ApplyTombstone, ApplyMembership, ApplyLive, DataInv, Shape, IsEntry
  <2>3. QED
    BY <1>1, <2>1, <2>2 DEF AdoptStep
<1>4. QED
  BY <1>2, <1>3
     DEF Import, ApplySame, ApplyConflicts, ApplyArchive, ApplyArchiveSame, ApplyArchiveState, ApplyStops, state
LEMMA SameOrder == ASSUME NEW a, NEW b PROVE Lww!Before(a, b) <=> Before(a, b)
BY DEF Before, Lww!Before

LEMMA NextIsUnusedInStore ==
  ASSUME RevInv, NEW i \in Instance, NEW s \in Session, TickFits(clock[i], 0)
  PROVE  Lww!Unused(s, NextRevision(i))
<1>1. ASSUME NEW v \in SharedVersions, v.origin = s
      PROVE  v.rev # NextRevision(i)
  <2>1. PICK k \in Instance : \E e \in published[k] : e.kind # "branch" /\ v = Version(e.session, e)
    BY <1>1, SharedIff
  <2>2. PICK e \in published[k] : v = Version(e.session, e)
    BY <2>1
  <2>3. Held(e, s) /\ v.rev = e.rev
    BY <1>1, <2>2 DEF Held, HeldAt, Version
  <2>4. QED
    BY <2>3, NextIsUnused
<1>2. ASSUME NEW k \in Instance, Recorded(k, s)
      PROVE  record[k][s].rev # NextRevision(i)
  <2>1. CASE record[k][s].deleted
    <3>1. Held(Tombstone(s, record[k][s].rev), s) /\ Tombstone(s, record[k][s].rev).rev = record[k][s].rev
      BY <1>2, <2>1 DEF Held, HeldAt, Tombstone
    <3>2. QED
      BY <3>1, NextIsUnused
  <2>2. CASE ~record[k][s].deleted
    <3>1. Held(LiveEntry(k, s, record[k][s]), s) /\ LiveEntry(k, s, record[k][s]).rev = record[k][s].rev
      BY <1>2, <2>2 DEF Held, HeldAt, Live, LiveEntry
    <3>2. QED
      BY <3>1, NextIsUnused
  <2>3. QED
    BY <2>1, <2>2
<1>3. \A k \in Instance : HeldVersion[k][s] = None \/ HeldVersion[k][s].rev # NextRevision(i)
  BY <1>2, HeldVersionAt, VersionFields
<1>4. QED
  BY <1>1, <1>3 DEF Lww!Unused

LEMMA LocalWrites ==
  ASSUME RevInv, NEW i \in Instance, NEW s \in Session, Elsewhere(i, s), LocalStep(i, s)
  PROVE  Lww!Write(i)
<1>1. \A k \in Instance, t \in Session : k # i \/ t # s => HeldVersion'[k][t] = HeldVersion[k][t]
  BY HeldVersionAt DEF Elsewhere, Recorded
<1>2. ASSUME NEW k \in Instance \ {i} PROVE HeldVersion'[k] = HeldVersion[k]
  BY <1>1, HeldVersionShape
<1>3. ASSUME NEW t \in Session, HeldVersion'[i][t] # HeldVersion[i][t]
      PROVE  /\ HeldVersion'[i][t] # None
             /\ Lww!Supersedes(HeldVersion'[i][t], HeldVersion[i][t])
             /\ HeldVersion'[i][t].rev.w = i
             /\ Lww!Unused(t, HeldVersion'[i][t].rev)
  <2>1. t = s /\ record'[i][s] # record[i][s]
    BY <1>1, <1>3, HeldVersionAt DEF Recorded
  <2>2. record'[i][s] # None /\ TickFits(clock[i], 0) /\ record'[i][s].rev = NextRevision(i)
    BY <2>1 DEF LocalStep
  <2>3. HeldVersion'[i][s] # None /\ HeldVersion'[i][s].rev = NextRevision(i)
    BY <2>2, HeldVersionAt, VersionFields DEF Recorded
  <2>4. Shape /\ clock[i] \in Clock
    BY DEF RevInv, DataInv, Shape
  <2>5. /\ NextClock(i) \in Clock /\ Covers(NextClock(i), clock[i]) /\ ~Covers(clock[i], NextClock(i))
        /\ NextRevision(i).w = i
    BY <2>2, <2>4, NextClockMoves
  <2>6. ASSUME Recorded(i, s) PROVE Before(record[i][s].rev, NextRevision(i))
    <3>1. record[i][s].rev \in Revision /\ Covers(clock[i], record[i][s].rev)
      BY <2>6 DEF RevInv, RecordIsCovered, DataInv, Sound, IsRecord
    <3>2. Covers(NextClock(i), record[i][s].rev)
      BY <2>4, <2>5, <3>1, CoversTransitive
    <3>3. ~(NextClock(i).pt = record[i][s].rev.pt /\ NextClock(i).lc = record[i][s].rev.lc)
      BY <2>5, <3>1 DEF Covers
    <3>4. QED
      BY <2>5, <3>1, <3>2, <3>3, StampAfter DEF NextRevision
  <2>7. Lww!Supersedes(HeldVersion'[i][s], HeldVersion[i][s])
    BY <2>3, <2>6, HeldVersionAt, VersionFields, SameOrder DEF Lww!Supersedes
  <2>8. QED
    BY <2>1, <2>2, <2>3, <2>5, <2>7, NextIsUnusedInStore
<1>4. SharedVersions \subseteq SharedVersions'
  <2>1. \A k \in Instance : published[k] \subseteq published'[k]
    BY DEF Elsewhere, LocalStep
  <2>2. QED
    BY <2>1, SharedIff
<1>5. ASSUME NEW v \in SharedVersions', v \notin SharedVersions
      PROVE  \E t \in Session : v = HeldVersion'[i][t]
  <2>1. PICK k \in Instance : \E e \in published'[k] : e.kind # "branch" /\ v = Version(e.session, e)
    BY <1>5, SharedIff
  <2>2. PICK e \in published'[k] : e.kind # "branch" /\ v = Version(e.session, e)
    BY <2>1
  <2>3. e \notin published[k]
    BY <1>5, <2>2, SharedIff
  <2>4. QED
    BY <2>2, <2>3 DEF Elsewhere, LocalStep
<1>6. SharedVersions' \subseteq SharedVersions \cup {HeldVersion'[i][t] : t \in Session}
  BY <1>5
<1>7. QED
  BY <1>2, <1>3, <1>4, <1>6 DEF Lww!Write

LEMMA AdoptionAdopts ==
  ASSUME RevInv, NEW j \in Instance, NEW e, IsEntry(e), AdoptStep(j, e), Elsewhere(j, e.session)
  PROVE  Lww!Adopt(j)
<1> DEFINE s == e.session
           v == Version(s, e)
<1>1. s \in Session
  BY DEF IsEntry
<1>2. PICK id : record'[j][s] = RecordOf(e, id)
  BY DEF AdoptStep
<1>3. VersionOf(s, RecordOf(e, id)) = v
  BY RecordOfIsRecord DEF VersionOf, Version, Tombstone, RecordOf, IsEntry
<1>4. record'[j][s] # None
  BY <1>2 DEF RecordOf, None
<1>5. HeldVersion'[j][s] = v
  BY <1>1, <1>2, <1>3, <1>4, HeldVersionAt DEF Recorded
<1>6. v \in SharedVersions /\ v.origin = s /\ v.rev = e.rev
  BY SharedIff DEF AdoptStep, Version
<1>7. Lww!Supersedes(v, HeldVersion[j][s])
  BY <1>1, <1>6, HeldVersionAt, VersionFields, SameOrder DEF AdoptStep, Newer, Lww!Supersedes
<1>8. SharedVersions' = SharedVersions
  BY DEF AdoptStep, SharedVersions
<1>9. \A k \in Instance, t \in Session : k # j \/ t # s => HeldVersion'[k][t] = HeldVersion[k][t]
  BY HeldVersionAt DEF Elsewhere, Recorded
<1> HIDE DEF v
<1>10. HeldVersion' = [HeldVersion EXCEPT ![j][s] = v]
  BY <1>1, <1>5, <1>9, HeldVersionShape
<1>11. QED
  BY <1>6, <1>7, <1>8, <1>10 DEF Lww!Adopt

(* The instances implement the last-writer-wins store, whatever is edited, *)
(* deleted, archived and restored in between and wherever imports stop.    *)
THEOREM SessionImplementation == Spec => ImplementsLwwStore
<1>1. Init => Lww!LwwInit
  <2> SUFFICES ASSUME Init PROVE Lww!LwwInit
    OBVIOUS
  <2>1. HeldVersion = [i \in Instance |-> [s \in Session |-> None]]
    BY DEF Init, Recorded, HeldVersion
  <2>2. SharedVersions = {}
    BY SharedIff DEF Init
  <2>3. QED
    BY <2>1, <2>2 DEF Lww!LwwInit
<1>2. RevInv /\ [Next]_vars => [Lww!LwwNext]_(Lww!lwwVars)
  <2> SUFFICES ASSUME RevInv, [Next]_vars PROVE [Lww!LwwNext]_(Lww!lwwVars)
    OBVIOUS
  <2>1. DataInv
    BY DEF RevInv
  <2>2. CASE UNCHANGED vars
    BY <2>2 DEF vars, state, Lww!lwwVars, HeldVersion, SharedVersions, Recorded
  <2>3. CASE Next
    <3>1. PICK i \in Instance, s \in Session :
                 /\ Elsewhere(i, s)
                 /\ \/ User(i, s)
                    \/ Export(i, s)
                    \/ \E e \in UNION {published[x] : x \in Instance} :
                         e.session = s /\ IsEntry(e) /\ Import(i, e)
      BY <2>1, <2>3, StepIsSomewhere
    <3>2. LocalStep(i, s) \/ \E e : e.session = s /\ IsEntry(e) /\ AdoptStep(i, e)
      BY <2>1, <3>1, UserIsLocal, ExportIsLocal, ImportIsLocalOrAdopts
    <3>3. QED
      BY <3>1, <3>2, LocalWrites, AdoptionAdopts DEF Lww!LwwNext
  <2>4. QED
    BY <2>2, <2>3
<1>3. QED
  BY <1>1, <1>2, RevisionInvariance, PTL DEF Spec, ImplementsLwwStore, Lww!LwwSpec
=============================================================================
