----------------------------- MODULE SessionSync -----------------------------
(***************************************************************************)
(* Session synchronisation between instances: which revision of a session  *)
(* an instance has recorded, the local logs that hold its versions, the    *)
(* archives of the versions that lost, and the exports and imports that    *)
(* move them (SyncSessionService.exportBundle, applyBundle, restoreArchive *)
(* over core/sync/stores.ts and the workspace registry).                   *)
(*                                                                         *)
(* A step is one pass of the loop over sessions or archives of an export,  *)
(* or one entry of an import.  Both hold the service's mutation queue, but *)
(* the users of a session do not, so their steps fall between any two.     *)
(* An import's own export is a choice of export steps before it.           *)
(*                                                                         *)
(* Content is the sequence of user changes a log holds.  A digest covers   *)
(* it and, for a session in Marked, the id of the log: such a log holds a  *)
(* delivery marker that names its own session, and an import renames it.   *)
(* Cwd, workspace and position are left out: every workspace is mapped.    *)
(***************************************************************************)
EXTENDS Hlc, Sequences, Functions

CONSTANTS Session,     \* sessions, by their origin
          Home,        \* Home[s]: the instance s was created at
          Marked,      \* sessions whose log has a delivery marker of its own
          Link,        \* <<i, j>>: i's bundles reach j
          MaxLength,   \* content beyond this is too large for an entry
          MaxChanges,  \* bound on what users do
          MaxStops     \* bound on imports that stop half way

ASSUME SessionAssumption == Home \in [Session -> Instance]
ASSUME SessionBoundAssumption ==
  MaxLength \in Nat /\ MaxChanges \in Nat /\ MaxStops \in Nat

VARIABLES
  logs,       \* logs[i][s]: the local logs of s, from local id to content
  attached,   \* attached[i][s]: the local ids that a workspace lists
  hidden,     \* hidden[i][s]: the local ids archived in DSH
  record,     \* record[i][s]: the sync state's record, or None
  archives,   \* archives[i][s]: the archived versions, by digest
  clock,      \* clock[i]: the hybrid logical clock
  published,  \* published[i]: what i's bundles have held
  erased,     \* erased[i][s]: the local ids whose log a user deleted (history)
  changes,    \* what users have done (bound)
  stops       \* imports stopped (bound)

desk == <<logs, attached, hidden>>
state == <<record, archives, clock>>
history == <<erased, changes, stops>>
vars == <<desk, state, published, history>>

-----------------------------------------------------------------------------
(* Functions with a key more, or less *)

Put(f, k, v) == [x \in DOMAIN f \cup {k} |-> IF x = k THEN v ELSE f[x]]
Drop(f, k) == [x \in DOMAIN f \ {k} |-> f[x]]

Prefix(a, b) == Len(a) <= Len(b) /\ SubSeq(b, 1, Len(a)) = a

(* No record, no marker.                                                   *)
None == [kind |-> "none"]

(* Digests and local ids: the log a session was created in, the log of an  *)
(* imported version, the log of an imported archive.                       *)

(* The marker of a log names that log: rewriteEvents() renames it.         *)
MarkerIn(s, id) == IF s \in Marked THEN id ELSE None

DigestOf(s, id, content) == [content |-> content, marker |-> MarkerIn(s, id)]
Deleted == [content |-> <<>>, marker |-> [kind |-> "deleted"]]

HomeId == [kind |-> "home"]
SyncId(digest) == [kind |-> "sync", of |-> digest]
BranchId(digest) == [kind |-> "archive", of |-> digest]

Log(i, s, id) == logs[i][s][id]
HasLog(i, s, id) == id \in DOMAIN logs[i][s]
Digest(i, s, id) == DigestOf(s, id, Log(i, s, id))

ArchiveLocals(i, s) == {archives[i][s][d].local : d \in DOMAIN archives[i][s]}

Recorded(i, s) == record[i][s] # None
Live(i, s) == Recorded(i, s) /\ ~record[i][s].deleted

(* A revision that i may give out, and its clock after that. *)
NextClock(i) == Tick(clock[i], 0)
NextRevision(i) == Stamp(NextClock(i), i)

(* Wrong on purpose: any other revision is taken for a newer one. *)
NewerIfOther(i, e) == Recorded(i, e.session) => record[i][e.session].rev # e.rev

(* The entry e is newer than what i has recorded, if anything. *)
Newer(i, e) == IF Recorded(i, e.session) THEN Before(record[i][e.session].rev, e.rev) ELSE TRUE
Same(i, e) == Recorded(i, e.session) /\ record[i][e.session].rev = e.rev

-----------------------------------------------------------------------------
(* Users.  A change is numbered, so no two of them are alike. *)

Change == changes < MaxChanges /\ changes' = changes + 1

Edit(i, s, id) ==
  /\ HasLog(i, s, id) /\ id \in attached[i][s] \ hidden[i][s]
  /\ Change
  /\ logs' = [logs EXCEPT ![i][s][id] = Append(@, changes + 1)]
  /\ UNCHANGED <<attached, hidden, state, published, stops, erased>>

(* Archived or unarchived in DSH, archives of the sync state included.     *)
ToggleHidden(i, s, id) ==
  /\ HasLog(i, s, id) /\ id \in attached[i][s]
  /\ Change
  /\ hidden' = [hidden EXCEPT ![i][s] = IF id \in @ THEN @ \ {id} ELSE @ \cup {id}]
  /\ UNCHANGED <<logs, attached, state, published, stops, erased>>

(* A session is deleted.  (Archives are not, by their users.) *)
DeleteSession(i, s, id) ==
  /\ HasLog(i, s, id) /\ id \notin ArchiveLocals(i, s)
  /\ Change
  /\ logs' = [logs EXCEPT ![i][s] = Drop(@, id)]
  /\ attached' = [attached EXCEPT ![i][s] = @ \ {id}]
  /\ hidden' = [hidden EXCEPT ![i][s] = @ \ {id}]
  /\ erased' = [erased EXCEPT ![i][s] = @ \cup {id}]
  /\ UNCHANGED <<state, published, stops>>

(* The workspace of s is unregistered, or its binding removed. *)
Unregister(i, s) ==
  /\ attached[i][s] # {}
  /\ Change
  /\ attached' = [attached EXCEPT ![i][s] = {}]
  /\ UNCHANGED <<logs, hidden, state, published, stops, erased>>

-----------------------------------------------------------------------------
(* archiveCurrent(): the log of a live version is hidden and kept under    *)
(* the version's branch id, if no archive has that id yet.                 *)

(* Wrong on purpose: a version is archived although its log is gone.       *)
ArchivableUnread(i, s) ==
  /\ Live(i, s)
  /\ record[i][s].digest \notin DOMAIN archives[i][s]

Archivable(i, s) ==
  /\ Live(i, s)
  /\ record[i][s].digest \notin DOMAIN archives[i][s]
  /\ HasLog(i, s, record[i][s].local)

ArchivesWith(i, s) ==
  IF Archivable(i, s)
  THEN Put(archives[i][s], record[i][s].digest, [rev |-> record[i][s].rev, local |-> record[i][s].local])
  ELSE archives[i][s]

HiddenWith(i, s) ==
  IF Archivable(i, s) THEN hidden[i][s] \cup {record[i][s].local} ELSE hidden[i][s]

(* restoreArchive(): the archive of digest d becomes the live version, at  *)
(* a new revision.                                                         *)
Restore(i, s, d) ==
  /\ d \in DOMAIN archives[i][s] /\ HasLog(i, s, archives[i][s][d].local)
  /\ TickFits(clock[i], 0)
  /\ Change
  /\ LET id == archives[i][s][d].local
         displaces == Live(i, s) /\ record[i][s].local # id
     IN  /\ archives' = [archives EXCEPT ![i][s] = Drop(IF displaces THEN ArchivesWith(i, s) ELSE @, d)]
         /\ hidden' = [hidden EXCEPT ![i][s] = (IF displaces THEN HiddenWith(i, s) ELSE @) \ {id}]
         /\ record' = [record EXCEPT ![i][s] = [rev |-> NextRevision(i), digest |-> d, hidden |-> TRUE,
                                                deleted |-> FALSE, local |-> id]]
  /\ clock' = [clock EXCEPT ![i] = NextClock(i)]
  /\ UNCHANGED <<logs, attached, published, stops, erased>>

-----------------------------------------------------------------------------
(* exportBundle() *)

Publish(i, e) == published' = [published EXCEPT ![i] = @ \cup {e}]

LiveEntry(i, s, rec) ==
  [session |-> s, kind |-> "live", rev |-> rec.rev, digest |-> rec.digest, hidden |-> rec.hidden]
Tombstone(s, rev) ==
  [session |-> s, kind |-> "tombstone", rev |-> rev, digest |-> Deleted, hidden |-> FALSE]
BranchEntry(s, d, rev) ==
  [session |-> s, kind |-> "branch", rev |-> rev, digest |-> d, hidden |-> TRUE]

(* The record an exported log goes by: the one that names it, or, for the  *)
(* log a session was created in, the one of that session.                  *)
GoesByRecord(i, s, id) ==
  Recorded(i, s) /\ (record[i][s].local = id \/ (id = HomeId /\ Home[s] = i))

(* A session of the workspace list that the loop does not pass over. *)
Exportable(i, s, id) ==
  /\ HasLog(i, s, id) /\ id \in attached[i][s]
  /\ id \notin ArchiveLocals(i, s)
  /\ ~(Recorded(i, s) /\ record[i][s].local = id /\ record[i][s].deleted)
  /\ GoesByRecord(i, s, id) \/ (id = HomeId /\ Home[s] = i)

(* The log differs from the record: other content, another state, or the   *)
(* record is of a deleted session.                                         *)
Changed(i, s, id) ==
  IF Recorded(i, s)
  THEN \/ record[i][s].digest # Digest(i, s, id)
       \/ record[i][s].deleted
       \/ record[i][s].hidden # (id \in hidden[i][s])
  ELSE TRUE

Fits(content) == Len(content) <= MaxLength

(* Wrong on purpose: a changed session keeps its revision. *)
ExportSessionUnstamped(i, s, id) ==
  /\ Exportable(i, s, id)
  /\ Changed(i, s, id) => TickFits(clock[i], 0)
  /\ LET rec == [rev |-> IF Recorded(i, s) THEN record[i][s].rev ELSE NextRevision(i),
                 digest |-> Digest(i, s, id), hidden |-> id \in hidden[i][s],
                 deleted |-> FALSE, local |-> id]
     IN  /\ record' = [record EXCEPT ![i][s] = rec]
         /\ Publish(i, LiveEntry(i, s, rec))
  /\ clock' = [clock EXCEPT ![i] = NextClock(i)]
  /\ UNCHANGED <<desk, archives, history>>

(* A session is exported; if it has changed, or is not recorded yet, at a  *)
(* new revision.  One that is too large is stamped and left out.           *)
ExportSession(i, s, id) ==
  /\ Exportable(i, s, id)
  /\ Changed(i, s, id) => TickFits(clock[i], 0)
  /\ LET new == [rev |-> NextRevision(i), digest |-> Digest(i, s, id), hidden |-> id \in hidden[i][s],
                 deleted |-> FALSE, local |-> id]
         rec == IF Changed(i, s, id) THEN new ELSE record[i][s]
     IN  /\ record' = [record EXCEPT ![i][s] = rec]
         /\ clock' = [clock EXCEPT ![i] = IF Changed(i, s, id) THEN NextClock(i) ELSE @]
         /\ IF Fits(Log(i, s, id)) THEN Publish(i, LiveEntry(i, s, rec)) ELSE UNCHANGED published
  /\ UNCHANGED <<desk, archives, history>>

(* A recorded session that no workspace lists any more becomes a tombstone *)
(* unless its log is an archive's.  Listed sessions have been exported.    *)
ExportMissing(i, s) ==
  /\ Live(i, s) /\ record[i][s].local \notin ArchiveLocals(i, s)
  /\ ~\E id \in DOMAIN logs[i][s] : Exportable(i, s, id)
  /\ TickFits(clock[i], 0)
  /\ record' = [record EXCEPT ![i][s] = [rev |-> NextRevision(i), digest |-> Deleted, hidden |-> @.hidden,
                                         deleted |-> TRUE, local |-> @.local]]
  /\ clock' = [clock EXCEPT ![i] = NextClock(i)]
  /\ Publish(i, Tombstone(s, NextRevision(i)))
  /\ UNCHANGED <<desk, archives, history>>

(* A tombstone is exported again, unless its log is an archive's. *)
PassesOn(i, s) == record[i][s].local \notin ArchiveLocals(i, s)

ExportTombstone(i, s) ==
  /\ Recorded(i, s) /\ record[i][s].deleted /\ PassesOn(i, s)
  /\ Publish(i, Tombstone(s, record[i][s].rev))
  /\ UNCHANGED <<desk, state, history>>

(* An archive is exported.  One whose log has changed gets another branch  *)
(* id, at a new revision.                                                  *)
ExportArchive(i, s, d) ==
  /\ d \in DOMAIN archives[i][s]
  /\ LET a == archives[i][s][d]
         now == Digest(i, s, a.local)
         rev == IF now = d THEN a.rev ELSE NextRevision(i)
     IN  /\ HasLog(i, s, a.local) /\ a.local \in attached[i][s]
         /\ now # d => TickFits(clock[i], 0)
         /\ archives' = [archives EXCEPT ![i][s] = Put(Drop(@, d), now, [rev |-> rev, local |-> a.local])]
         /\ clock' = [clock EXCEPT ![i] = IF now = d THEN @ ELSE NextClock(i)]
         /\ IF Fits(Log(i, s, a.local)) THEN Publish(i, BranchEntry(s, now, rev)) ELSE UNCHANGED published
  /\ UNCHANGED <<desk, record, history>>

-----------------------------------------------------------------------------
(* applyBundle() at j, one entry e of a bundle from a linked instance      *)

(* An entry as new as what is recorded must be the same version in the     *)
(* same state, or preflightBundle() refuses the bundle.  (An archive's id  *)
(* is its version.)                                                        *)
Agrees(j, e) ==
  Same(j, e) /\ e.kind # "branch" =>
    CASE e.kind = "tombstone" -> record[j][e.session].deleted
      [] ~record[j][e.session].deleted ->
           record[j][e.session].digest = e.digest /\ record[j][e.session].hidden = e.hidden
      [] OTHER -> TRUE

Received(j, e) ==
  /\ \E i \in Instance : <<i, j>> \in Link /\ e \in published[i]
  /\ Agrees(j, e)

(* prepareEntry(): the entry as the local log it will be.                  *)
Prepared(e) ==
  [local |-> IF e.kind = "branch" THEN BranchId(e.digest) ELSE SyncId(e.digest),
   content |-> e.digest.content,
   hidden |-> e.hidden]

Observed(j, e) ==
  /\ ObserveFits(clock[j], e.rev, 0)
  /\ clock' = [clock EXCEPT ![j] = Observe(@, e.rev, 0)]

Attach(j, s, id) == attached' = [attached EXCEPT ![j][s] = @ \cup {id}]

RecordOf(e, id) ==
  [rev |-> e.rev, digest |-> e.digest, hidden |-> e.hidden, deleted |-> e.kind = "tombstone", local |-> id]

(* Wrong on purpose: a tombstone archives nothing. *)
ApplyTombstoneOnly(j, e) ==
  /\ Received(j, e) /\ e.kind = "tombstone" /\ Newer(j, e)
  /\ record' = [record EXCEPT ![j][e.session] =
                  RecordOf(e, IF Recorded(j, e.session) THEN @.local ELSE SyncId(Deleted))]
  /\ Observed(j, e)
  /\ UNCHANGED <<desk, archives, published, history>>

(* The current version is archived and the tombstone recorded. *)
ApplyTombstone(j, e) ==
  /\ Received(j, e) /\ e.kind = "tombstone" /\ Newer(j, e)
  /\ archives' = [archives EXCEPT ![j][e.session] = ArchivesWith(j, e.session)]
  /\ hidden' = [hidden EXCEPT ![j][e.session] = HiddenWith(j, e.session)]
  /\ record' = [record EXCEPT ![j][e.session] =
                  RecordOf(e, IF Recorded(j, e.session) THEN @.local ELSE SyncId(Deleted))]
  /\ Observed(j, e)
  /\ UNCHANGED <<logs, attached, published, history>>

(* An entry that is recorded already puts its log back in the workspace. *)
ApplySame(j, e) ==
  /\ Received(j, e) /\ e.kind = "live" /\ Same(j, e) /\ Live(j, e.session)
  /\ HasLog(j, e.session, record[j][e.session].local)
  /\ Attach(j, e.session, record[j][e.session].local)
  /\ UNCHANGED <<logs, hidden, state, published, history>>

(* Nothing new but its state and revision: the log stays. *)
StateOnly(j, e) ==
  /\ Live(j, e.session)
  /\ record[j][e.session].digest = e.digest
  /\ HasLog(j, e.session, record[j][e.session].local)

SetHidden(j, s, id, h) ==
  hidden' = [hidden EXCEPT ![j][s] = IF h THEN @ \cup {id} ELSE @ \ {id}]

ApplyMembership(j, e) ==
  /\ Received(j, e) /\ e.kind = "live" /\ Newer(j, e) /\ StateOnly(j, e)
  /\ LET id == record[j][e.session].local
     IN  /\ Attach(j, e.session, id)
         /\ SetHidden(j, e.session, id, e.hidden)
         /\ record' = [record EXCEPT ![j][e.session] = RecordOf(e, id)]
  /\ Observed(j, e)
  /\ UNCHANGED <<logs, archives, published, history>>

(* Wrong on purpose: whatever is at the id is taken for the beginning.     *)
ContinuesUnchecked(j, e) == TRUE

(* The log at the id, if there is one, is the beginning of the entry's.    *)
Continues(j, e) ==
  HasLog(j, e.session, Prepared(e).local) =>
    Prefix(Log(j, e.session, Prepared(e).local), Prepared(e).content)

Written(j, e) == logs' = [logs EXCEPT ![j][e.session] = Put(@, Prepared(e).local, Prepared(e).content)]

(* The entry replaces the version recorded in another log. *)
Displaces(j, e) == Live(j, e.session) /\ record[j][e.session].local # Prepared(e).local

ArchivesAt(j, e) == IF Displaces(j, e) THEN ArchivesWith(j, e.session) ELSE archives[j][e.session]
HiddenAt(j, e) == IF Displaces(j, e) THEN HiddenWith(j, e.session) ELSE hidden[j][e.session]

Due(j, e) == Received(j, e) /\ e.kind = "live" /\ Newer(j, e) /\ ~StateOnly(j, e)

(* A new version: the current one is archived, the log written, attached,  *)
(* hidden or not, and recorded.                                            *)
ApplyLive(j, e) ==
  /\ Due(j, e) /\ Continues(j, e)
  /\ LET s == e.session
         id == Prepared(e).local
     IN  /\ archives' = [archives EXCEPT ![j][s] = ArchivesAt(j, e)]
         /\ Written(j, e)
         /\ Attach(j, s, id)
         /\ hidden' = [hidden EXCEPT ![j][s] =
                         IF Prepared(e).hidden THEN HiddenAt(j, e) \cup {id} ELSE HiddenAt(j, e) \ {id}]
         /\ record' = [record EXCEPT ![j][s] = RecordOf(e, id)]
  /\ Observed(j, e)
  /\ UNCHANGED <<published, history>>

(* Another log is at the id: the current version has been archived, and    *)
(* the import fails.                                                       *)
ApplyConflicts(j, e) ==
  /\ Due(j, e) /\ ~Continues(j, e)
  /\ archives' = [archives EXCEPT ![j][e.session] = ArchivesAt(j, e)]
  /\ hidden' = [hidden EXCEPT ![j][e.session] = HiddenAt(j, e)]
  /\ UNCHANGED <<logs, attached, record, clock, published, history>>

(* Archives come after the sessions of a bundle. *)
DueArchive(j, e) ==
  /\ e.kind = "branch"
  /\ \E i \in Instance :
       /\ <<i, j>> \in Link /\ e \in published[i]
       /\ ~\E f \in published[i] : f.session = e.session /\ f.kind # "branch" /\ Newer(j, f)

(* An archive that is not here yet: its log is written and hidden. *)
ApplyArchive(j, e) ==
  /\ DueArchive(j, e) /\ e.digest \notin DOMAIN archives[j][e.session]
  /\ Continues(j, e)
  /\ Written(j, e)
  /\ LET s == e.session
         id == Prepared(e).local
     IN  /\ Attach(j, s, id)
         /\ hidden' = [hidden EXCEPT ![j][s] = @ \cup {id}]
         /\ archives' = [archives EXCEPT ![j][s] = Put(@, e.digest, [rev |-> e.rev, local |-> id])]
  /\ Observed(j, e)
  /\ UNCHANGED <<record, published, history>>

HereAs(j, e, a) ==
  /\ DueArchive(j, e) /\ e.digest \in DOMAIN archives[j][e.session]
  /\ a = archives[j][e.session][e.digest]
  /\ HasLog(j, e.session, a.local)

(* An archive that is here, at the entry's revision: it is attached again. *)
ApplyArchiveSame(j, e) ==
  /\ \E a \in Range(archives[j][e.session]) :
       HereAs(j, e, a) /\ e.rev = a.rev /\ Attach(j, e.session, a.local)
  /\ UNCHANGED <<logs, hidden, state, published, history>>

(* An archive that is here moves on to the entry's newer revision.         *)
ApplyArchiveState(j, e) ==
  /\ \E a \in Range(archives[j][e.session]) :
       /\ HereAs(j, e, a) /\ Before(a.rev, e.rev)
       /\ Attach(j, e.session, a.local)
       /\ hidden' = [hidden EXCEPT ![j][e.session] = @ \cup {a.local}]
  /\ archives' = [archives EXCEPT ![j][e.session] =
                    Put(@, e.digest, [rev |-> e.rev, local |-> @[e.digest].local])]
  /\ Observed(j, e)
  /\ UNCHANGED <<logs, record, published, history>>

(* An import stops: with the current version archived, with part of the    *)
(* log written, or with all of it written and attached.  Nothing is        *)
(* recorded.                                                               *)
ApplyStops(j, e) ==
  /\ Due(j, e) /\ Continues(j, e)
  /\ stops < MaxStops
  /\ stops' = stops + 1
  /\ archives' = [archives EXCEPT ![j][e.session] = ArchivesAt(j, e)]
  /\ hidden' = [hidden EXCEPT ![j][e.session] = HiddenAt(j, e)]
  /\ \/ UNCHANGED <<logs, attached>>
     \/ /\ ~HasLog(j, e.session, Prepared(e).local)
        /\ \E n \in 0 .. Len(e.digest.content) - 1 :
             logs' = [logs EXCEPT ![j][e.session] =
                        Put(@, Prepared(e).local, SubSeq(Prepared(e).content, 1, n))]
        /\ UNCHANGED attached
     \/ Written(j, e) /\ Attach(j, e.session, Prepared(e).local)
  /\ UNCHANGED <<record, clock, published, changes, erased>>

-----------------------------------------------------------------------------
Nowhere == [x \in {} |-> <<>>]

Init ==
  /\ logs = [i \in Instance |-> [s \in Session |-> IF Home[s] = i THEN Put(Nowhere, HomeId, <<>>) ELSE Nowhere]]
  /\ attached = [i \in Instance |-> [s \in Session |-> IF Home[s] = i THEN {HomeId} ELSE {}]]
  /\ hidden = [i \in Instance |-> [s \in Session |-> {}]]
  /\ record = [i \in Instance |-> [s \in Session |-> None]]
  /\ archives = [i \in Instance |-> [s \in Session |-> Nowhere]]
  /\ clock = [i \in Instance |-> ZeroClock]
  /\ published = [i \in Instance |-> {}]
  /\ erased = [i \in Instance |-> [s \in Session |-> {}]]
  /\ changes = 0 /\ stops = 0

User(i, s) ==
  \/ \E id \in DOMAIN logs[i][s] : Edit(i, s, id) \/ ToggleHidden(i, s, id) \/ DeleteSession(i, s, id)
  \/ \E d \in DOMAIN archives[i][s] : Restore(i, s, d)
  \/ Unregister(i, s)

Export(i, s) ==
  \/ \E id \in DOMAIN logs[i][s] : ExportSession(i, s, id)
  \/ \E d \in DOMAIN archives[i][s] : ExportArchive(i, s, d)
  \/ ExportMissing(i, s) \/ ExportTombstone(i, s)

Import(j, e) ==
  \/ ApplyTombstone(j, e) \/ ApplySame(j, e) \/ ApplyMembership(j, e)
  \/ ApplyLive(j, e) \/ ApplyConflicts(j, e)
  \/ ApplyArchive(j, e) \/ ApplyArchiveSame(j, e) \/ ApplyArchiveState(j, e)
  \/ ApplyStops(j, e)

Next ==
  \/ \E i \in Instance, s \in Session : User(i, s) \/ Export(i, s)
  \/ \E i, j \in Instance : \E e \in published[i] : Import(j, e)

Spec == Init /\ [][Next]_vars

-----------------------------------------------------------------------------
(* Properties *)

(* Records, archives and clocks have their shape, and only logs that are   *)
(* there are attached or hidden.                                           *)
TypeOK ==
  /\ \A i \in Instance, s \in Session :
       /\ attached[i][s] \cup hidden[i][s] \subseteq DOMAIN logs[i][s]
       /\ Recorded(i, s) => record[i][s].rev \in Revision /\ record[i][s].deleted \in BOOLEAN
       /\ \A d \in DOMAIN archives[i][s] : archives[i][s][d].rev \in Revision
  /\ \A i \in Instance : \A e \in published[i] : e.session \in Session /\ e.rev \in Revision
  /\ clock \in [Instance -> Clock]
  /\ changes \in 0 .. MaxChanges /\ stops \in 0 .. MaxStops

(* An archive can be restored: its log is there, and holds the version     *)
(* that lost, whatever was imported, stopped half way or edited since.     *)
(* Not so a log its user once deleted and an import that stopped brought   *)
(* back in part: archiveCurrent() only asks whether there is a log.        *)
Restorable ==
  \A i \in Instance, s \in Session : \A d \in DOMAIN archives[i][s] :
    LET id == archives[i][s][d].local
    IN  /\ HasLog(i, s, id)
        /\ id \notin erased[i][s] => Prefix(d.content, Log(i, s, id))

(* A revision stands for one version of a session, wherever it is: a pair  *)
(* that differs would fail every import between its holders from then on   *)
(* (revision-conflict).                                                    *)
Holdings(s) ==
  (UNION {{e \in published[i] : e.session = s} : i \in Instance})
  \cup {LiveEntry(i, s, record[i][s]) : i \in {j \in Instance : Live(j, s)}}
  \cup (UNION {{BranchEntry(s, d, archives[i][s][d].rev) : d \in DOMAIN archives[i][s]} : i \in Instance})

RevisionsAgree ==
  \A s \in Session : \A x, y \in Holdings(s) :
    x.rev = y.rev => x.digest = y.digest /\ (x.kind = y.kind => x.hidden = y.hidden)

(* When an import, a tombstone or a restored archive takes the place of a  *)
(* version whose log is there, that log or one with the same version is    *)
(* an archive's or the live one.                                           *)
Kept(i, s) ==
  \/ record[i][s].digest \in DOMAIN archives'[i][s] \cup {record'[i][s].digest}
  \/ record[i][s].local \in ArchiveLocals(i, s)'
  \/ ~record'[i][s].deleted /\ record'[i][s].local = record[i][s].local

LoserKept ==
  [][\A i \in Instance, s \in Session :
       /\ Live(i, s) /\ HasLog(i, s, record[i][s].local)
       /\ record'[i][s].rev.w # i \/ changes' # changes
       => Kept(i, s)]_vars

(* Synchronisation never removes or rewrites what a log holds, imports     *)
(* that are stopped, repeated or in conflict with local edits included.    *)
LogsOnlyGrow ==
  [][changes' = changes =>
       \A i \in Instance, s \in Session : \A id \in DOMAIN logs[i][s] :
         id \in DOMAIN logs'[i][s] /\ Prefix(logs[i][s][id], logs'[i][s][id])]_vars

(* A version that comes back with the content it has here does not make an *)
(* archive: "archives ... are not copied to new branches in an A->B->A     *)
(* round trip" (cloud-sync design.md, line 382).                           *)
RoundTripArchivesNothing ==
  [][\A i \in Instance, s \in Session :
       Live(i, s) /\ record'[i][s].digest.content = record[i][s].digest.content
         => DOMAIN archives'[i][s] \subseteq DOMAIN archives[i][s]]_vars
=============================================================================
