------------------------------ MODULE NodeSync ------------------------------
(***************************************************************************)
(* Synchronisation of execution nodes between DSH-HoneyBee instances       *)
(* (core/sync/node-sync.ts over core/node-registry.ts), at the granularity *)
(* of one operation of the service.  SyncNodeService chains its operations *)
(* on one promise per instance (serializeMutation), so operations of one   *)
(* instance do not overlap.  Not on that chain are the requests of users: a *)
(* PATCH of a node is split where it waits for the credentials; what such  *)
(* requests do to profile and credentials in the middle of an operation of *)
(* the chain is NodeHost's, and what a bind request meets while it waits   *)
(* is WorkspaceBinding's.                                                  *)
(*                                                                         *)
(* A node is known everywhere by its origin (originInstanceId,             *)
(* originEntityId).  The local id an instance gives an origin is a         *)
(* function of the origin (the entity id at home, 's-' or 't-' plus a hash *)
(* elsewhere), so state is indexed by the origin.                          *)
(*                                                                         *)
(* Of a profile only the SSH authentication kind is kept: it is the field  *)
(* that decides which part of the stored credentials is shareable.  Of the *)
(* credentials only the kind of secret stored is kept.                     *)
(*                                                                         *)
(* Manifests travel over SSH runs, retries, relays and offline archives,   *)
(* so an entry, once exported, may be applied anywhere, any number of      *)
(* times and in any order: published is the set of all entries exported.   *)
(***************************************************************************)
EXTENDS Hlc, FiniteSets, Functions

CONSTANTS Origin,      \* the nodes, by origin
          Home,        \* Home[o]: the instance that created o
          AuthKind,    \* SSH authentication kinds
          Absent,      \* no such node in the registry
          NoSecret,    \* no shareable secret
          NoRecord,    \* no record in sync-state.json
          Tombstone,   \* the content of a deletion
          MaxTime,     \* bound on Date.now()
          MaxEdits,    \* bound on what users do to nodes
          MaxFaults    \* bound on interrupted operations

ASSUME OriginAssumption == IsFiniteSet(Origin) /\ Home \in [Origin -> Instance]
ASSUME BoundAssumption == MaxTime \in Nat /\ MaxEdits \in Nat /\ MaxFaults \in Nat

Time == 0 .. MaxTime

VARIABLES
  node,       \* node[i][o]: the registry profile of o at i, or Absent
  secret,     \* secret[i][o]: the secret payload the credentials service holds
  patch,      \* patch[i][o]: credentials that PATCH requests wait to have written
  record,     \* record[i][o]: the node's SyncRecordMetadata in sync-state.json
  clock,      \* clock[i]: the clock in sync-state.json
  bound,      \* bound[i]: nodes with a binding in workspace-bindings.json
  inUse,      \* inUse[i]: nodes with a binding whose workspace is open
  published,  \* every manifest entry ever exported
  edits,      \* how much users have done (bound)
  faults      \* how many operations were interrupted (bound)

profiles == <<node, secret, patch>>
workspaces == <<bound, inUse>>
vars == <<profiles, record, clock, workspaces, published, edits, faults>>

-----------------------------------------------------------------------------
(* Contents, records and entries *)

(* What a digest identifies: profile, shareable secret, credentialsRequired *)
(* (the last is a function of the other two).                               *)
Content == [kind : AuthKind, secret : AuthKind \cup {NoSecret}]
Version == Content \cup {Tombstone}

(* shareableSecrets(): the stored secret leaves only if the profile uses it. *)
Shareable(k, s) == IF s = k THEN s ELSE NoSecret

ContentOf(i, o) ==
  [kind |-> node[i][o], secret |-> Shareable(node[i][o], secret[i][o])]

Record == [rev : Revision, version : Version, pending : BOOLEAN]
Entry == [origin : Origin, rev : Revision, version : Version]

ASSUME ValueAssumption ==
  /\ Absent \notin AuthKind
  /\ NoSecret \notin AuthKind
  /\ Tombstone \notin Content
  /\ NoRecord \notin Record \cup Entry

EntryOf(o, r) == [origin |-> o, rev |-> r.rev, version |-> r.version]

Recorded(i, o) == record[i][o] # NoRecord
Deleted(i, o) == Recorded(i, o) /\ record[i][o].version = Tombstone
PendingRemoval(i, o) == Deleted(i, o) /\ record[i][o].pending
Removed(i, o) == Deleted(i, o) /\ ~record[i][o].pending

(* mergeClock(): the persisted clock never goes back. *)
MergeClock(c, d) == IF Covers(c, d) THEN c ELSE d

-----------------------------------------------------------------------------
Init ==
  /\ node = [i \in Instance |-> [o \in Origin |-> Absent]]
  /\ secret = [i \in Instance |-> [o \in Origin |-> NoSecret]]
  /\ patch = [i \in Instance |-> [o \in Origin |-> {}]]
  /\ record = [i \in Instance |-> [o \in Origin |-> NoRecord]]
  /\ clock = [i \in Instance |-> ZeroClock]
  /\ bound = [i \in Instance |-> {}]
  /\ inUse = [i \in Instance |-> {}]
  /\ published = {}
  /\ edits = 0
  /\ faults = 0

(***************************************************************************)
(* What users do.                                                          *)
(***************************************************************************)

(* POST /nodes: NodeRegistry.create() with a fresh id. *)
CreateNode(i, o, k, s) ==
  /\ edits < MaxEdits
  /\ Home[o] = i
  /\ node[i][o] = Absent /\ ~Recorded(i, o)
  /\ secret[i][o] = NoSecret /\ patch[i][o] = {}
  /\ \A e \in published : e.origin # o
  /\ node' = [node EXCEPT ![i][o] = k]
  /\ secret' = [secret EXCEPT ![i][o] = s]
  /\ edits' = edits + 1
  /\ UNCHANGED <<patch, record, clock, workspaces, published, faults>>

(* PATCH /nodes/:id: NodeRegistry.update().  The profile is replaced at    *)
(* once; a request with credentials then waits for them to be written.     *)
(* At most one request of a kind of credentials waits at a node (bound).   *)
EditNode(i, o, k, s) ==
  /\ edits < MaxEdits
  /\ node[i][o] # Absent
  /\ s \notin patch[i][o]
  /\ node' = [node EXCEPT ![i][o] = k]
  /\ patch' = [patch EXCEPT ![i][o] = @ \cup ({s} \ {NoSecret})]
  /\ edits' = edits + 1
  /\ UNCHANGED <<secret, record, clock, workspaces, published, faults>>

(* The credentials service writes what a PATCH waits for, or refuses:      *)
(* update() is not on the service's chain, and nobody looks whether the    *)
(* node is still there.                                                    *)
EndPatch(i, o, s) ==
  /\ s \in patch[i][o]
  /\ patch' = [patch EXCEPT ![i][o] = @ \ {s}]
  /\ secret' \in {[secret EXCEPT ![i][o] = s], secret}
  /\ UNCHANGED <<node, record, clock, workspaces, published, edits, faults>>

(* A workspace is bound to the node, by a user or by a session import:     *)
(* refused while the node is waiting for removal.                          *)
BindWorkspace(i, o) ==
  /\ edits < MaxEdits
  /\ node[i][o] # Absent
  /\ ~PendingRemoval(i, o)
  /\ o \notin bound[i]
  /\ bound' = [bound EXCEPT ![i] = @ \cup {o}]
  /\ edits' = edits + 1
  /\ UNCHANGED <<profiles, record, clock, inUse, published, faults>>

(* DSH opens and closes the workspace of a binding as it likes; it knows   *)
(* nothing of pending removals, nor of a node deleted here, whose bindings *)
(* stay.                                                                   *)
OpenWorkspace(i, o) ==
  /\ o \in bound[i] \ inUse[i]
  /\ inUse' = [inUse EXCEPT ![i] = @ \cup {o}]
  /\ UNCHANGED <<profiles, record, clock, bound, published, edits, faults>>

CloseWorkspace(i, o) ==
  /\ o \in inUse[i]
  /\ inUse' = [inUse EXCEPT ![i] = @ \ {o}]
  /\ UNCHANGED <<profiles, record, clock, bound, published, edits, faults>>

(* Wrong on purpose: the node goes without a tombstone. *)
RemoveLocalUnrecorded(i, o, now) ==
  /\ edits < MaxEdits
  /\ node[i][o] # Absent
  /\ o \notin inUse[i]
  /\ TickFits(clock[i], now)
  /\ clock' = [clock EXCEPT ![i] = Tick(clock[i], now)]
  /\ node' = [node EXCEPT ![i][o] = Absent]
  /\ secret' = [secret EXCEPT ![i][o] = NoSecret]
  /\ edits' = edits + 1
  /\ UNCHANGED <<patch, record, workspaces, published, faults>>

(* DELETE /nodes/:id: removeLocalNode(), refused while a workspace uses    *)
(* the node; the tombstone gets a revision of this instance.               *)
RemoveLocal(i, o, now) ==
  /\ edits < MaxEdits
  /\ node[i][o] # Absent
  /\ o \notin inUse[i]
  /\ TickFits(clock[i], now)
  /\ clock' = [clock EXCEPT ![i] = Tick(clock[i], now)]
  /\ record' = [record EXCEPT ![i][o] =
       [rev |-> Stamp(Tick(clock[i], now), i), version |-> Tombstone, pending |-> FALSE]]
  /\ node' = [node EXCEPT ![i][o] = Absent]
  /\ secret' = [secret EXCEPT ![i][o] = NoSecret]
  /\ edits' = edits + 1
  /\ UNCHANGED <<patch, workspaces, published, faults>>

(***************************************************************************)
(* exportManifest(): every node whose content is not the recorded one gets *)
(* the next revision of this instance, in registry order, and the manifest *)
(* lists the live nodes and all tombstones.                                *)
(***************************************************************************)
Exportable(i) == {o \in Origin : node[i][o] # Absent /\ ~Deleted(i, o)}

Changed(i) ==
  {o \in Exportable(i) :
     ~Recorded(i, o) \/ record[i][o].version # ContentOf(i, o)}

AfterExport(i, now, order) ==
  [o \in Origin |->
     IF o \in Changed(i)
     THEN [rev |-> Stamp(Ticks(clock[i], now, order[o]), i),
           version |-> ContentOf(i, o), pending |-> FALSE]
     ELSE record[i][o]]

(* Wrong on purpose: the manifest leaves, the state is not saved. *)
ExportUnsaved(i, now) ==
  \E order \in Bijection(Changed(i), 1 .. Cardinality(Changed(i))) :
    LET n == Cardinality(Changed(i))
        after == AfterExport(i, now, order)
        listed == {o \in Origin : o \in Exportable(i) \/ Deleted(i, o)}
    IN  /\ n > 0 => TicksFit(clock[i], now, n)
        /\ published' = published \cup {EntryOf(o, after[o]) : o \in listed}
        /\ UNCHANGED <<profiles, record, clock, workspaces, edits, faults>>

(* Wrong on purpose: the records are saved without the clock. *)
ExportClockUnsaved(i, now) ==
  \E order \in Bijection(Changed(i), 1 .. Cardinality(Changed(i))) :
    LET n == Cardinality(Changed(i))
        after == AfterExport(i, now, order)
        listed == {o \in Origin : o \in Exportable(i) \/ Deleted(i, o)}
    IN  /\ n > 0 => TicksFit(clock[i], now, n)
        /\ record' = [record EXCEPT ![i] = after]
        /\ published' = published \cup {EntryOf(o, after[o]) : o \in listed}
        /\ UNCHANGED <<profiles, clock, workspaces, edits, faults>>

Export(i, now) ==
  \E order \in Bijection(Changed(i), 1 .. Cardinality(Changed(i))) :
    LET n == Cardinality(Changed(i))
        after == AfterExport(i, now, order)
        listed == {o \in Origin : o \in Exportable(i) \/ Deleted(i, o)}
    IN  /\ n > 0 => TicksFit(clock[i], now, n)
        /\ clock' = [clock EXCEPT ![i] =
             IF n = 0 THEN @ ELSE MergeClock(@, Ticks(@, now, n))]
        /\ record' = [record EXCEPT ![i] = after]
        /\ published' = published \cup {EntryOf(o, after[o]) : o \in listed}
        /\ UNCHANGED <<profiles, workspaces, edits, faults>>

(***************************************************************************)
(* applyManifest(), entry by entry.  An entry that is not newer than the   *)
(* record is skipped.  (An entry of this instance's own origin for which   *)
(* there is no record takes another branch, lines 425-445, which requires  *)
(* a lost sync-state.json; invariant OwnOriginRecorded shows it cannot be  *)
(* taken here.)                                                            *)
(***************************************************************************)
Newer(i, e) == Recorded(i, e.origin) => Before(record[i][e.origin].rev, e.rev)

Adopted(e, pend) == [rev |-> e.rev, version |-> e.version, pending |-> pend]

(* createImported()/updateImported(): the profile is replaced; secrets are *)
(* written only if the entry carries some.                                 *)
ApplyLive(i, e, now) ==
  /\ e.version # Tombstone
  /\ Newer(i, e)
  /\ ObserveFits(clock[i], e.rev, now)
  /\ node' = [node EXCEPT ![i][e.origin] = e.version.kind]
  /\ secret' = [secret EXCEPT ![i][e.origin] =
       IF e.version.secret = NoSecret THEN @ ELSE e.version.secret]
  /\ record' = [record EXCEPT ![i][e.origin] = Adopted(e, FALSE)]
  /\ clock' = [clock EXCEPT ![i] = MergeClock(@, Observe(@, e.rev, now))]
  /\ UNCHANGED <<patch, workspaces, published, edits, faults>>

(* Wrong on purpose: the credentials of the deleted node stay. *)
ApplyTombstoneKeepSecret(i, e, now) ==
  /\ e.version = Tombstone
  /\ Newer(i, e)
  /\ ObserveFits(clock[i], e.rev, now)
  /\ LET o == e.origin  busy == o \in inUse[i]
     IN  /\ record' = [record EXCEPT ![i][o] = Adopted(e, busy)]
         /\ bound' = [bound EXCEPT ![i] = IF busy THEN @ ELSE @ \ {o}]
         /\ node' = [node EXCEPT ![i][o] = IF busy THEN @ ELSE Absent]
  /\ clock' = [clock EXCEPT ![i] = MergeClock(@, Observe(@, e.rev, now))]
  /\ UNCHANGED <<secret, patch, inUse, published, edits, faults>>

(* A node in use stays, marked for removal; otherwise its bindings go,     *)
(* then its profile and its credentials (removeNodeAndStaleBindings()).    *)
ApplyTombstone(i, e, now) ==
  /\ e.version = Tombstone
  /\ Newer(i, e)
  /\ ObserveFits(clock[i], e.rev, now)
  /\ LET o == e.origin  busy == o \in inUse[i]
     IN  /\ record' = [record EXCEPT ![i][o] = Adopted(e, busy)]
         /\ bound' = [bound EXCEPT ![i] = IF busy THEN @ ELSE @ \ {o}]
         /\ node' = [node EXCEPT ![i][o] = IF busy THEN @ ELSE Absent]
         /\ secret' = [secret EXCEPT ![i][o] = IF busy THEN @ ELSE NoSecret]
  /\ clock' = [clock EXCEPT ![i] = MergeClock(@, Observe(@, e.rev, now))]
  /\ UNCHANGED <<patch, inUse, published, edits, faults>>

(* reconcilePendingRemovals(), which only GET /nodes calls: finish the     *)
(* removals nothing holds back.                                            *)
Removable(i) == {o \in Origin : PendingRemoval(i, o) /\ o \notin inUse[i]}

Reconcile(i) ==
  /\ Removable(i) # {}
  /\ bound' = [bound EXCEPT ![i] = @ \ Removable(i)]
  /\ node' = [node EXCEPT ![i] =
       [o \in Origin |-> IF o \in Removable(i) THEN Absent ELSE @[o]]]
  /\ secret' = [secret EXCEPT ![i] =
       [o \in Origin |-> IF o \in Removable(i) THEN NoSecret ELSE @[o]]]
  /\ record' = [record EXCEPT ![i] =
       [o \in Origin |-> IF o \in Removable(i)
                         THEN [@[o] EXCEPT !.pending = FALSE] ELSE @[o]]]
  /\ UNCHANGED <<patch, clock, inUse, published, edits, faults>>

(***************************************************************************)
(* Interrupted operations: the process stops, or the credentials service   *)
(* or the disk fails, in the middle of one.  (An interrupted creation of   *)
(* an imported node leaves a profile whose local id no record maps to an   *)
(* origin; local ids are left out, so that state is not reached.)          *)
(***************************************************************************)

(* The tombstone is saved before anything is removed, but the observed     *)
(* clock is saved only when the whole manifest is done.                    *)
TombstoneInterrupted(i, e) ==
  /\ faults < MaxFaults
  /\ e.version = Tombstone
  /\ Newer(i, e)
  /\ record' = [record EXCEPT ![i][e.origin] = Adopted(e, TRUE)]
  /\ \/ UNCHANGED <<bound, node, secret>>
     \/ /\ e.origin \notin inUse[i]
        /\ bound' = [bound EXCEPT ![i] = @ \ {e.origin}]
        /\ \/ UNCHANGED <<node, secret>>
           \/ /\ node' = [node EXCEPT ![i][e.origin] = Absent]
              /\ \/ UNCHANGED secret
                 \/ secret' = [secret EXCEPT ![i][e.origin] = NoSecret]
  /\ faults' = faults + 1
  /\ UNCHANGED <<patch, clock, inUse, published, edits>>

(* updateImported() writes the credentials, then the profile; the record   *)
(* and the clock follow.                                                   *)
UpdateInterrupted(i, e) ==
  /\ faults < MaxFaults
  /\ e.version # Tombstone
  /\ Newer(i, e)
  /\ node[i][e.origin] # Absent
  /\ secret' = [secret EXCEPT ![i][e.origin] =
       IF e.version.secret = NoSecret THEN @ ELSE e.version.secret]
  /\ \/ UNCHANGED node
     \/ node' = [node EXCEPT ![i][e.origin] = e.version.kind]
  /\ faults' = faults + 1
  /\ UNCHANGED <<patch, record, clock, workspaces, published, edits>>

(* removeLocalNode() saves the clock, then a pending tombstone, before the *)
(* removal starts; the next reconciliation finishes it.                    *)
RemoveLocalInterrupted(i, o, now) ==
  /\ faults < MaxFaults
  /\ node[i][o] # Absent
  /\ o \notin inUse[i]
  /\ TickFits(clock[i], now)
  /\ clock' = [clock EXCEPT ![i] = Tick(clock[i], now)]
  /\ record' = [record EXCEPT ![i][o] =
       [rev |-> Stamp(Tick(clock[i], now), i), version |-> Tombstone, pending |-> TRUE]]
  /\ \/ UNCHANGED <<node, secret>>
     \/ /\ node' = [node EXCEPT ![i][o] = Absent]
        /\ \/ UNCHANGED secret
           \/ secret' = [secret EXCEPT ![i][o] = NoSecret]
  /\ faults' = faults + 1
  /\ UNCHANGED <<patch, workspaces, published, edits>>

(* Wrong on purpose: the rollback forgets the record. *)
RemoveLocalForgets(i, o, now) ==
  /\ faults < MaxFaults
  /\ node[i][o] # Absent
  /\ o \notin inUse[i]
  /\ TickFits(clock[i], now)
  /\ clock' = [clock EXCEPT ![i] = Tick(clock[i], now)]
  /\ record' = [record EXCEPT ![i][o] = NoRecord]
  /\ faults' = faults + 1
  /\ UNCHANGED <<profiles, workspaces, published, edits>>

(* removeLocalNode() when the removal callback rejects: the record is put  *)
(* back as it was.  The container could not be removed (the node stays),   *)
(* or the node had already left the registry when deleting its credentials *)
(* failed (the node is gone).                                              *)
RemoveLocalFails(i, o, now) ==
  /\ faults < MaxFaults
  /\ node[i][o] # Absent
  /\ o \notin inUse[i]
  /\ TickFits(clock[i], now)
  /\ clock' = [clock EXCEPT ![i] = Tick(clock[i], now)]
  /\ \/ UNCHANGED node
     \/ node' = [node EXCEPT ![i][o] = Absent]
  /\ faults' = faults + 1
  /\ UNCHANGED <<secret, patch, record, workspaces, published, edits>>

-----------------------------------------------------------------------------
User ==
  \E i \in Instance, o \in Origin :
    \/ \E k \in AuthKind, s \in AuthKind \cup {NoSecret} :
         CreateNode(i, o, k, s) \/ EditNode(i, o, k, s)
    \/ \E s \in AuthKind : EndPatch(i, o, s)
    \/ BindWorkspace(i, o)
    \/ OpenWorkspace(i, o)
    \/ CloseWorkspace(i, o)
    \/ \E now \in Time : RemoveLocal(i, o, now)

ExportSome(i) == \E now \in Time : Export(i, now)

ApplySome(i) ==
  \E e \in published, now \in Time : ApplyLive(i, e, now) \/ ApplyTombstone(i, e, now)

Fault ==
  \E i \in Instance :
    \/ \E e \in published : TombstoneInterrupted(i, e) \/ UpdateInterrupted(i, e)
    \/ \E o \in Origin, now \in Time :
         RemoveLocalFails(i, o, now) \/ RemoveLocalInterrupted(i, o, now)

Next ==
  \/ User
  \/ \E i \in Instance : ExportSome(i) \/ ApplySome(i) \/ Reconcile(i)
  \/ Fault

Spec == Init /\ [][Next]_vars

(* The scheduler runs every enabled peer again and again; a run exports at *)
(* both ends and applies what is newer.  Nothing makes a user ask for the  *)
(* list of nodes, so a pending removal may wait for ever.                  *)
Fairness == \A i \in Instance : WF_vars(ExportSome(i)) /\ WF_vars(ApplySome(i))

FairSpec == Spec /\ Fairness

-----------------------------------------------------------------------------
(* Properties *)

(* Every variable has the shape the stores validate. *)
TypeOK ==
  /\ node \in [Instance -> [Origin -> AuthKind \cup {Absent}]]
  /\ secret \in [Instance -> [Origin -> AuthKind \cup {NoSecret}]]
  /\ patch \in [Instance -> [Origin -> SUBSET AuthKind]]
  /\ record \in [Instance -> [Origin -> Record \cup {NoRecord}]]
  /\ clock \in [Instance -> Clock]
  /\ bound \in [Instance -> SUBSET Origin]
  /\ inUse \in [Instance -> SUBSET Origin]
  /\ published \subseteq Entry
  /\ edits \in 0 .. MaxEdits
  /\ faults \in 0 .. MaxFaults

(* All the versions of nodes that exist anywhere, exported or not yet. *)
HeldBy(i) == {EntryOf(o, record[i][o]) : o \in {p \in Origin : Recorded(i, p)}}
Held == UNION {HeldBy(i) : i \in Instance}
Versions == published \cup Held

(* Nothing a writer has issued is past the writer's persisted clock. *)
IssuedIsCovered == \A v \in Versions : Covers(clock[v.rev.w], v.rev)

(* One revision of a node is one content, everywhere and for ever: the     *)
(* "conflicting node records share the same revision" errors of            *)
(* applyManifest() and the coordinator's "revision-conflict" can only come *)
(* from a manifest nobody exported.                                        *)
UniqueRevision ==
  \A v, x \in Versions :
    v.origin = x.origin /\ v.rev = x.rev => v.version = x.version

(* An instance has a record of every node of its own that was ever         *)
(* exported, so that the "local origin metadata is missing" branch of      *)
(* applyManifest() is never needed.                                        *)
OwnOriginRecorded == \A e \in published : Recorded(Home[e.origin], e.origin)

(* A removal that completes leaves neither a profile nor credentials.      *)
(* Under its tombstone the profile stays away, and the only credentials    *)
(* that come back are those a PATCH was already waiting to have written.   *)
StaysGone ==
  \A i \in Instance, o \in Origin :
    Removed(i, o)' =>
      /\ node'[i][o] = Absent
      /\ \/ secret'[i][o] = NoSecret
         \/ Removed(i, o) /\ secret'[i][o] \in patch[i][o] \cup {secret[i][o]}

DeletedMeansGone == [][StaysGone]_vars

(* Unless an operation was interrupted, a record that is not a tombstone   *)
(* belongs to a node in the registry: a node never vanishes without a      *)
(* deletion that peers will hear of.                                       *)
LiveRecordHasNode ==
  faults = 0 =>
    \A i \in Instance, o \in Origin :
      Recorded(i, o) /\ ~Deleted(i, o) => node[i][o] # Absent

(* The persisted clock of an instance never goes back. *)
ClockMonotone == [][\A i \in Instance : Covers(clock'[i], clock[i])]_vars

(* The record of a node is only ever replaced by a newer one, until an     *)
(* operation is interrupted: neither an import nor a local change nor a    *)
(* deletion loses to what it overwrites.                                   *)
RecordsAdvance ==
  [][faults' = 0 => \A i \in Instance, o \in Origin :
       Recorded(i, o) /\ record'[i][o] # record[i][o] =>
         \/ Before(record[i][o].rev, record'[i][o].rev)
         \/ Adopted(EntryOf(o, record[i][o]), FALSE) = record'[i][o]]_vars

(* A local change is ordered after what the instance had received: "after  *)
(* receiving a remote revision, the HLC is merged before a later local     *)
(* change is recorded" (cloud-sync design, line 372).                      *)
LocalChangeAfterReceived ==
  [][\A i \in Instance, o \in Origin :
       Recorded(i, o) /\ record'[i][o] # record[i][o] /\ record'[i][o].rev.w = i =>
         ~Before(record'[i][o].rev, record[i][o].rev)]_vars

(* All instances hold the same version of every node, and every live node  *)
(* has the recorded content.                                               *)
Converged ==
  \A o \in Origin :
    /\ \A i, j \in Instance :
         /\ Recorded(i, o) = Recorded(j, o)
         /\ Recorded(i, o) => EntryOf(o, record[i][o]) = EntryOf(o, record[j][o])
    /\ \A i \in Instance :
         o \in Exportable(i) => o \notin Changed(i)

(* When users stop, last-writer-wins synchronisation settles: the versions *)
(* an import makes an instance re-export do not bounce for ever.           *)
Convergence == <>[]Converged
=============================================================================
