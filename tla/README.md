# A verification model of DSH-HoneyBee

DSH-HoneyBee (`packages/dshb`) adds remote execution worlds (SSH hosts, Docker
containers), workspaces bound to them, and peer-to-peer synchronisation of nodes and
sessions to a DSH instance.  This directory holds TLA+ modules that model the parts of it
where order matters, the TLC configurations that check them on small instances, and TLAPS
proofs of the theorems that do not depend on the size of the instance.  Paths below are
relative to `packages/dshb/src/` unless they start with a dot or `docs/`.

Contents: [the system](#the-system), [modules](#modules), [runs](#runs),
[fairness](#fairness), [proofs](#proofs), [findings](#findings),
[known gaps](#known-gaps), [what is left out](#what-is-left-out), [plan](#plan).

## The system

An instance is one Node.js process: a single thread, so what can interleave is what lies
between two `await`s.  State lives in JSON files that are replaced atomically and cached in
memory, in the DSH credentials service (asynchronous), and in the DSH workspace registry
and session persistence (asynchronous, external).  Two services have a *mutation queue*
(`serializeMutation`): a promise chain that runs their own operations one at a time, and
nothing else.  Whatever is not on that queue interleaves with it.

| Component | State | Operations | Correct when |
| --- | --- | --- | --- |
| Hybrid logical clock (`core/sync/revision.ts`) | wall time and counter | tick, observe, compare | revisions are totally ordered; the clock never goes back and passes all it has observed |
| Sync state store (`core/sync/stores.ts`) | records, clock, workspaces, archives of `sync-state.json` | read, update, `nextRevision`, `observeRevision` | a record and the clock that issued it do not contradict each other after a restart |
| Node synchronisation (`core/sync/node-sync.ts`) | records of kind `node`; queue | export, import, local deletion, reconciliation of pending removals | instances converge; one revision is one content; no removal takes a node in use; of a removed node nothing comes back unnoticed |
| Node registry (`core/node-registry.ts`, `core/routes.ts`) | profiles; credentials | create, update, imported update, remove | profile and credentials agree; a failure leaves neither half |
| Workspace bindings (`core/workspace-bindings.ts`, `core/workspaces.ts`) | `workspace-bindings.json` | bind request, download, removal with a node | a mirror path resolves to one node that exists |
| Sync peers (`core/sync/peer-manager.ts`) | `sync-peers.json`; credentials | create, update, remove, progress | a live peer has credentials, a removed one nothing |
| Sync scheduler (`core/sync/scheduler.ts`) | interval timers, generation | listeners, refresh loop, stop | exactly the enabled peers have a timer |
| Sync coordinator (`core/sync/coordinator.ts`) | runs in flight, last status | run, stop, retry, chunked pull and push | one run per peer; success means everything compared was taken over; a stop stops |
| Session synchronisation (`core/sync/session-sync.ts`) | records and archives of sessions, object inbox; queue | export, apply a batch, archive, restore, recover, receive objects | a session keeps its origin; no version that loses is lost; nothing is overwritten by something older |
| Session journal (`core/sync/session-journal.ts`) | registered batches, staged bundles | begin, complete, discard, clean-up | a registered batch can be replayed after any crash |
| Offline archives (`core/sync/offline-*.ts`) | import journal, staging, one-time tokens | export, import in two phases, recover | an import is applied as a whole or recoverable |
| SSH transport and protocol (`core/sync/ssh-transport.ts`, `protocol.ts`, `remote-helper.ts`, `internal-routes.ts`, `routes.ts`) | active sessions | probe, RPCs, object streams | every wait has a deadline; a stopped peer's sessions end |
| Host-key trust (`core/sync/host-key.ts`) | challenges, pinned keys | challenge, accept, verify | only an unexpired challenge of the same host is accepted |
| SSH worlds (`exec-ssh/`) | connections, pool, worlds | connect with retry, execute, write files, close | one handshake at a time; a file is whole at every moment |
| Docker worlds (`exec-docker/`) | containers, worlds | provision in stages, execute, remove | a node that is ready has its container |
| Router (`router/`) | none (bindings and worlds) | resolve a path, decorate fs, shell, subprocess | an operation runs where its path is bound, or is refused |
| Authentication (`auth/`) | sessions, rate limits, password hash | login, logout, gate | sessions expire, failures are limited |
| Workspace instructions (`core/workspace-instruction*.ts`) | revisioned texts, snapshots per session | edit, snapshot, restore | a restored text is never older |
| Probes, audit, SSH configuration (`core/test.ts`, `audit.ts`, `known-hosts.ts`, `ssh-config.ts`) | none of their own | parse, log | |
| Browser client and picker (`client/`, `ui/`) | view state | requests to the routes above | |

How they interact: the scheduler's timers and the routes call the coordinator; a run
exports and imports nodes through the node service and sessions through the session
service, each on its own queue; both write records and the clock to the state store, the
node service also to the registry and to the bindings, the session service to the bindings,
the DSH workspaces and the DSH persistence.  Bind requests, node edits and DSH itself touch
the same registry, bindings and workspaces without any queue.  Peers run the same code and
call this instance through the internal routes.

What is hard here, in order of weight: the interleaving of queued operations with requests
that are not queued; state read before an `await` and used after it; several durable
writes in one operation with a crash or a failure between them; manifests that arrive late,
repeatedly or by way of a third instance; and a stop or a retry in the middle of a run.
`PROJECT.json` lists these hazards one by one, each at its line, with the properties that
cover it.

## Modules

| Module | Models | Used by |
| --- | --- | --- |
| `Hlc` | revisions and the hybrid logical clock | `NodeSync`, `SessionSync`, `LwwStore` |
| `LwwStore` | the abstract promise: a replicated last-writer-wins store | the two refinements |
| `NodeSync` | the node service of several instances, one action per operation | `NodeSyncRefinement`, `MCNodeSync` |
| `NodeSyncRefinement`, `SessionSyncRefinement` | the mappings of `NodeSync` and `SessionSync` to `LwwStore` | `MCNodeSync`, `MCSessionSync` |
| `WorkspaceBinding` | bind requests, removals and session imports at one instance, at await granularity | `MCWorkspaceBinding` |
| `PeerSchedule` | peers, credentials and timers, at await granularity | `MCPeerSchedule`, `MCHost` |
| `SyncRun` | one peer's runs, the session journal and its replay, at await granularity | `MCSyncRun` |
| `SessionSync` | records, logs and archives of sessions at several instances | `SessionSyncRefinement` |
| `SessionTransfer` | one log read, compared and sent, in full or as a tail, while it grows | `MCHost` |
| `ObjectInbox` | large attachments: the inbox, its streams, and the batches that need it | `MCHost` |
| `OfflineImport` | offline archives: upload, two-phase import, its journal and recovery | `MCHost` |
| `ArchiveFormat` | what of an archive is written and what is checked on import | `MCHost` |
| `Transport` | one request to a peer over one SSH channel, with the helper at its end | `MCSyncRun` |
| `NodeHost` | the node list, its credentials and containers, at await granularity | `MCHost` |
| `SshWorld` | the shared SSH connection of a node | `MCHost` |
| `RemoteFiles` | concurrent writes and edits of one remote file | `MCHost` |
| `Router` | which world an operation, a listing or a command gets | `MCHost` |
| `Instructions` | a workspace's instructions and the copy each session keeps | `MCHost` |
| `Auth` | credentials, cookies, the limiter, and the reset command | `MCHost` |
| `MC*` | the constants of the small instances | |
| `HostNodesProofs`, `HostProofs` | theorems and proofs about the parts of `MCHost` | |
| the other `*Proofs` | theorems and proofs about the module before `Proofs` | |

### Synchronisation between instances

**`Hlc`.** A clock is wall time and counter; a revision adds the writer.  `Before` is
`compareSyncRevision()`, `Tick` and `Observe` are the methods of `HybridLogicalClock`, with
their guards against a counter at its maximum.  `Ticks` is a run of ticks, which an export
of several changed nodes takes.  `Date.now()` is an argument and may go back.

**`LwwStore`.** Each instance holds at most one version per key, writes only versions with
an unused and newer revision of its own, and otherwise adopts shared versions that are newer.

**`NodeSync`.** Indexed by instance and origin: `node` (profile), `secret` (credentials),
`patch` (the credentials PATCH requests wait to have written), `record` (the node's record),
`clock` (the persisted clock), `bound` (nodes with a binding), `inUse` (those whose workspace
DSH has open) and `published`, every entry ever exported.  An import picks any published entry,
so loss, repetition, reordering and relays need no channel.  Contents are an authentication
kind and a shareable secret, because `shareableSecrets()` is what makes an imported record
and what the instance would export itself differ.  The actions are the queued operations
(`Export`, `ApplyLive`, `ApplyTombstone`, `RemoveLocal`, `Reconcile`), what users do
(`CreateNode`, `EditNode` and `EndPatch`, `BindWorkspace`, `OpenWorkspace`, `CloseWorkspace`),
and the interrupted forms of operations that write several files (`TombstoneInterrupted`,
`UpdateInterrupted`, `RemoveLocalInterrupted`, `RemoveLocalFails`).  A PATCH is two steps,
because `NodeRegistry.update()` changes the profile, then waits for the credentials, and is not
in the queue: they may be written when the node is long removed.  A workspace may be bound only
while no removal is pending, but DSH reopens one that has a binding whenever it likes.  The
local id of an imported node is not modelled: it is a function of the origin.

**`SessionSync`.** Per instance: the record of each session, the logs that hold its
versions, the archives of the versions that lost, the clock, and what was published.  A step
is one pass of the loop of an export over sessions or archives (`ExportSession`,
`ExportMissing` and their like) or one entry of an import, because users append to logs
between any two of them; an import may stop between its durable steps.  A digest covers a
log's content and, for a session in `Marked`, the id of the log, since a delivery marker
names its own session and an import renames it.  `erased` is history: the local ids whose
log its user deleted, which an import that stopped may have begun to write again.

**`SyncRun`.** `run` is the run in flight, with its phase, its attempt (`retryTransport()`),
the stop signal, what it has set out to pull (`goal`), what is left (`plan`) and the chunk
at hand.  `journal` and `staged` are registered batches and bundles on disk, `record` the
recorded versions, `stray` the session logs that are attached but not recorded.  `queue`
and `job` are the session service's mutation queue and the application the run or a
recovery (`recoverPending()`, at boot or before an offline import) is at.  `ApplyStep` goes
through a batch entry by entry: an entry is skipped, or its log is written (`WriteLog`) and
recorded (`RecordEntry`), with failures and restarts between.  A peer whose sessions are
only pushed has an empty goal, which is the case of a run that finds nothing newer.

**`SessionTransfer`.** One session whose log goes from a source to a target while users of
both append: the manifests, the reader with its two looks at the revision (`reader`), the
tail that is cut for what the target said it has, its expansion there, and the full entry
that is fetched when a tail does not fit.  Logs only grow, so a log stands for its revision
and its events for their digest.

**`ObjectInbox`.** A stream of frames fills the inbox (`inbox`, `writer`) without holding
the queue; imports hold it, read the objects, and delete them when a batch is applied.
Batches may share an object.  The journal's prepared entries are those whose objects have
been read.

**`Transport`.** The two ends of one request: `Here` is `SyncSshTransport` (write, read,
deadline, stop, close), `There` the remote helper and the web server it asks.  `up` and
`down` are the two directions of the channel in frames, bounded by `Window`; a channel may be
cut or freeze, the server's stream may break off.

### One host

**`NodeHost`.** `list`, `keys` and `boxes` are `nodes.json`, the credentials service and the
Docker host; `work` is what each request waits for.  Synchronised imports and all removals
hold the queue (`queue`), creations and PATCHes do not, and provisioning is a chain of docker
commands in the background.

**`WorkspaceBinding`.** `queue` is the one operation the node service is in the middle of
(a deletion in up to three steps, or the import of a session's workspace, which also runs
there), `request` the bind requests beside it, `opened` the workspaces DSH has open.  A
mirror path is a node and a slug; an import's slug is a hash of the remote directory, so the
directory itself stands for it.

**`Router`.** `bindings`, the two registries of worlds (`ssh`, `docker`) and `asked`, the
`ensure()` calls under way.  `Hit` is the longest-prefix rule over paths that are sequences
of pieces of text, so that one mirror's name may begin with another's; `Route` says which
world, or refusal, an operation gets.

**`SshWorld`.** `SshConnection` and the executor over it: who made the attempt everyone
shares (`connecting`), the client (live, or lost and not yet noticed), an old client's late
`close`, the cached SFTP channel and `close()`.

**`RemoteFiles`.** A target file and the temporary one beside it, with the callers that have
each open.  Over SSH a write goes to the temporary name and is renamed, in a container the
shell truncates and fills the file.

**`PeerSchedule`.** `request` holds what each request waits for; file changes happen at
once, credentials after an await.  `listing` is the list the scheduler waits for, marked
stale when a listener is called meanwhile (the generation counter); `timers` are the peers
with an interval.

**`OfflineImport`.** Staging directories, the payloads in them, the journal, what of an
archive has been applied, the one-time tokens, uploads that wait, and exports being
downloaded.  Failures and restarts fall between any two steps; a start removes the directories
no journal names and finishes what is pending.

**`ArchiveFormat`.** An archive is its records with the offsets they are found at, sizes and
digests; `Export` builds one, `Damage` changes it.  `Import` follows `importArchiveNow()` to
the point where it begins to apply: the size, the password, the layout of the ZIP
(`parseZip()`: `DirectoryOk`, `EntriesOk`), sizes, digests and summary of the manifest
(`validateManifest()`: `ManifestOk`), the number of sessions (`validateSyncSessionBundle()`:
`BundleOk`), and whether the host is ready, that is has room and nothing in conflict
(`checkAvailableSpace()`, `preflightPayloads()`), which may turn out either way.  The fields of
a single record are checked by the rules they were written by and are left out.  The summary
of records is sorted by the host's collation, so a host is a collation.

**`Instructions`.** The text with its revision, the dialogs that loaded it, the snapshots of
sessions with the pre-step that takes them, and both when they arrive from a peer.

**`Auth`.** The file of credentials, the server's cached copy with the time it has seen, the
cookies given out, the limiter, and the reset command, a second process.

**`MCHost`, `MCSyncRun`.** The eleven parts of `MCHost` have no state in common, and
neither have a run and the link in `MCSyncRun`.  A behaviour is therefore one of a single
part, chosen by `part` in the initial state, while the others stay in one fixed initial state:
the state space is the sum of the parts' spaces and not their product.  In `MCSyncRun`, `part`
also chooses between two sets of bounds for the run (`Within`).

## Runs

Every passing run finishes its whole state space.  Type invariants that are proved
([proofs](#proofs)) are not checked again, but for `HostTypeOK`, which covers the parts of
`host` and is both.

| Run | Instance | Shows |
| --- | --- | --- |
| `nodesync_two_nodes` | 2 instances, a node of each, 3 edits, 1 interrupted operation, counter up to 3, wall time 0..1 | `UniqueRevision`, `OwnOriginRecorded`, `DeletedMeansGone`, `LiveRecordHasNode` |
| `nodesync_relay` | 3 instances, 1 node, 2 authentication kinds, 3 edits, fair | `Convergence`, `ImplementsLwwStore` |
| `nodesync_late_change` | 2 instances, 1 node, 4 edits, 1 interrupted operation | violates `LocalChangeAfterReceived` |
| `sessions` | 2 instances, 1 session, 3 changes, 1 import that stops | `Restorable`, `RevisionsAgree`, `LoserKept`, `LogsOnlyGrow`, `ImplementsLwwStore` |
| `sessions_roundtrip` | the same with a delivery marker and without changes | violates `RoundTripArchivesNothing` |
| `sync_run` | a run: 2 sessions, one of them edited once at the peer, with either 1 registered batch, 1 pushed chunk, stops and 1 restart, or 2 registered batches; a link: windows of 2 frames, answers of 2; fair | `Replayable`, `SuccessCovers`, `RecordsAdvance`, `BatchEndsApplied`, `RunEnds`; `NoTruncatedAnswer`, `RequestSettles` |
| `sync_run_origin` | a run, unfair, nothing pushed | violates `SessionKeepsOrigin` |
| `transport_push` | one request of the link, fair | violates `PushCompletes` |
| `binding` | 1 node, 2 names, 2 directories, 2 bind requests, one return of a removed node | `UniqueMirror`, `NoBindingWhilePending`, `ImportLandsOnNode`, `CleanupSparesActive` |
| `binding_race` | the same with one request | violates `BindingHasNode` |
| `host` | eleven parts, below | `HostTypeOK` and sixteen properties, below |
| `peers_disable` | 1 peer, 2 requests | violates `DisabledStaysOff` |

The parts of `host`:

| Part | Instance | Shows |
| --- | --- | --- |
| `PeerSchedule` | 1 peer, 1 secret, 3 requests; the credentials service may fail or, for `MC_LivePeerHasSecret`, always answers | `ScheduleSettles`, `MC_LivePeerHasSecret`, `RemovedStaysGone` |
| `NodeHost` | 2 node ids, 2 requests beside the queue | `ListedKeepsKeys`, `OnlyItsOwn` |
| `SshWorld` | 3 callers, 5 retries as in the code | `OneHandshake` |
| `Router` | 1 node of every kind, 2 names of which one begins the other, 2 requests | `RunsWhereBound` |
| `RemoteFiles` | 2 writers, texts of one and two words, 2 milliseconds | `WholeOverSsh` |
| `OfflineImport` | 2 archives, one with sessions, 1 export | `HalfAppliedIsJournalled` |
| `ArchiveFormat` | 2 collations, 2 records, files of 1, 3 and 4 bytes, a limit of 395 bytes and of 1 session | `ExportsImport` |
| `Instructions` | 2 texts, 1 session, 2 dialogs, revisions up to 2 | `FrozenSnapshot`, `EditsSeen` |
| `Auth` | 2 addresses, users and passwords, 5 failures as in the code, 2 entries, 3 writes | `GuessesBounded`, `RotationRevokes` |
| `ObjectInbox` | 2 batches of 2 objects, one of them shared | `PendingHasObjects` |
| `SessionTransfer` | 5 pairs of logs to begin with, 3 events | `AppliedAsPlanned` |

Why these bounds are enough to be interesting:

- `MaxEdits` bounds only what users do, and neither the opening and closing of workspaces nor
  what becomes of a PATCH; of the PATCHes that wait at a node there is one of each kind of
  credentials, as a second of the kind would write the same.  Three edits allow a creation, a
  conflicting edit and a deletion.  Exports and imports are not bounded; they come to an end
  because an export without changes writes nothing.
- `MaxCounter` 3 lets the counter run into its maximum, so the refusals of `tick()` and
  `observe()` happen.  In `nodesync_relay` and `sessions` it is out of reach, since a clock at
  its maximum stops an instance for good and there would be nothing to converge.
- `MaxTime` 1 lets the wall clock advance, stand still and go back; in `nodesync_relay` it
  stands still, which is the harder case: only counters and writers order revisions.
- Three instances are the smallest number at which a version reaches an instance by way of
  another, and at which the re-export of an import can come back.
- Two bind requests and the queue are three concurrent actors on one node, two names and two
  directories let a mirror path be rebound and a directory be bound twice.  A second node
  would only add independent behaviour: paths, marks and removals are per node.
- In `sessions` three changes let both instances edit one version (one of them loses and is
  archived), and one more change fall on the archive's log, the winner's, or the deletion.
  `MaxLength` 1 makes a log of two events too large for an entry, so that a version is stamped
  and not sent.
- In `sync_run` one session with two versions gives old and new batches of the same session,
  with two registered batches a recovery replays the old one beside the run that brings the
  new one, the second session makes batches that are applied in part, and one restart may
  fall into every step of staging, registering, applying, unregistering and discarding.  All
  of this in one instance would be several times the states.  A window of two
  frames is filled by a body of two and its end, so writers wait for `drain`.
- Three requests on one peer are a rotation, a removal and an update.  Two node ids let a
  removal move the position another request has found.  Three callers are one that connects,
  one that shares and one that comes late.
- Two entries fill the limiter, so that it sweeps and forgets; three writes of the
  credentials file are a registration, a change and a reset.
- 395 bytes is what an archive with sessions has whose files are of 7 bytes together; those of
  8 bytes are one byte over the limit.  Two sessions are one more than a bundle may hold.

`CHECK_DEADLOCK FALSE` is said where the system does stop.  In `host` and `peers_disable`
peer ids are never used twice and the scheduler may be stopped, secrets, events and revisions
are bounded, and a part comes to rest.  In `sessions` and `sessions_roundtrip` changes are bounded and
an export without changes writes nothing.  In `transport_push` a settled request has ended.

## Fairness

`NodeSync!FairSpec` assumes weak fairness of exporting and of applying at each instance, and
none of what users do.  The code justifies it by the five-minute timers of enabled peers
(`core/sync/scheduler.ts`) and by the coordinator exporting and applying in both directions on
every run.  The applied entry is any that makes a difference, because a run sends all entries
and the older ones are skipped.  Nothing is assumed of reconciling: only a user's `GET /nodes`
does it (`core/routes.ts:186`), so a pending removal may wait for ever ([gaps](#known-gaps)),
and `Convergence`, which speaks of records, does not depend on it.

`SyncRun!FairSpec` assumes weak fairness of the steps of a run and of the steps of a
recovery, nothing of users, stops, failures or new recoveries.  Each step follows from the
process being alive: a wait for the peer ends at the transport's deadline, and a local
operation ends or throws, which is a step as well.  The two are separate conditions, because
recoveries could otherwise be all that ever happens.

`Transport!FairSpec` assumes weak fairness of this end and of the other, never of cuts,
stops or breaks.  A deadline is a step of this end that is possible whenever nothing has
arrived, which is what its timers are for; a channel that is frozen is still left by them.

`MCSyncRun!MC_Spec` is the sum: the fairness of a run for behaviours of the run, that of the
link for behaviours of the link.  `Spec` alone, without fairness, is used for all else.

## Proofs

Every safety property and every refinement that a passing run checks is also a theorem, for
any value of the constants that the modules' assumptions allow.

| Theorem | Statement |
| --- | --- |
| `HlcProofs!BeforeTotal`, `TickAdvances`, `ObserveAdvances` | revisions are totally ordered, and clocks pass what they issue and observe |
| `NodeSyncProofs!Invariance` | `Spec => []IndInv` |
| `NodeSyncProofs!TypeCorrect`, `RevisionsAreUnique`, `ClockCoversIssued`, `OwnOriginIsRecorded`, `DeletedIsGone`, `LiveRecordsHaveNodes`, `ClocksNeverGoBack` | the type invariant and the safety properties of `NodeSync`, for any instances, nodes and bounds |
| `NodeSyncProofs!Implementation` | without interrupted operations, `NodeSync` implements `LwwStore` |
| `NodeSyncProofs!RecordsOnlyAdvance` | until an operation is interrupted, no record is replaced by an older one |
| `SessionSyncProofs!DataInvariance`, `RevisionInvariance` | `Spec => []DataInv`, `Spec => []RevInv` |
| `SessionSyncProofs!SessionTypeCorrect`, `ArchivesRestorable`, `LogsAreKept`, `LosersAreKept`, `RevisionsStandForOne` | the properties of `sessions`, for any instances, sessions, contents and imports that stop |
| `SessionSyncProofs!SessionImplementation` | `SessionSync` implements `LwwStore`, imports that stop included |
| `WorkspaceBindingProofs!Invariance`, `TypeCorrect`, `MirrorsAreUnique`, `NeverBoundWhilePending`, `ImportsLandOnNodes`, `CleanupsSpareActive` | the properties of `binding`, for any nodes, names, directories and requests |
| `SyncRunProofs!Invariance`, `TypeCorrect`, `BatchesReplayable`, `SuccessesCover`, `RecordsNeverGoBack`, `BatchesEndApplied` | the safety properties of runs, for any sessions, versions and bounds |
| `SyncRunProofs!AnswersAreWhole` | `NoTruncatedAnswer`, for any window and any length of answers |
| `PeerScheduleProofs!Invariance`, `TypeCorrect`, `SchedulesSettle`, `RemovedPeersStayGone`, `LivePeersHaveSecrets` | the properties of the peers, for any peers, secrets and requests |
| `HostNodesProofs!ListedNodesKeepKeys`, `OthersLeaveTheList` | `ListedKeepsKeys` and `OnlyItsOwn`, for any nodes and requests |
| `HostNodesProofs!SharedHandshake`, `OperationsRunWhereBound`, `FilesAreWhole` | `OneHandshake`, `RunsWhereBound` and `WholeOverSsh`, for any callers, paths, writers and texts |
| `HostProofs!RotationEndsSessions`, `GuessesAreBounded` | `RotationRevokes` and `GuessesBounded`, for any users, addresses and limits |
| `HostProofs!SnapshotsAreFrozen`, `EditorsSawTheText` | `FrozenSnapshot` and `EditsSeen`, for any texts, sessions and dialogs |
| `HostProofs!HalfAppliedIsFinishable`, `PendingIsServed` | `HalfAppliedIsJournalled` and `PendingHasObjects`, for any archives, batches and objects |
| `HostProofs!ImportsAreAsPlanned` | `AppliedAsPlanned`, for any logs to begin with |
| `HostProofs!ExportsAreImported` | `ExportsImport`, for any records, collations, sizes and limits |
| `HostProofs!PartsKeepTypes` | `HostTypeOK` |

Only model-checked are the liveness properties `Convergence`, `RunEnds` and `RequestSettles`,
because the prover does not reason about fairness and ENABLED.

*Node synchronisation.*  `UniqueRevision` is not inductive: a step could issue a revision
that an entry somewhere else already carries.  What excludes that is that a writer's
persisted clock covers everything it ever issued (`IssuedIsCovered`), so the next tick is
past it.  An export then needs that the nodes it stamps have distinct origins and that its
ticks do not overlap, and an interrupted import, which saves a received record without the
clock, must not save one of the instance's own writing that the clock does not cover; the
record is in `published`, so `IssuedIsCovered` applies to it.  `IndInv` is therefore
`TypeOK`, `IssuedIsCovered`, `UniqueRevision`, `OwnOriginRecorded`, `ForeignKnown` (a node
that is present away from home has a record) and `RemovedIsAbsent` (no profile under a completed
removal).  The last is what the action property `DeletedMeansGone` needs of the state before a
step: credentials under such a tombstone can then only come from a waiting PATCH, which the
property allows by name, since no one looks whether the node is still there.
There is one lemma per action, and lemmas that say what a step does to the set of all
versions (`FreshVersions`, `NoNewVersions`).

*The refinement.*  Every step of `NodeSync` is a write of one version (`LocalStep`), the
adoption of a shared newer one (`AdoptStep`) or a stutter (`QuietStep`); an export that
stamps several nodes is a write of each.  A write must be newer than the record it replaces,
which needs that the clock covers every record held (`HeldIsCovered`), the foreign ones
too.  An interrupted import breaks just that ([finding](#findings) 1), so the theorem has
`MaxFaults = 0` as its assumption, and `RecordsOnlyAdvance` is proved for all values.

A live record without its node would be a node lost in silence.  `LiveRecordHasNode` says so until
an operation is interrupted, since one that stops between a record and its node does lose it.

*Sessions.*  Two invariants, as two kinds of facts are at stake.  `DataInv` says what logs,
records and archives hold of each other: each log is a content, what is attached or hidden has
a log, a live record's log holds what was recorded (`Holds`), and an archive's log all of the
version that lost (`Restores`), both unless the user deleted that log.  An archive keeps no
copy: it names a log that is still attached and may grow, so `Restorable` rests on what is
recorded of the log when the version is archived, which is `Holds`.  `RevInv` adds that every version held or published anywhere is
covered by its writer's persisted clock (`HeldIsCovered`), that two with one revision agree
(`HeldAgrees`), and that an instance's clock covers its own records (`RecordIsCovered`).  A
step then either repeats versions that are known or gives out the next revision, which
`NextIsUnused` shows to be nobody's.  The refinement follows from it: a version that is
written is new and newer, one that is adopted was shared and is newer.  Unlike in
`NodeSync`, an import that stops has recorded nothing, so the theorem needs no assumption on
them.

*Workspace binding.*  The invariant adds `ImportHeld`: the node of an import under way is
present and unmarked.  It holds because all who mark or remove nodes are on the queue the
import occupies, and it is what makes the binding an import adds safe.

*Peers and schedule.*  `ScheduleSettles` speaks of a scheduler at rest; the invariant
`Caught` says what holds in between: a list that is not stale agrees with every peer that
listeners were told of, and if no list is under way the timers do.  `MC_LivePeerHasSecret` adds
`Served` while the credentials service answers: a peer has credentials or a creation that will
still write them, and only peers that are gone have theirs put back or deleted.

*Runs.*  That a run which succeeds has recorded its goal needs to be known at every phase:
`Keeps` says that each session of the goal is recorded, or planned in the version of the
goal, or in the chunk under way in that version, and that no chunk is under way between
chunks, so that nothing is left when the plan is empty.  A chunk is dropped after its
application only, and `Sound` says that what an application has done with is recorded;
`GoalKept` ties the two together, as the application of the run is of its chunk.  A session
half applied is newer than its record, because the client that applies it holds the queue
and the other one does not: that is what keeps a late replay from putting an older version
in the place of a newer one.  `Queued` says at which phases a run is in the queue.  Steps
are grouped by what they do to the run and the queue (`QuietMove`, `QuietEnd`, `AskMove`,
`ApplyMove`, `LeaveMove`, `JobMove`), and each action is an instance of one of these.

*The link.*  `Streamed` follows an answer frame by frame: what has been read is its beginning,
what is on the way continues it, each frame in its place (`InPlace`), and an end frame stands
one past the last of the data.  An answer that counts has read the end, so it has read all.

*The parts of a host.*  The steps of one part leave the variables of the others alone, so each
part has an invariant of its own, and a theorem of `MC_HostSpec` needs only the steps of its part.

- `NodeHost` (`NodesInv`): a node is listed once and its credentials are there.  What makes both
  survive the awaits is what a waiting request has found before (`WorkFits`): who brings a node
  finds it absent, who removes credentials has taken the node off, a position is still that
  node's; the queue protects all but creations, whose ids are nobody else's (`Apart`).
- `SshWorld` (`WorldInv`): there is at most one attempt, everyone who waits waits for it, and
  `connecting` names it unless the connection was closed.
- `Router` (`RoutesInv`): a mirror's path has one binding and worlds are of their node's kind.  The
  longest prefix is then the mirror itself, because a name has no separator (`IsRoot`).
- `RemoteFiles` (`FilesInv`): while no two writes have shared a millisecond, an open temporary
  file belongs to one writer, and is complete when it gets the target's name (`Tidy`).
- `Auth`: a cached copy whose time is the file's is the file (`StoreInv`), and the limiter has
  counted every guess it has not forgotten (`LimiterInv`).
- `Instructions` (`TextsInv`): a dialog has the present text, or one of an older revision, unless
  the text was cleared since (`Follows`).
- `OfflineImport` (`ArchivesInv`): the journal is written before anything is applied and removed
  after everything is, so the invariant follows the order of an import (`Order`), what the journal
  says of it (`JournalTrue`) and what the step under way has done (`StepTrue`).
- `ObjectInbox` (`InboxInv`): a pending batch is served because its objects were sent (`SentKept`:
  what a stream has delivered is in the inbox, or excused), because a reader reads only what it
  needs (`ReadOwn`), and because only a batch that is applied clears its objects
  (`ClearsFinished`).
- `SessionTransfer` (`TransferInv`): a manifest and what a reader has got are beginnings of the
  log, which only grows; a tail with its base is the log of the manifest (`Bundled`).
- `ArchiveFormat` (`FormatInv`): the package is the one its origin gives.  That it is accepted is
  about the format alone: where the parts of a ZIP lie (`ZipLayout`), what its directory lists
  (`DirectoryIs`), and that names lead to files (`NamesLead`).  Offsets are sums over sequences
  of files, which is a recursion; an archive has two or three, so `SumOfThree` unfolds it.

Assumptions on constants are named in the modules.  Instances are naturals (writers must be
ordered, as their ids are), the set of nodes is finite, bounds are naturals, and the special
values (`Absent`, `NoRecord`, `Idle`, `None`, ...) differ from ordinary ones.  The parts of `MCHost`
need a few more: a slug has no separator, because `slugify()` leaves none (`RoutesAssumption`);
the limiter lets at least one wrong password through, five in the code (`LoginAssumption`); logs
are sequences of events (`TransferAssumption`); sizes are natural (`FormatAssumption`).  Texts
that are written are not empty (`FilesAssumption`): an empty one is whole as soon as its file is
open, and the model tells a file in the making from a whole one by its text.

## Findings

Each is the subject of a run that violates a property quoted from the repository's own
documents or comments; `PROJECT.json` has the lines.

1. `nodesync_late_change`: an import of a tombstone that is interrupted after saving the
   record leaves the clock behind it, and the next local deletion is ordered *before* the
   record it replaces.
2. `binding_race`: the second check of a bind request asks only for a pending removal; one
   that has run to its end in the meantime passes, and the binding names a node that is gone.
3. `peers_disable`: an update of another field writes the peer back as it was before its
   awaits, and switches on a peer that was switched off meanwhile.
4. `sync_run_origin`: a session attached by a batch that then failed has no record, and the
   next run exports it as a session of this instance.
5. `sessions_roundtrip`: an import renames the delivery marker in a log, so its digest
   changes; a session that goes to a peer and comes back unchanged has its own version
   archived, again on every round trip.
6. `transport_push`: the helper waits for `drain` on a readable stream, which never emits it
   (`remote-helper.ts:118`); a push larger than the stream's buffer ends by the deadline.

## Known gaps

Met while modelling and not the subject of a run.  Those with a module and an action are
reachable in it; the others lie outside what the modules tell apart.

*Nodes and credentials.*
- A deletion leaves a tombstone (`NodeSync!RemoveLocalFails`): if deleting the credentials
  fails, the profile is gone and the live record is put back (`node-sync.ts:575`).
- A PATCH writes credentials after a removal (`NodeSync!EndPatch`, `node-registry.ts:277`;
  excused in `DeletedMeansGone`), and one that fails to write them leaves the changed profile in
  memory (275); rotated credentials do not reach a connection that the pool keeps
  (`routes.ts:251`).
- DELETE uses the node it looked up before the queue (`routes.ts:273`); a PATCH is lost to
  the copy of the node that provisioning writes back (`exec-docker/index.ts:78`).
- Provisioning a node that is removed meanwhile leaves its container, and so does an imported
  removal.  A failed provisioning leaves a half-made container, although
  `docs/spec/requirements.md:88` and `docs/spec/design.md:157` say it is cleaned.  Two
  provisionings of one node end as failed beside a running container.  A changed image keeps
  the old container, and the "delete" of `docker-routes.ts:122` removes one a profile names.
- A pending removal ends only when a user lists the nodes (`NodeSync!Reconcile`,
  `routes.ts:186`): neither the removal of the last binding, nor a timer, nor a run finishes it,
  although `.monkeycode/specs/2026-10-21-cloud-sync/design.md:374` has it finished after the last
  binding is gone.  DSH may also reopen, and so keep, a node that waits for its removal, and the
  bindings of a node that was deleted here stay (`OpenWorkspace`).
- The plan of a run compares records, not nodes, so an import may overwrite a node that
  changed after the export the plan was made from (`coordinator.ts:338`).

*Bindings and worlds.*
- A directory bound under two names has two bindings (`WorkspaceBinding!FinishBind`,
  `workspace-bindings.ts:59`).  A workspace opened while a local deletion waits for its
  container loses its node (`DeleteProfile`, `node-sync.ts:555`).  The binding an import found
  before its await may have been rebound since (`FinishImport`, `session-sync.ts:2759`).
- `ensure()` registers a world after the removal of its node (`Router`, `exec-ssh/world.ts:83`),
  worlds stay when the deletion of credentials fails (`routes.ts:313`), and a container's world
  keeps a container that was replaced (`exec-docker/world.ts:60`).
- The SFTP channel is never opened again after a loss (`SshWorld`, `executor.ts:15`), although
  `docs/spec/requirements.md:100` and `docs/spec/design.md:221` speak of reconnecting; a late
  `close` of an old client clears a new one, and `close()` during a handshake leaves a client
  that is never ended (`connection.ts:155`).
- The version an editor expects is ignored, so of two concurrent edits one is lost
  (`RemoteFiles`, `fs-provider.ts:103`); a replacement text with `$&` is interpreted (113).
  Two writes in one millisecond share their temporary file (`executor.ts:96`), which a break
  leaves behind.  In a container the file is written in place and the exit code ignored
  (`docker-client.ts:199`), and a command whose inspection fails reports 0 (162).

*Peers and runs.*
- A list that arrives after the scheduler's stop sets timers (`PeerSchedule!ApplyList`,
  `scheduler.ts:62`); a failed creation does not tell the scheduler (`FailCreate`,
  `peer-manager.ts:217`); a request that was waiting writes the credentials of a removed peer
  (`WriteSecret`, `RestoreSecret`, `peer-manager.ts:266`).
- A stop during the second attempt or an application ends as failed and keeps the batch
  (`SyncRun!SecondFails`, `FailApply`, `coordinator.ts:672`), and a recovery that holds a
  discarded batch in memory goes on with it (`EndStopped`, `RecordEntry`, `session-sync.ts:2079`).
- Stopping a peer misses a session that is still opening, the pull handler waits for `drain`
  and `error` but not for `close` (`internal-routes.ts:122`), and a later observation replaces a
  host-key challenge that a user is looking at (`host-key.ts:68`).

*Sessions.*
- A session whose workspace was merely unregistered is exported as deleted
  (`SessionSync!ExportMissing`, `session-sync.ts:2322`); deletions are not passed on by relays (2308).
- A log that was edited where an import wants to continue it refuses every later import (3344),
  one busy session fails a whole export (3620), and an archive whose log exists is not written
  again (3197).
- That last check asks only whether the log is there.  When a user deletes the log of a session, an
  import that stops half way brings a part of it back under the recorded id, and a newer
  version or a deletion then archives that part as if it were the whole.  It takes more
  steps than the bounds of `sessions`; the proof of `Restorable` met it, and the property
  excuses the logs in `erased`.
- An applied batch deletes an object that another pending batch shares (`ObjectInbox`, 2613), and
  the sweep at boot removes day-old objects that a pending batch needs (`core/index.ts:102`).
  Both are excused in `PendingHasObjects`.

*Offline archives.*
- A recovery that fails refuses every later import; a stop between applying the nodes and
  noting it applies them again.  Hosts that sort differently refuse each other's archives
  (`ArchiveFormat`, `offline-archive.ts:360`).
- An instance with more than 10000 session records exports an archive that no instance, not even
  itself, can import: the limit is checked by the importer only (`BundleOk`,
  `session-sync.ts:1614`; excused in `ExportsImport`).

*Instructions and login.*
- `clear()` starts the revisions anew, so a dialog may save over a text it has not seen
  (`Instructions`, excused in `EditsSeen`); texts with equal revisions never converge, clearing does
  not reach peers, and a snapshot that differs refuses its import for good.
- A reset between the server's own write and its reading of the file's time is not seen
  (`credentials.ts:123`); a reset that has loaded the file reverts a change of the server made
  before it saves; a full limiter forgets (`Auth`, `ratelimit.ts:37`); logging out clears
  the browser's cookie only.

## What is left out

- Bytes, ciphers, digests, file modes, atomic replacement of JSON files: taken to do what
  they say.  A corrupt JSON file is not a state of the models; a damaged archive is.
- In `NodeSync`, what unqueued requests do in the middle of a queued operation (it is
  `NodeHost`'s), a restart in the middle of a PATCH, after which the profile is the one on disk,
  and local ids, so a stop between `createImported()` and the saving of its record
  (`node-sync.ts:510`) is not reached.
- In `SessionSync`, workspaces that cannot be mapped, positions in a workspace, attachments,
  the export cache.
- In `WorkspaceBinding`, the download route, which only reads.
- In `PeerSchedule`, field validation, run progress and several listeners.
- In `SyncRun`, local edits and tombstones of sessions (they are `SessionSync`'s), what a push
  changes at the peer, removal of the peer during a run, and more than one recovery at a time.
- In `Transport`, the bytes of a frame and the probe of the remote platform.
- Host-key trust.  It has state: the last key observed of each peer waits five minutes in memory
  for a user to accept it, and an accepted one is pinned in the peer's file.  Each method is one
  step on that map, and pinning writes one field of the peer at once.
- Probes, audit, the parsers of SSH configuration and the browser client: no state that
  outlives a request, or presentation; `PROJECT.json` says why for each.

## Plan

What remains, in this order.

1. Local ids of imported nodes in `NodeSync`, with the stop between a node and its record.
2. The download route and the export cache, which read while others write.
3. Host-key challenges beside a concurrent edit of their peer.
4. Proofs: `RecordsOnlyAdvance` for the sessions, and that `WorkspaceBinding` implements an
   abstract registry of bindings, which is not stated yet.
