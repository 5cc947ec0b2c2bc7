------------------------------- MODULE SyncRun -------------------------------
(***************************************************************************)
(* A synchronisation run with one peer: the coordinator's phases, its stop *)
(* signal and its retry, the journal of session batches, and the recovery  *)
(* of batches after a restart.                                             *)
(*                                                                         *)
(* Two clients share the mutation queue of the session service: the run,   *)
(* which exports and applies, and the recovery (recoverPending(), at boot  *)
(* or before an offline import), which applies registered batches again.   *)
(* The queue is first come, first served.                                  *)
(*                                                                         *)
(* Entry is the set of the peer's sessions whose workspace can be mapped   *)
(* here, and a session's content is a version number.  A batch maps some   *)
(* sessions to versions; what identifies it is its content, as the digest  *)
(* does.  A batch's log for a session is written and attached first and    *)
(* recorded in the sync state later.                                       *)
(***************************************************************************)
EXTENDS Naturals, FiniteSets

CONSTANTS Entry,       \* sessions of the peer
          None,        \* no run, no recovery, no session half applied
          MaxVersion,  \* bound on the versions of each session
          MaxPushes,   \* bound on the chunks a run pushes
          MaxPending,  \* bound on the batches registered at a time
          MaxCrashes   \* bound on restarts

ASSUME BoundAssumption ==
  /\ MaxVersion \in [Entry -> Nat \ {0}]
  /\ MaxPushes \in Nat /\ MaxPending \in Nat /\ MaxCrashes \in Nat

Version == UNION {0 .. MaxVersion[e] : e \in Entry}
Versions(S) == {f \in [S -> Version] : \A e \in S : f[e] <= MaxVersion[e]}
Batch == UNION {Versions(S) : S \in SUBSET Entry}
Nothing == [e \in {} |-> 0]

(* retryTransport() guards the phases that wait for the peer. *)
Transport == {"nodeManifest", "pushNodes", "manifest", "fetch", "objects", "refetch",
              "pushObjects", "push"}
Phase == Transport \cup {"peer", "nodes", "export", "chunks", "apply", "exportChunk"}
Client == {"run", "recovery"}
Status == {"none", "running", "succeeded", "failed", "stopped"}

(* A run: its phase and attempt at it, whether a stop was asked for, what  *)
(* it has to pull, what is left of that, the chunk being pulled, whether   *)
(* the chunk goes in full rather than as a delta, and the chunks pushed.   *)
RunState == [phase : Phase, try : {"first", "delay", "second"}, aborted : BOOLEAN,
             goal : Batch, plan : Batch, chunk : Batch, full : BOOLEAN,
             pushes : 0 .. MaxPushes]

(* An application of a batch: asked for, or at work on the entries left,   *)
(* with a log written and not yet recorded, or not.                        *)
Job == [batch : Batch, begun : BOOLEAN, left : SUBSET Entry, half : Entry \cup {None}]

(* A recovery, and the batches it has still to look at.                    *)
Recovery == [todo : SUBSET Batch]

ASSUME NoneAssumption == None \notin Entry \cup RunState \cup Job \cup Recovery

VARIABLES
  remote,     \* the peer's sessions
  record,     \* sync-state.json: the version recorded of each session
  stray,      \* session logs attached to a workspace here without a record
  journal,    \* sync-session-journal.json: registered batches of the peer
  staged,     \* sync-session-staging: bundles on disk
  run,        \* the run in flight, or None
  status,     \* the peer's lastRunStatus
  recovery,   \* the recovery under way, or None
  job,        \* job[c]: the application client c waits for, or None
  queue,      \* queue[c]: "out", "waits" or "holds"
  crashes     \* restarts (bound)

sessions == <<record, stray>>
disk == <<journal, staged>>
progress == <<run, status>>
queueing == <<job, queue>>
vars == <<remote, sessions, disk, progress, recovery, queueing, crashes>>

-----------------------------------------------------------------------------
(* The mutation queue *)

Other(c) == IF c = "run" THEN "recovery" ELSE "run"

(* Wrong on purpose: an operation starts whoever is at work.               *)
AskUnserialised(c) == queue' = [queue EXCEPT ![c] = "holds"]

Ask(c) ==
  queue' = [queue EXCEPT ![c] = IF queue[Other(c)] = "holds" THEN "waits" ELSE "holds"]

Leave(c) ==
  queue' = [d \in Client |-> IF d = c THEN "out"
                         ELSE IF queue[d] = "waits" THEN "holds" ELSE queue[d]]

(* One operation ends and the client asks for another. *)
AskAgain(c) ==
  queue' = [d \in Client |-> IF d = c THEN IF queue[Other(c)] = "out" THEN "holds" ELSE "waits"
                         ELSE IF queue[d] = "waits" THEN "holds" ELSE queue[d]]

Asked(batch) == [batch |-> batch, begun |-> FALSE, left |-> DOMAIN batch, half |-> None]

-----------------------------------------------------------------------------
(* The ways a run goes on or ends.  Each says what happens to the run, the *)
(* progress and the journal, and nothing about sessions and the queue.     *)

Goto(r) == run' = r /\ UNCHANGED <<status, disk>>

At(p) == [run EXCEPT !.phase = p, !.try = "first"]

(* The chunk is done with. *)
NextChunk == [At("chunks") EXCEPT !.chunk = Nothing, !.full = FALSE]

(* mapFailure(): the run ends as failed, and batches stay registered.      *)
Fail ==
  /\ run' = None
  /\ status' = "failed"
  /\ UNCHANGED disk

(* A stop was seen: the peer's batches are discarded.                      *)
EndStopped ==
  /\ run' = None
  /\ status' = "stopped"
  /\ journal' = {}
  /\ staged' = staged \ journal

Succeed ==
  /\ run' = None
  /\ status' = "succeeded"
  /\ UNCHANGED disk

(* throwIfStopped(), then on with r. *)
Unless(r) == IF run.aborted THEN EndStopped ELSE Goto(r)

-----------------------------------------------------------------------------
(* Run, stop and the phases before sessions *)

Run ==
  /\ run = None
  /\ run' = [phase |-> "peer", try |-> "first", aborted |-> FALSE, goal |-> Nothing,
             plan |-> Nothing, chunk |-> Nothing, full |-> FALSE, pushes |-> 0]
  /\ UNCHANGED <<remote, sessions, disk, status, recovery, queueing, crashes>>

(* stop() answers true. *)
Stop ==
  /\ run # None
  /\ ~run.aborted
  /\ run' = [run EXCEPT !.aborted = TRUE]
  /\ UNCHANGED <<remote, sessions, disk, status, recovery, queueing, crashes>>

(* The peer is there and enabled: the run is running.  Otherwise, or after *)
(* a stop, the run is refused and leaves no trace.                         *)
ReadPeer ==
  /\ run # None /\ run.phase = "peer"
  /\ \/ /\ ~run.aborted
        /\ run' = At("nodeManifest")
        /\ status' = "running"
     \/ run' = None /\ UNCHANGED status
  /\ UNCHANGED <<remote, sessions, disk, recovery, queueing, crashes>>

(* Nodes are exported, compared and applied, without a look at the signal. *)
ExchangeNodes ==
  /\ run # None /\ run.phase = "nodes"
  /\ \/ Unless(At("pushNodes"))
     \/ Unless(At("manifest"))
     \/ Succeed
     \/ Fail
  /\ UNCHANGED <<remote, sessions, recovery, queueing, crashes>>

-----------------------------------------------------------------------------
(* retryTransport() *)

InTransport(try) == run # None /\ run.phase \in Transport /\ run.try = try

(* The first attempt fails: stopped, tried again after a delay, or not     *)
(* worth another attempt.  Without a stop a run may fail for good.         *)
FirstFails ==
  /\ InTransport("first")
  /\ \/ Unless([run EXCEPT !.try = "delay"])
     \/ ~run.aborted /\ Fail
  /\ UNCHANGED <<remote, sessions, recovery, queueing, crashes>>

TryAgain ==
  /\ InTransport("delay")
  /\ Unless([run EXCEPT !.try = "second"])
  /\ UNCHANGED <<remote, sessions, recovery, queueing, crashes>>

(* Wrong on purpose: every attempt is retried. *)
SecondFailsRetried ==
  /\ InTransport("second")
  /\ Unless([run EXCEPT !.try = "delay"])
  /\ UNCHANGED <<remote, sessions, recovery, queueing, crashes>>

(* The second attempt is not caught. *)
SecondFails ==
  /\ InTransport("second")
  /\ Fail
  /\ UNCHANGED <<remote, sessions, recovery, queueing, crashes>>

Answered(p) == run # None /\ run.phase = p /\ run.try # "delay"

NodesAnswered ==
  /\ Answered("nodeManifest")
  /\ Goto(At("nodes")) \/ Fail
  /\ UNCHANGED <<remote, sessions, recovery, queueing, crashes>>

(* Nodes are pushed; sessions follow if the peer synchronises them.        *)
NodesPushed ==
  /\ Answered("pushNodes")
  /\ Unless(At("manifest")) \/ Succeed
  /\ UNCHANGED <<remote, sessions, recovery, queueing, crashes>>

(* The manifest of the peer's sessions; this instance's own comes next,    *)
(* from the queue.  After a bundle in its place the signal is looked at.   *)
ManifestAnswered ==
  /\ Answered("manifest")
  /\ \/ Goto([At("export") EXCEPT !.goal = remote]) /\ Ask("run")
     \/ run.aborted /\ EndStopped /\ UNCHANGED queue
     \/ Fail /\ UNCHANGED queue
  /\ UNCHANGED <<remote, sessions, recovery, job, crashes>>

(* This instance's manifest is exported, and what the peer has in newer    *)
(* versions is to be pulled.  A peer without manifests has sent all of it  *)
(* already, as one bundle; a report of skipped sessions is a batch too.    *)
ExportManifest ==
  /\ run # None /\ run.phase = "export" /\ queue["run"] = "holds"
  /\ LET newer == [e \in {x \in DOMAIN run.goal : run.goal[x] > record[x]} |-> run.goal[e]]
     IN  \/ Goto([At("chunks") EXCEPT !.goal = newer, !.plan = newer]) /\ Leave("run") /\ UNCHANGED job
         \/ /\ Goto([At("apply") EXCEPT !.goal = newer, !.chunk = newer, !.full = TRUE])
            /\ job' = [job EXCEPT !["run"] = Asked(newer)]
            /\ AskAgain("run")
         \/ Fail /\ Leave("run") /\ UNCHANGED job
  /\ UNCHANGED <<remote, sessions, recovery, crashes>>

-----------------------------------------------------------------------------
(* The loops over chunks: pulling *)

PullChunk ==
  /\ run # None /\ run.phase = "chunks" /\ DOMAIN run.plan # {}
  /\ \E S \in (SUBSET DOMAIN run.plan) \ {{}} :
       Unless([At("fetch") EXCEPT !.chunk = [e \in S |-> run.plan[e]], !.full = FALSE,
                                  !.plan = [e \in DOMAIN run.plan \ S |-> run.plan[e]]])
  /\ UNCHANGED <<remote, sessions, recovery, queueing, crashes>>

(* What was fetched must be what the manifest said.                        *)
Fresh == \A e \in DOMAIN run.chunk : remote[e] = run.chunk[e]

StartApply ==
  /\ Goto(At("apply"))
  /\ job' = [job EXCEPT !["run"] = Asked(run.chunk)]
  /\ Ask("run")

ChunkFetched ==
  /\ Answered("fetch")
  /\ \/ run.aborted /\ EndStopped /\ UNCHANGED queueing
     \/ ~run.aborted /\ Fresh /\ Goto(At("objects")) /\ UNCHANGED queueing
     \/ ~run.aborted /\ Fresh /\ StartApply
     \/ Fail /\ UNCHANGED queueing
  /\ UNCHANGED <<remote, sessions, recovery, crashes>>

ObjectsFetched ==
  /\ Answered("objects")
  /\ StartApply
  /\ UNCHANGED <<remote, sessions, recovery, crashes>>

(* The second time in full, because the event prefix did not match.        *)
ChunkRefetched ==
  /\ Answered("refetch")
  /\ \/ Fresh /\ StartApply
     \/ Fail /\ UNCHANGED queueing
  /\ UNCHANGED <<remote, sessions, recovery, crashes>>

-----------------------------------------------------------------------------
(* The loops over chunks: pushing, and the end *)

PushChunk ==
  /\ run # None /\ run.phase = "chunks" /\ DOMAIN run.plan = {}
  /\ run.pushes < MaxPushes
  /\ Unless([At("exportChunk") EXCEPT !.pushes = @ + 1])
  /\ IF run.aborted THEN UNCHANGED queue ELSE Ask("run")
  /\ UNCHANGED <<remote, sessions, recovery, job, crashes>>

ExportChunk ==
  /\ run # None /\ run.phase = "exportChunk" /\ queue["run"] = "holds"
  /\ \/ Unless(At("push"))
     \/ ~run.full /\ Unless(At("pushObjects"))
     \/ Fail
  /\ Leave("run")
  /\ UNCHANGED <<remote, sessions, recovery, job, crashes>>

ObjectsPushed ==
  /\ Answered("pushObjects")
  /\ Unless(At("push"))
  /\ UNCHANGED <<remote, sessions, recovery, queueing, crashes>>

(* The peer applied the chunk, or asks for it in full. *)
ChunkPushed ==
  /\ Answered("push")
  /\ \/ Goto(NextChunk) /\ UNCHANGED queue
     \/ ~run.full /\ Goto([At("exportChunk") EXCEPT !.full = TRUE]) /\ Ask("run")
  /\ UNCHANGED <<remote, sessions, recovery, job, crashes>>

(* Nothing is left to pull or to push. *)
Finish ==
  /\ run # None /\ run.phase = "chunks" /\ DOMAIN run.plan = {}
  /\ Succeed
  /\ UNCHANGED <<remote, sessions, recovery, queueing, crashes>>

-----------------------------------------------------------------------------
(* applyBundleNow(), for the run or a recovery *)

Working(c) == job[c] # None /\ queue[c] = "holds"
Begun(c) == Working(c) /\ job[c].begun

(* A batch that is not registered is staged and registered, after local    *)
(* sessions have been exported.                                            *)
BeginApply(c) ==
  /\ Working(c) /\ ~job[c].begun
  /\ job' = [job EXCEPT ![c].begun = TRUE]
  /\ IF c = "recovery" \/ job[c].batch \in journal
     THEN UNCHANGED disk
     ELSE /\ Cardinality(journal) < MaxPending
          /\ staged' = staged \cup {job[c].batch}
          /\ journal' = journal \cup {job[c].batch}
  /\ UNCHANGED <<remote, sessions, progress, recovery, queue, crashes>>

(* Wrong on purpose: a chunk whose prefix does not match is passed over.   *)
NeedsFullSkipped ==
  /\ Working("run") /\ ~job["run"].begun /\ ~run.full
  /\ Unless(NextChunk)
  /\ job' = [job EXCEPT !["run"] = None]
  /\ Leave("run")
  /\ UNCHANGED <<remote, sessions, recovery, crashes>>

(* The event prefix of a delta does not match: the chunk is fetched again. *)
NeedsFull ==
  /\ Working("run") /\ ~job["run"].begun /\ ~run.full
  /\ Unless([At("refetch") EXCEPT !.full = TRUE])
  /\ job' = [job EXCEPT !["run"] = None]
  /\ Leave("run")
  /\ UNCHANGED <<remote, sessions, recovery, crashes>>

(* An entry is applied if it is newer than the record. *)
NewerThanRecord(c, e) == job[c].batch[e] > record[e]

SkipEntry(c, e) ==
  /\ Begun(c) /\ job[c].half = None /\ e \in job[c].left
  /\ ~NewerThanRecord(c, e)
  /\ job' = [job EXCEPT ![c].left = @ \ {e}]
  /\ UNCHANGED <<remote, sessions, disk, progress, recovery, queue, crashes>>

(* The session's log is written and attached to its workspace ...          *)
WriteLog(c, e) ==
  /\ Begun(c) /\ job[c].half = None /\ e \in job[c].left
  /\ NewerThanRecord(c, e)
  /\ stray' = stray \cup {<<e, job[c].batch[e]>>}
  /\ job' = [job EXCEPT ![c].half = e]
  /\ UNCHANGED <<remote, record, disk, progress, recovery, queue, crashes>>

(* ... and recorded in the sync state.  The session it replaces has become *)
(* an archive.                                                             *)
RecordEntry(c) ==
  /\ Begun(c) /\ job[c].half # None
  /\ LET e == job[c].half
     IN  /\ record' = [record EXCEPT ![e] = job[c].batch[e]]
         /\ stray' = stray \ {<<e, job[c].batch[e]>>}
         /\ job' = [job EXCEPT ![c].half = None, ![c].left = @ \ {e}]
  /\ UNCHANGED <<remote, disk, progress, recovery, queue, crashes>>

(* All entries are applied: the batch is unregistered.                     *)
CompleteApply(c) ==
  /\ Begun(c) /\ job[c].left = {}
  /\ journal' = journal \ {job[c].batch}
  /\ staged' = staged \ {job[c].batch}
  /\ job' = [job EXCEPT ![c] = None]
  /\ Leave(c)
  /\ run' = IF c = "run" THEN NextChunk ELSE run
  /\ UNCHANGED <<remote, sessions, status, recovery, crashes>>

(* Wrong on purpose: a batch that failed is unregistered as well.          *)
FailApplyForgets(c) ==
  /\ Working(c)
  /\ job' = [job EXCEPT ![c] = None]
  /\ journal' = journal \ {job[c].batch}
  /\ staged' = staged \ {job[c].batch}
  /\ Leave(c)
  /\ IF c = "run" THEN run' = None /\ status' = "failed" ELSE UNCHANGED progress
  /\ UNCHANGED <<remote, sessions, recovery, crashes>>

(* An entry, or the whole batch, is refused.                               *)
FailApply(c) ==
  /\ Working(c)
  /\ job' = [job EXCEPT ![c] = None]
  /\ Leave(c)
  /\ IF c = "run" THEN Fail ELSE UNCHANGED <<progress, disk>>
  /\ UNCHANGED <<remote, sessions, recovery, crashes>>

-----------------------------------------------------------------------------
(* recoverPending() *)

StartRecovery ==
  /\ recovery = None /\ journal # {}
  /\ recovery' = [todo |-> journal]
  /\ UNCHANGED <<remote, sessions, disk, progress, queueing, crashes>>

(* The next batch: its bundle is read, and its turn in the queue awaited.  *)
RecoverBatch ==
  /\ recovery # None /\ job["recovery"] = None
  /\ \E b \in recovery.todo :
       /\ recovery' = [recovery EXCEPT !.todo = @ \ {b}]
       /\ IF b \in staged
          THEN job' = [job EXCEPT !["recovery"] = Asked(b)] /\ Ask("recovery")
          ELSE UNCHANGED queueing
  /\ UNCHANGED <<remote, sessions, disk, progress, crashes>>

EndRecovery ==
  /\ recovery # None /\ job["recovery"] = None
  /\ recovery.todo = {}
  /\ recovery' = None
  /\ UNCHANGED <<remote, sessions, disk, progress, queueing, crashes>>

-----------------------------------------------------------------------------
(* The rest of the world *)

EditRemote(e) ==
  /\ remote[e] < MaxVersion[e]
  /\ remote' = [remote EXCEPT ![e] = @ + 1]
  /\ UNCHANGED <<sessions, disk, progress, recovery, queueing, crashes>>

(* The process stops and starts again, with registered batches r and       *)
(* bundles b on disk; bundles without a batch are cleaned up at boot.      *)
Restart(r, b) ==
  /\ crashes < MaxCrashes
  /\ crashes' = crashes + 1
  /\ journal' = r
  /\ staged' = b \cap r
  /\ run' = None
  /\ recovery' = None
  /\ job' = [c \in Client |-> None]
  /\ queue' = [c \in Client |-> "out"]
  /\ UNCHANGED <<remote, sessions, status>>

Crash == Restart(journal, staged)

(* Wrong on purpose: a batch is registered before its bundle is staged.    *)
InterruptedBeginUnstaged(c) ==
  /\ Working(c) /\ ~job[c].begun /\ c = "run"
  /\ Restart(journal \cup {job[c].batch}, staged)

(* ... between staging a bundle and registering its batch.                 *)
InterruptedBegin(c) ==
  /\ Working(c) /\ ~job[c].begun /\ c = "run"
  /\ Restart(journal, staged \cup {job[c].batch})

(* ... between unregistering a batch and removing its bundle.              *)
InterruptedComplete(c) ==
  /\ Begun(c) /\ job[c].left = {}
  /\ Restart(journal \ {job[c].batch}, staged)

(* ... while a stopped run discards its batches, one after the other.      *)
InterruptedDiscard ==
  /\ run # None /\ run.aborted /\ run.phase \notin {"peer", "export", "apply"}
  /\ \E S \in SUBSET journal : Restart(journal \ S, staged)

-----------------------------------------------------------------------------
Init ==
  /\ remote = [e \in Entry |-> 1]
  /\ record = [e \in Entry |-> 0]
  /\ stray = {}
  /\ journal = {} /\ staged = {}
  /\ run = None
  /\ status = "none"
  /\ recovery = None
  /\ job = [c \in Client |-> None]
  /\ queue = [c \in Client |-> "out"]
  /\ crashes = 0

(* What a run does without being asked, and so what must happen if nothing *)
(* else does: every wait for the peer has its deadline, every operation    *)
(* here ends or fails.                                                     *)
RunStep ==
  \/ ReadPeer \/ ExchangeNodes \/ FirstFails \/ TryAgain \/ SecondFails
  \/ NodesAnswered \/ NodesPushed \/ ManifestAnswered \/ ExportManifest
  \/ PullChunk \/ ChunkFetched \/ ObjectsFetched \/ ChunkRefetched
  \/ PushChunk \/ ExportChunk \/ ObjectsPushed \/ ChunkPushed \/ Finish \/ NeedsFull

ApplyStep(c) ==
  \/ BeginApply(c) \/ RecordEntry(c) \/ CompleteApply(c) \/ FailApply(c)
  \/ \E e \in Entry : SkipEntry(c, e) \/ WriteLog(c, e)

RecoveryStep == RecoverBatch \/ EndRecovery

Progress(c) == (IF c = "run" THEN RunStep ELSE RecoveryStep) \/ ApplyStep(c)

Next ==
  \/ Run \/ Stop \/ RunStep \/ StartRecovery \/ RecoveryStep
  \/ \E c \in Client : ApplyStep(c) \/ InterruptedBegin(c) \/ InterruptedComplete(c)
  \/ \E e \in Entry : EditRemote(e)
  \/ InterruptedDiscard \/ Crash

Spec == Init /\ [][Next]_vars

FairSpec == Spec /\ \A c \in Client : WF_vars(Progress(c))

-----------------------------------------------------------------------------
(* Properties *)

(* Every variable has its shape, a client that applies a batch is in the   *)
(* queue, and one client at most holds the queue.                          *)
TypeOK ==
  /\ remote \in Versions(Entry)
  /\ record \in Versions(Entry)
  /\ stray \subseteq Entry \X Version
  /\ journal \subseteq Batch /\ staged \subseteq Batch
  /\ run \in RunState \cup {None}
  /\ status \in Status
  /\ recovery \in Recovery \cup {None}
  /\ job \in [Client -> Job \cup {None}]
  /\ queue \in [Client -> {"out", "waits", "holds"}]
  /\ crashes \in 0 .. MaxCrashes
  /\ \A c \in Client : job[c] # None => queue[c] # "out"
  /\ \A c \in Client : queue[c] = "waits" <=> queue[c] # "out" /\ queue[Other(c)] = "holds"

(* A registered batch has its bundle on disk, so a restart at any point    *)
(* can replay it: bundles are staged before batches are registered and     *)
(* removed after, by runs, recoveries and stops.                           *)
Replayable == journal \subseteq staged

(* A run that succeeds, and so sets the watermark, has recorded every      *)
(* session that was newer in its peer's manifest, whatever was retried,    *)
(* fetched twice or recovered on the way.                                  *)
SuccessCovers ==
  [][status' = "succeeded" /\ run # None /\ run' = None =>
       \A e \in DOMAIN run.goal : record[e] >= run.goal[e]]_vars

(* Replaying a batch, however late and next to whatever run, never puts an *)
(* older version in the place of a newer one.                              *)
RecordsAdvance == [][\A e \in Entry : record'[e] >= record[e]]_vars

(* A batch leaves the journal when every session of it is recorded, or     *)
(* because a stopped run discards it, and in no other way.                 *)
BatchEndsApplied ==
  [][\A b \in journal \ journal' :
       \/ \A e \in DOMAIN b : record[e] >= b[e]
       \/ status' = "stopped"
       \/ run # None /\ run.aborted /\ crashes' # crashes]_vars

(* Every run ends, although it shares the queue with recoveries.           *)
RunEnds == run # None ~> run = None

(* When local sessions are exported, every session of the peer that is     *)
(* attached here has its record; one that had not would be registered as a *)
(* session of this instance.  A replay recovers pending batches before it  *)
(* exports, "to keep imported records from losing their origin"            *)
(* (Sync-Foundation, line 41).                                             *)
SessionKeepsOrigin == [][ExportManifest /\ run' # None => stray = {}]_vars
=============================================================================
