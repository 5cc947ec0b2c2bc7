---------------------------- MODULE SyncRunProofs ----------------------------
(***************************************************************************)
(* Proofs about SyncRun, for any sessions, versions and bounds.            *)
(*                                                                         *)
(* A run that succeeds has covered its goal because every session of the   *)
(* goal is, at any time, recorded, planned or in the chunk under way, and  *)
(* the chunk under way is dropped only when all of it is recorded.         *)
(*                                                                         *)
(* The last part is about the link (Transport), for any window and any     *)
(* length of an answer.                                                    *)
(***************************************************************************)
EXTENDS MCSyncRun, SequenceTheorems, TLAPS

Early == {"peer", "nodeManifest", "nodes", "pushNodes", "manifest"}
Queueing == {"export", "exportChunk", "apply"}
Between == {"chunks", "exportChunk", "pushObjects", "push"}

(* Who is in the queue, and who waits for an application.                  *)
Queued ==
  /\ queue["run"] # "out" <=> run # None /\ run.phase \in Queueing
  /\ job["run"] # None <=> run # None /\ run.phase = "apply"
  /\ queue["recovery"] # "out" <=> job["recovery"] # None

(* What an application is done with is recorded, and a session half        *)
(* applied by the client that holds the queue is newer than its record.    *)
Sound(c) ==
  /\ job[c].left \subseteq DOMAIN job[c].batch
  /\ \A e \in DOMAIN job[c].batch \ job[c].left : record[e] >= job[c].batch[e]
  /\ job[c].half # None =>
       /\ job[c].begun /\ queue[c] = "holds"
       /\ job[c].half \in job[c].left
       /\ job[c].batch[job[c].half] > record[job[c].half]

JobsSound == \A c \in Client : job[c] # None => Sound(c)

(* A run r loses no session of its goal.                                   *)
Covered(r, e) ==
  \/ record[e] >= r.goal[e]
  \/ e \in DOMAIN r.plan /\ r.plan[e] = r.goal[e]
  \/ e \in DOMAIN r.chunk /\ r.chunk[e] = r.goal[e]

Keeps(r) ==
  /\ r.phase \in Early => DOMAIN r.goal = {}
  /\ r.phase \in Early \cup Between \cup {"export"} => DOMAIN r.chunk = {}
  /\ r.phase \notin Early \cup {"export"} => \A e \in DOMAIN r.goal : Covered(r, e)

GoalKept ==
  run # None =>
    /\ Keeps(run)
    /\ run.phase = "apply" => job["run"].batch = run.chunk
    /\ run.phase # "peer" => status = "running"

IInv == TypeOK /\ Queued /\ JobsSound /\ GoalKept

-----------------------------------------------------------------------------
(* Versions, batches, runs and jobs *)

LEMMA VersionNat ==
  /\ \A e \in Entry : MaxVersion[e] \in Nat
  /\ Version \subseteq Nat
BY BoundAssumption DEF Version

LEMMA BatchIs ==
  ASSUME NEW b \in Batch
  PROVE  /\ DOMAIN b \subseteq Entry
         /\ \A e \in DOMAIN b : b[e] \in Version /\ b[e] \in Nat /\ b[e] <= MaxVersion[e]
<1>1. PICK S \in SUBSET Entry : b \in Versions(S)
  BY DEF Batch
<1>2. DOMAIN b = S /\ \A e \in S : b[e] \in Version /\ b[e] <= MaxVersion[e]
  BY <1>1 DEF Versions
<1>3. QED BY <1>2, VersionNat

LEMMA BatchOf ==
  ASSUME NEW b, NEW S \in SUBSET Entry, b \in Versions(S)
  PROVE  b \in Batch
BY DEF Batch

LEMMA NothingBatch == Nothing \in Batch /\ DOMAIN Nothing = {}
<1>1. Nothing \in Versions({})
  BY DEF Nothing, Versions
<1>2. QED BY <1>1, BatchOf DEF Nothing

(* A part of a batch is a batch.                                           *)
LEMMA PartBatch ==
  ASSUME NEW b \in Batch, NEW S \in SUBSET DOMAIN b
  PROVE  [e \in S |-> b[e]] \in Batch
<1>1. [e \in S |-> b[e]] \in Versions(S)
  BY BatchIs DEF Versions
<1>2. S \in SUBSET Entry
  BY BatchIs
<1>3. QED BY <1>1, <1>2, BatchOf

LEMMA StoreIs ==
  ASSUME NEW s \in Versions(Entry)
  PROVE  /\ s \in Batch /\ DOMAIN s = Entry
         /\ \A e \in Entry : s[e] \in Version /\ s[e] \in Nat /\ s[e] <= MaxVersion[e]
<1>1. DOMAIN s = Entry /\ s \in Batch
  BY BatchOf DEF Versions
<1>2. QED BY <1>1, BatchIs

LEMMA StoreExcept ==
  ASSUME NEW s \in Versions(Entry), NEW e \in Entry, NEW v \in Version, v <= MaxVersion[e]
  PROVE  [s EXCEPT ![e] = v] \in Versions(Entry)
BY DEF Versions

LEMMA NotNone ==
  /\ \A e \in Entry : e # None
  /\ \A r \in RunState : r # None
  /\ \A j \in Job : j # None
  /\ \A r \in Recovery : r # None
BY NoneAssumption

LEMMA RunFields ==
  ASSUME NEW r \in RunState
  PROVE  /\ r.phase \in Phase /\ r.try \in {"first", "delay", "second"}
         /\ r.aborted \in BOOLEAN /\ r.full \in BOOLEAN
         /\ r.goal \in Batch /\ r.plan \in Batch /\ r.chunk \in Batch
         /\ r.pushes \in 0 .. MaxPushes
BY DEF RunState

(* The run at another phase.                                               *)
LEMMA AtType ==
  ASSUME TypeOK, run # None, NEW p \in Phase
  PROVE  /\ At(p) \in RunState
         /\ At(p).phase = p
         /\ At(p).goal = run.goal /\ At(p).plan = run.plan /\ At(p).chunk = run.chunk
         /\ At(p).aborted = run.aborted
BY DEF TypeOK, At, RunState

LEMMA AskedType ==
  ASSUME NEW b \in Batch
  PROVE  /\ Asked(b) \in Job
         /\ Asked(b).batch = b /\ Asked(b).left = DOMAIN b /\ Asked(b).half = None
         /\ Asked(b) # None
<1>1. DOMAIN b \in SUBSET Entry
  BY BatchIs
<1>2. Asked(b) \in Job
  BY <1>1 DEF Asked, Job
<1>3. QED BY <1>2, NotNone DEF Asked

-----------------------------------------------------------------------------
(* The queue *)

QueueOK ==
  /\ queue \in [Client -> {"out", "waits", "holds"}]
  /\ \A c \in Client : queue[c] = "waits" <=> queue[c] # "out" /\ queue[Other(c)] = "holds"

LEMMA AskQueue ==
  ASSUME QueueOK, NEW c \in Client, queue[c] = "out", Ask(c)
  PROVE  /\ QueueOK' /\ queue'[c] # "out"
         /\ \A d \in Client \ {c} : queue'[d] = queue[d]
BY DEF QueueOK, Ask, Client, Other

LEMMA LeaveQueue ==
  ASSUME QueueOK, NEW c \in Client, Leave(c)
  PROVE  /\ QueueOK' /\ queue'[c] = "out"
         /\ \A d \in Client \ {c} : queue'[d] = "out" <=> queue[d] = "out"
         /\ \A d \in Client \ {c} : queue[d] = "holds" => queue'[d] = "holds"
BY DEF QueueOK, Leave, Client, Other

LEMMA AskAgainQueue ==
  ASSUME QueueOK, NEW c \in Client, queue[c] = "holds", AskAgain(c)
  PROVE  /\ QueueOK' /\ queue'[c] # "out"
         /\ \A d \in Client \ {c} : queue'[d] = "out" <=> queue[d] = "out"
         /\ \A d \in Client \ {c} : queue[d] = "holds" => queue'[d] = "holds"
BY DEF QueueOK, AskAgain, Client, Other
-----------------------------------------------------------------------------
(* Steps of a run away from the queue and from the peer's sessions *)

LEMMA QueueIs ==
  ASSUME TypeOK
  PROVE  QueueOK
BY DEF TypeOK, QueueOK

(* The run ends, and nobody was waiting for it.                            *)
LEMMA QuietEnd ==
  ASSUME IInv, run # None, run.phase \notin Queueing,
         \/ Fail \/ EndStopped \/ Succeed
         \/ run' = None /\ UNCHANGED <<status, disk>>,
         UNCHANGED <<remote, sessions, recovery, queueing, crashes>>
  PROVE  IInv'
<1>1. /\ run' = None /\ status' \in Status
      /\ journal' \subseteq Batch /\ staged' \subseteq Batch
  BY DEF IInv, TypeOK, Fail, EndStopped, Succeed, disk, Status
<1>2. UNCHANGED <<remote, record, stray, recovery, job, queue, crashes>>
  BY DEF sessions, queueing
<1>3. TypeOK'
  BY <1>1, <1>2 DEF IInv, TypeOK
<1>4. Queued'
  BY <1>1, <1>2 DEF IInv, Queued, Queueing
<1>5. JobsSound'
  BY <1>2 DEF IInv, JobsSound, Sound
<1>6. GoalKept'
  BY <1>1 DEF GoalKept
<1>7. QED BY <1>3, <1>4, <1>5, <1>6 DEF IInv

(* The run goes on, still not waiting for the queue.                       *)
LEMMA QuietMove ==
  ASSUME IInv, run # None => run.phase \notin Queueing,
         NEW r \in RunState, r.phase \notin Queueing, run' = r, Keeps(r),
         r.phase # "peer" => status' = "running",
         status' \in Status, UNCHANGED disk,
         UNCHANGED <<remote, sessions, recovery, queueing, crashes>>
  PROVE  IInv'
<1>1. UNCHANGED <<remote, record, stray, journal, staged, recovery, job, queue, crashes>>
  BY DEF sessions, queueing, disk
<1>2. r # None
  BY NotNone
<1>3. TypeOK'
  BY <1>1 DEF IInv, TypeOK
<1>4. Queued'
  BY <1>1, <1>2 DEF IInv, Queued, Queueing
<1>5. JobsSound'
  BY <1>1 DEF IInv, JobsSound, Sound
<1>6. GoalKept'
  BY <1>1 DEF GoalKept, Keeps, Covered, Queueing
<1>7. QED BY <1>3, <1>4, <1>5, <1>6 DEF IInv

(* The run goes on and asks for the queue, not to apply a batch.           *)
LEMMA AskMove ==
  ASSUME IInv, run # None, run.phase \notin Queueing \cup {"peer"},
         NEW r \in RunState, r.phase \in {"export", "exportChunk"}, Keeps(r),
         Goto(r), Ask("run"),
         UNCHANGED <<remote, sessions, recovery, job, crashes>>
  PROVE  IInv'
<1>1. UNCHANGED <<remote, record, stray, journal, staged, status, recovery, job, crashes>> /\ run' = r
  BY DEF sessions, Goto, disk
<1>2. r # None
  BY NotNone
<1>3. queue["run"] = "out" /\ job["run"] = None
  BY DEF IInv, Queued, Queueing
<1>4. /\ QueueOK' /\ queue'["run"] # "out"
      /\ queue'["recovery"] = queue["recovery"]
  BY <1>3, QueueIs, AskQueue DEF IInv, Client
<1>5. Queued'
  BY <1>1, <1>2, <1>3, <1>4 DEF IInv, Queued, Queueing
<1>6. TypeOK'
  BY <1>1, <1>4, <1>5 DEF IInv, TypeOK, QueueOK, Queued, Client
<1>7. JobsSound'
  BY <1>1, <1>3, <1>4 DEF IInv, JobsSound, Sound, Client
<1>8. GoalKept'
  BY <1>1 DEF IInv, GoalKept, Keeps, Covered, Early, Queueing
<1>9. QED BY <1>5, <1>6, <1>7, <1>8 DEF IInv

(* The run asks for the queue, once or once more, to apply its chunk.      *)
LEMMA ApplyMove ==
  ASSUME IInv, run # None, run.phase # "peer",
         NEW r \in RunState, r.phase = "apply", Keeps(r),
         Goto(r), job' = [job EXCEPT !["run"] = Asked(r.chunk)],
         \/ queue["run"] = "out" /\ Ask("run")
         \/ queue["run"] = "holds" /\ AskAgain("run"),
         UNCHANGED <<remote, sessions, recovery, crashes>>
  PROVE  IInv'
<1>1. UNCHANGED <<remote, record, stray, journal, staged, status, recovery, crashes>> /\ run' = r
  BY DEF sessions, Goto, disk
<1>2. r # None /\ r.chunk \in Batch
  BY NotNone, RunFields
<1>3. /\ QueueOK' /\ queue'["run"] # "out"
      /\ queue'["recovery"] = "out" <=> queue["recovery"] = "out"
      /\ queue["recovery"] = "holds" => queue'["recovery"] = "holds"
  BY QueueIs, AskQueue, AskAgainQueue DEF IInv, Client
<1>4. /\ job' \in [Client -> Job \cup {None}] /\ job'["run"] = Asked(r.chunk)
      /\ job'["recovery"] = job["recovery"]
  BY <1>2, AskedType DEF IInv, TypeOK, Client
<1>5. Queued'
  BY <1>1, <1>2, <1>3, <1>4, AskedType DEF IInv, Queued, Queueing
<1>6. TypeOK'
  BY <1>1, <1>3, <1>4, <1>5 DEF IInv, TypeOK, QueueOK, Queued, Client
<1>7. JobsSound'
  <2>1. Sound("run")'
    BY <1>2, <1>4, AskedType DEF Sound
  <2>2. job["recovery"] # None => Sound("recovery")'
    BY <1>1, <1>3, <1>4 DEF IInv, JobsSound, Sound, Client
  <2>3. QED BY <1>4, <2>1, <2>2 DEF JobsSound, Client
<1>8. GoalKept'
  BY <1>1, <1>2, <1>4, AskedType DEF IInv, GoalKept, Keeps, Covered
<1>9. QED BY <1>5, <1>6, <1>7, <1>8 DEF IInv

(* The run leaves the queue without an application: it ends, or goes on.   *)
LEMMA LeaveMove ==
  ASSUME IInv, run # None, run.phase \in Queueing,
         NEW r \in RunState \cup {None}, run' = r,
         r # None => r.phase \notin Queueing /\ Keeps(r) /\ status' = "running",
         status' \in Status, journal' \subseteq Batch, staged' \subseteq Batch,
         job' = [job EXCEPT !["run"] = None], Leave("run"),
         UNCHANGED <<remote, sessions, recovery, crashes>>
  PROVE  IInv'
<1>1. UNCHANGED <<remote, record, stray, recovery, crashes>>
  BY DEF sessions
<1>2. /\ QueueOK' /\ queue'["run"] = "out"
      /\ queue'["recovery"] = "out" <=> queue["recovery"] = "out"
      /\ queue["recovery"] = "holds" => queue'["recovery"] = "holds"
  BY QueueIs, LeaveQueue DEF IInv, Client
<1>3. /\ job' \in [Client -> Job \cup {None}] /\ job'["run"] = None
      /\ job'["recovery"] = job["recovery"]
  BY DEF IInv, TypeOK, Client
<1>4. Queued'
  BY <1>1, <1>2, <1>3 DEF IInv, Queued, Queueing
<1>5. TypeOK'
  BY <1>1, <1>2, <1>3, <1>4 DEF IInv, TypeOK, QueueOK, Queued, Client
<1>6. JobsSound'
  <2>1. job["recovery"] # None => Sound("recovery")'
    BY <1>1, <1>2, <1>3 DEF IInv, JobsSound, Sound, Client
  <2>2. QED BY <1>3, <2>1 DEF JobsSound, Client
<1>7. GoalKept'
  BY <1>1 DEF GoalKept, Keeps, Covered, Queueing
<1>8. QED BY <1>4, <1>5, <1>6, <1>7 DEF IInv

-----------------------------------------------------------------------------
(* Steps of the run *)

LEMMA Phases ==
  /\ Transport \cup Early \cup Queueing \cup Between \subseteq Phase
  /\ Transport \cap Queueing = {} /\ "peer" \notin Transport
BY DEF Phase, Transport, Early, Queueing, Between

LEMMA RunIs ==
  ASSUME IInv, run # None
  PROVE  run \in RunState /\ Keeps(run) /\ (run.phase # "peer" => status = "running")
BY DEF IInv, TypeOK, GoalKept

(* A phase that follows another and finds the same to do.                  *)
LEMMA AtKeeps ==
  ASSUME IInv, run # None, NEW p \in Phase,
         \/ run.phase \in Early /\ p \in Early
         \/ run.phase \in Between /\ p \in Between
         \/ /\ run.phase \notin Early \cup {"export"}
            /\ p \notin Early \cup Between \cup {"export"}
  PROVE  Keeps(At(p))
<1>1. Keeps(run)
  BY RunIs
<1>2. /\ At(p).phase = p
      /\ At(p).goal = run.goal /\ At(p).plan = run.plan /\ At(p).chunk = run.chunk
  BY AtType DEF IInv
<1>3. QED BY <1>1, <1>2 DEF Keeps, Covered, Early, Between

(* On to a phase with the same to do, or the end of a run that was stopped. *)
LEMMA UnlessMove ==
  ASSUME IInv, run # None, run.phase \notin Queueing \cup {"peer"},
         NEW r \in RunState, r.phase \notin Queueing, Keeps(r),
         Unless(r) \/ Goto(r) \/ Fail \/ Succeed,
         UNCHANGED <<remote, sessions, recovery, queueing, crashes>>
  PROVE  IInv'
<1>1. CASE Goto(r)
  BY <1>1, RunIs, QuietMove DEF Goto, Status
<1>2. CASE EndStopped \/ Fail \/ Succeed
  BY <1>2, QuietEnd
<1>3. QED BY <1>1, <1>2 DEF Unless

LEMMA StartRun ==
  ASSUME IInv, Run
  PROVE  IInv'
<1> DEFINE r == [phase |-> "peer", try |-> "first", aborted |-> FALSE, goal |-> Nothing,
                 plan |-> Nothing, chunk |-> Nothing, full |-> FALSE, pushes |-> 0]
<1>1. r \in RunState
  BY Phases, NothingBatch, BoundAssumption DEF RunState, Early
<1>2. Keeps(r)
  BY NothingBatch DEF Keeps, Early
<1>3. run' = r /\ run = None /\ UNCHANGED <<remote, sessions, disk, status, recovery, queueing, crashes>>
  BY DEF Run
<1>4. r.phase = "peer" /\ status \in Status
  BY DEF IInv, TypeOK
<1>5. QED BY <1>1, <1>2, <1>3, <1>4, QuietMove DEF Queueing

(* A stop does not disturb what the run is about.                          *)
LEMMA StopRun ==
  ASSUME IInv, Stop
  PROVE  IInv'
<1>1. /\ run # None /\ run' = [run EXCEPT !.aborted = TRUE]
      /\ UNCHANGED <<remote, record, stray, journal, staged, status, recovery, job, queue, crashes>>
  BY DEF Stop, sessions, disk, queueing
<1>2. /\ run' \in RunState /\ run' # None
      /\ run'.phase = run.phase /\ run'.goal = run.goal
      /\ run'.plan = run.plan /\ run'.chunk = run.chunk
  BY <1>1, RunIs, NotNone DEF RunState
<1>3. TypeOK'
  BY <1>1, <1>2 DEF IInv, TypeOK
<1>4. Queued'
  BY <1>1, <1>2 DEF IInv, Queued
<1>5. JobsSound'
  BY <1>1 DEF IInv, JobsSound, Sound
<1>6. GoalKept'
  BY <1>1, <1>2 DEF IInv, GoalKept, Keeps, Covered
<1>7. QED BY <1>3, <1>4, <1>5, <1>6 DEF IInv

(* The phases before sessions, where there is nothing to lose yet.         *)
LEMMA EarlySteps ==
  ASSUME IInv, ReadPeer \/ ExchangeNodes \/ NodesAnswered \/ NodesPushed
  PROVE  IInv'
<1>1. /\ run # None /\ run.phase \in Early \ {"manifest"}
      /\ UNCHANGED <<remote, sessions, recovery, queueing, crashes>>
  BY DEF ReadPeer, ExchangeNodes, NodesAnswered, NodesPushed, Answered, Early
<1>2. \A p \in Early : At(p) \in RunState /\ At(p).phase = p /\ Keeps(At(p))
  BY <1>1, AtType, AtKeeps, Phases DEF IInv
<1>3. CASE ReadPeer
  <2>1. CASE run' = None /\ UNCHANGED status
    BY <1>1, <1>3, <2>1, QuietEnd DEF ReadPeer, Early, Queueing
  <2>2. CASE run' = At("nodeManifest") /\ status' = "running"
    BY <1>1, <1>2, <1>3, <2>2, QuietMove DEF ReadPeer, Early, Queueing, Status
  <2>3. QED BY <1>3, <2>1, <2>2 DEF ReadPeer
<1>4. CASE ExchangeNodes \/ NodesAnswered \/ NodesPushed
  <2>1. run.phase \notin Queueing \cup {"peer"}
    BY <1>1, <1>4 DEF ExchangeNodes, NodesAnswered, NodesPushed, Answered, Queueing
  <2>2. PICK p \in Early : Unless(At(p)) \/ Goto(At(p)) \/ Fail \/ Succeed
    BY <1>4 DEF ExchangeNodes, NodesAnswered, NodesPushed, Early
  <2>3. p \notin Queueing
    BY DEF Early, Queueing
  <2>4. QED BY <1>1, <1>2, <2>1, <2>2, <2>3, UnlessMove
<1>5. QED BY <1>3, <1>4

(* retryTransport(): another attempt has the same to do.                   *)
LEMMA RetrySteps ==
  ASSUME IInv, FirstFails \/ TryAgain \/ SecondFails
  PROVE  IInv'
<1>1. /\ run # None /\ run.phase \in Transport
      /\ UNCHANGED <<remote, sessions, recovery, queueing, crashes>>
  BY DEF FirstFails, TryAgain, SecondFails, InTransport
<1>2. PICK t \in {"delay", "second"} : Unless([run EXCEPT !.try = t]) \/ Fail
  BY DEF FirstFails, TryAgain, SecondFails
<1> DEFINE r == [run EXCEPT !.try = t]
<1>3. /\ r \in RunState
      /\ r.phase = run.phase /\ r.goal = run.goal /\ r.plan = run.plan /\ r.chunk = run.chunk
  BY <1>1, RunIs DEF RunState
<1>4. Keeps(r)
  BY <1>1, <1>3, RunIs DEF Keeps, Covered
<1>5. QED BY <1>1, <1>2, <1>3, <1>4, Phases, UnlessMove

(* The goal is set from the manifest, and when local sessions are exported *)
(* it is narrowed to what is newer than the record.                        *)
LEMMA Manifest ==
  ASSUME IInv, ManifestAnswered
  PROVE  IInv'
<1>1. /\ run # None /\ run.phase = "manifest"
      /\ UNCHANGED <<remote, sessions, recovery, job, crashes>>
  BY DEF ManifestAnswered, Answered
<1> DEFINE r == [At("export") EXCEPT !.goal = remote]
<1>2. CASE Goto(r) /\ Ask("run")
  <2>1. remote \in Batch
    BY StoreIs DEF IInv, TypeOK
  <2>2. /\ At("export") \in RunState /\ At("export").phase = "export"
        /\ At("export").chunk = run.chunk
    BY <1>1, AtType, Phases DEF IInv, Queueing
  <2>3. r \in RunState /\ r.phase = "export" /\ r.chunk = run.chunk
    BY <2>1, <2>2 DEF RunState
  <2>4. Keeps(r)
    BY <1>1, <2>3, RunIs DEF Keeps, Early
  <2>5. QED BY <1>1, <1>2, <2>3, <2>4, AskMove DEF Queueing
<1>3. CASE (EndStopped \/ Fail) /\ UNCHANGED queue
  BY <1>1, <1>3, QuietEnd DEF Queueing, queueing
<1>4. QED BY <1>2, <1>3 DEF ManifestAnswered

LEMMA Export ==
  ASSUME IInv, ExportManifest
  PROVE  IInv'
<1> DEFINE S == {x \in DOMAIN run.goal : run.goal[x] > record[x]}
           newer == [e \in S |-> run.goal[e]]
           pull == [At("chunks") EXCEPT !.goal = newer, !.plan = newer]
           here == [At("apply") EXCEPT !.goal = newer, !.chunk = newer, !.full = TRUE]
<1>1. /\ run # None /\ run.phase = "export" /\ queue["run"] = "holds"
      /\ UNCHANGED <<remote, sessions, recovery, crashes>>
  BY DEF ExportManifest
<1>2. job["run"] = None /\ job = [job EXCEPT !["run"] = None]
  BY <1>1 DEF IInv, Queued, TypeOK, Client
<1>3. newer \in Batch
  BY <1>1, RunIs, RunFields, PartBatch
<1>4. CASE Goto(pull) /\ Leave("run") /\ UNCHANGED job
  <2>1. /\ At("chunks") \in RunState /\ At("chunks").phase = "chunks"
        /\ At("chunks").chunk = run.chunk
    BY <1>1, AtType, Phases DEF IInv, Between
  <2>2. /\ pull \in RunState /\ pull.phase = "chunks" /\ pull.goal = newer
        /\ pull.plan = newer /\ pull.chunk = run.chunk
    BY <1>3, <2>1 DEF RunState
  <2>3. Keeps(pull)
    BY <1>1, <2>2, RunIs DEF Keeps, Covered, Early
  <2>4. run' = pull /\ status' = "running" /\ UNCHANGED disk
    BY <1>1, <1>4, RunIs DEF Goto
  <2>5. QED
    BY <1>1, <1>2, <1>4, <2>2, <2>3, <2>4, LeaveMove DEF Queueing, Status, IInv, TypeOK, disk
<1>5. CASE Goto(here) /\ job' = [job EXCEPT !["run"] = Asked(newer)] /\ AskAgain("run")
  <2>1. At("apply") \in RunState /\ At("apply").phase = "apply"
    BY <1>1, AtType, Phases DEF IInv, Queueing
  <2>2. /\ here \in RunState /\ here.phase = "apply" /\ here.goal = newer /\ here.chunk = newer
    BY <1>3, <2>1 DEF RunState
  <2>3. Keeps(here)
    BY <2>2 DEF Keeps, Covered, Early, Between
  <2>4. QED BY <1>1, <1>5, <2>2, <2>3, ApplyMove
<1>6. CASE Fail /\ Leave("run") /\ UNCHANGED job
  BY <1>1, <1>2, <1>6, LeaveMove DEF Fail, Queueing, Status, IInv, TypeOK, disk
<1>7. QED BY <1>4, <1>5, <1>6 DEF ExportManifest

(* A chunk is taken from the plan, and none was under way.                 *)
LEMMA Pull ==
  ASSUME IInv, PullChunk
  PROVE  IInv'
<1>1. /\ run # None /\ run.phase = "chunks"
      /\ UNCHANGED <<remote, sessions, recovery, queueing, crashes>>
  BY DEF PullChunk
<1>2. PICK S \in SUBSET DOMAIN run.plan :
        Unless([At("fetch") EXCEPT !.chunk = [e \in S |-> run.plan[e]], !.full = FALSE,
                                   !.plan = [e \in DOMAIN run.plan \ S |-> run.plan[e]]])
  BY DEF PullChunk
<1> DEFINE chunk == [e \in S |-> run.plan[e]]
           rest == [e \in DOMAIN run.plan \ S |-> run.plan[e]]
           r == [At("fetch") EXCEPT !.chunk = chunk, !.full = FALSE, !.plan = rest]
<1>3. chunk \in Batch /\ rest \in Batch
  <2>1. run.plan \in Batch
    BY <1>1, RunIs, RunFields
  <2>2. DOMAIN run.plan \ S \in SUBSET DOMAIN run.plan
    OBVIOUS
  <2>3. QED BY <2>1, <2>2, PartBatch
<1>4. /\ At("fetch") \in RunState /\ At("fetch").phase = "fetch" /\ At("fetch").goal = run.goal
  BY <1>1, AtType, Phases DEF IInv, Transport
<1>5. /\ r \in RunState /\ r.phase = "fetch" /\ r.goal = run.goal
      /\ r.chunk = chunk /\ r.plan = rest
  BY <1>3, <1>4 DEF RunState
<1>6. Keeps(r)
  <2>1. \A e \in DOMAIN run.goal : Covered(run, e) /\ e \notin DOMAIN run.chunk
    BY <1>1, RunIs DEF Keeps, Early, Between
  <2>2. \A e \in DOMAIN run.goal : Covered(r, e)
    BY <1>5, <2>1 DEF Covered
  <2>3. QED BY <1>5, <2>2 DEF Keeps, Early, Between
<1>7. QED BY <1>1, <1>2, <1>5, <1>6, UnlessMove DEF Queueing

(* From a fetched chunk to its application, the chunk stays the same.      *)
LEMMA FetchSteps ==
  ASSUME IInv, ChunkFetched \/ ObjectsFetched \/ ChunkRefetched
  PROVE  IInv'
<1>1. /\ run # None /\ run.phase \in {"fetch", "objects", "refetch"}
      /\ UNCHANGED <<remote, sessions, recovery, crashes>>
  BY DEF ChunkFetched, ObjectsFetched, ChunkRefetched, Answered
<1>2. run.phase \notin Queueing \cup Early \cup Between
  BY <1>1 DEF Queueing, Early, Between
<1>3. queue["run"] = "out"
  BY <1>2 DEF IInv, Queued
<1>4. \A p \in {"objects", "apply"} :
        At(p) \in RunState /\ At(p).phase = p /\ At(p).chunk = run.chunk /\ Keeps(At(p))
  <2>1. \A p \in {"objects", "apply"} : p \in Phase
    BY DEF Phase, Transport
  <2>2. QED
    BY <1>1, <1>2, <2>1, AtType, AtKeeps DEF IInv, Queueing, Early, Between
<1>5. CASE StartApply
  BY <1>1, <1>2, <1>3, <1>4, <1>5, ApplyMove DEF StartApply, Early
<1>6. CASE (EndStopped \/ Fail \/ Goto(At("objects"))) /\ UNCHANGED queueing
  BY <1>1, <1>2, <1>4, <1>6, QuietEnd, UnlessMove DEF Early, Queueing
<1>7. QED BY <1>5, <1>6 DEF ChunkFetched, ObjectsFetched, ChunkRefetched

(* While chunks are pushed, nothing is under way from the peer.            *)
LEMMA BetweenAt ==
  ASSUME IInv, run # None, run.phase \in Between, NEW p \in Between
  PROVE  /\ At(p) \in RunState /\ At(p).phase = p /\ Keeps(At(p))
         /\ run.phase \notin Early \cup {"apply", "export"}
BY AtType, AtKeeps, Phases DEF IInv, Between, Early

LEMMA Push ==
  ASSUME IInv, PushChunk
  PROVE  IInv'
<1>1. /\ run # None /\ run.phase = "chunks" /\ run.pushes < MaxPushes
      /\ UNCHANGED <<remote, sessions, recovery, job, crashes>>
  BY DEF PushChunk
<1> DEFINE a == At("exportChunk")
           r == [a EXCEPT !.pushes = @ + 1]
<1>2. a \in RunState /\ a.phase = "exportChunk" /\ Keeps(a)
  BY <1>1, BetweenAt DEF Between
<1>3. run.pushes \in 0 .. MaxPushes /\ a.pushes = run.pushes /\ MaxPushes \in Nat
  BY <1>1, RunIs, RunFields, BoundAssumption DEF At, RunState
<1>4. a.pushes + 1 \in 0 .. MaxPushes
  BY <1>1, <1>3
<1>5. /\ r \in RunState /\ r.phase = "exportChunk" /\ r.goal = a.goal
      /\ r.plan = a.plan /\ r.chunk = a.chunk
  BY <1>2, <1>4 DEF RunState
<1>6. Keeps(r)
  BY <1>2, <1>5 DEF Keeps, Covered
<1>7. CASE run.aborted
  BY <1>1, <1>7, QuietEnd DEF PushChunk, Unless, Queueing, queueing
<1>8. CASE ~run.aborted
  BY <1>1, <1>5, <1>6, <1>8, AskMove DEF PushChunk, Unless, Queueing
<1>9. QED BY <1>7, <1>8

LEMMA ExportedChunk ==
  ASSUME IInv, ExportChunk
  PROVE  IInv'
<1>1. /\ run # None /\ run.phase = "exportChunk" /\ Leave("run")
      /\ UNCHANGED <<remote, sessions, recovery, job, crashes>>
  BY DEF ExportChunk
<1>2. job["run"] = None /\ job = [job EXCEPT !["run"] = None]
  BY <1>1 DEF IInv, Queued, TypeOK, Client
<1>3. \A p \in {"push", "pushObjects"} :
        At(p) \in RunState /\ At(p).phase = p /\ Keeps(At(p))
  BY <1>1, BetweenAt DEF Between
<1>4. CASE \E p \in {"push", "pushObjects"} : Goto(At(p))
  BY <1>1, <1>2, <1>3, <1>4, RunIs, LeaveMove DEF Goto, Queueing, Status, IInv, TypeOK, disk
<1>5. CASE EndStopped \/ Fail
  BY <1>1, <1>2, <1>5, LeaveMove DEF EndStopped, Fail, Queueing, Status, IInv, TypeOK, disk
<1>6. QED BY <1>4, <1>5 DEF ExportChunk, Unless

LEMMA PushSteps ==
  ASSUME IInv, ObjectsPushed \/ ChunkPushed \/ Finish
  PROVE  IInv'
<1>1. /\ run # None /\ run.phase \in Between \ {"exportChunk"}
      /\ UNCHANGED <<remote, sessions, recovery, job, crashes>>
  BY DEF ObjectsPushed, ChunkPushed, Finish, Answered, Between, queueing
<1>2. run.phase \notin Queueing \cup {"peer"}
  BY <1>1 DEF Between, Queueing
<1>3. \A p \in Between : At(p) \in RunState /\ At(p).phase = p /\ Keeps(At(p))
  BY <1>1, BetweenAt
<1>4. CASE ObjectsPushed
  BY <1>1, <1>2, <1>3, <1>4, UnlessMove DEF ObjectsPushed, Between, Queueing
<1>5. CASE Finish
  BY <1>2, <1>5, QuietEnd DEF Finish
<1>6. CASE Goto(NextChunk) /\ UNCHANGED queue
  <2>1. NextChunk \in RunState /\ NextChunk.phase = "chunks" /\ Keeps(NextChunk)
    <3> DEFINE a == At("chunks")
    <3>1. a \in RunState /\ a.phase = "chunks" /\ Keeps(a)
      BY <1>3 DEF Between
    <3>2. /\ NextChunk \in RunState /\ NextChunk.phase = a.phase /\ NextChunk.goal = a.goal
          /\ NextChunk.plan = a.plan /\ NextChunk.chunk = Nothing
      BY <3>1, NothingBatch DEF NextChunk, RunState
    <3>3. QED BY <3>1, <3>2, NothingBatch DEF Keeps, Covered, Early, Between
  <2>2. QED BY <1>1, <1>2, <1>6, <2>1, UnlessMove DEF Queueing, queueing
<1>7. CASE Goto([At("exportChunk") EXCEPT !.full = TRUE]) /\ Ask("run")
  <2> DEFINE a == At("exportChunk")
             r == [a EXCEPT !.full = TRUE]
  <2>1. a \in RunState /\ a.phase = "exportChunk" /\ Keeps(a)
    BY <1>3 DEF Between
  <2>2. /\ r \in RunState /\ r.phase = a.phase /\ r.goal = a.goal
        /\ r.plan = a.plan /\ r.chunk = a.chunk
    BY <2>1 DEF RunState
  <2>3. Keeps(r)
    BY <2>1, <2>2 DEF Keeps, Covered
  <2>4. QED BY <1>1, <1>2, <1>7, <2>1, <2>2, <2>3, AskMove
<1>8. QED BY <1>4, <1>5, <1>6, <1>7 DEF ChunkPushed

(* The chunk is fetched again: nothing of it was dropped.                  *)
LEMMA FullNeeded ==
  ASSUME IInv, NeedsFull
  PROVE  IInv'
<1>1. /\ job["run"] # None /\ Leave("run") /\ job' = [job EXCEPT !["run"] = None]
      /\ UNCHANGED <<remote, sessions, recovery, crashes>>
  BY DEF NeedsFull, Working
<1>2. run # None /\ run.phase = "apply"
  BY <1>1 DEF IInv, Queued
<1> DEFINE a == At("refetch")
           r == [a EXCEPT !.full = TRUE]
<1>3. "refetch" \in Phase /\ "refetch" \notin Early \cup Between \cup Queueing
  BY DEF Phase, Transport, Early, Between, Queueing
<1>4. a \in RunState /\ a.phase = "refetch" /\ Keeps(a)
  BY <1>2, <1>3, AtType, AtKeeps DEF IInv, Early, Between, Queueing
<1>5. /\ r \in RunState /\ r.phase = a.phase /\ r.goal = a.goal
      /\ r.plan = a.plan /\ r.chunk = a.chunk
  BY <1>4 DEF RunState
<1>6. Keeps(r)
  BY <1>4, <1>5 DEF Keeps, Covered
<1>7. CASE EndStopped
  BY <1>1, <1>2, <1>7, LeaveMove DEF EndStopped, Queueing, Status, IInv, TypeOK
<1>8. CASE Goto(r)
  BY <1>1, <1>2, <1>3, <1>4, <1>5, <1>6, <1>8, RunIs, LeaveMove
     DEF Goto, Queueing, Status, IInv, TypeOK, disk
<1>9. QED BY <1>7, <1>8 DEF NeedsFull, Unless

LEMMA RunSteps ==
  ASSUME IInv, RunStep
  PROVE  IInv'
BY EarlySteps, RetrySteps, Manifest, Export, Pull, FetchSteps, Push, ExportedChunk, PushSteps,
   FullNeeded DEF RunStep

-----------------------------------------------------------------------------
(* Steps of an application *)

LEMMA JobIs ==
  ASSUME IInv, NEW c \in Client, job[c] # None
  PROVE  /\ job[c] \in Job /\ job[c].batch \in Batch /\ job[c].begun \in BOOLEAN
         /\ job[c].left \subseteq Entry /\ job[c].half \in Entry \cup {None}
         /\ Sound(c)
BY DEF IInv, TypeOK, JobsSound, Job

LEMMA RecordIs ==
  ASSUME IInv
  PROVE  \A e \in Entry : record[e] \in Nat
BY StoreIs DEF IInv, TypeOK

(* The application of client c goes on: it is in the queue as before, and  *)
(* no record becomes older.                                                *)
LEMMA JobMove ==
  ASSUME IInv, NEW c \in Client, job[c] # None, NEW j \in Job,
         job' = [job EXCEPT ![c] = j], j.batch = job[c].batch, Sound(c)',
         stray' \subseteq Entry \X Version,
         journal' \subseteq Batch, staged' \subseteq Batch,
         record' \in Versions(Entry),
         \A e \in Entry : record'[e] >= record[e],
         UNCHANGED record \/ queue[c] = "holds",
         UNCHANGED <<remote, progress, recovery, queue, crashes>>
  PROVE  IInv'
<1>1. UNCHANGED <<remote, run, status, recovery, queue, crashes>>
  BY DEF progress
<1>2. /\ job' \in [Client -> Job \cup {None}] /\ job'[c] = j /\ j # None
      /\ \A d \in Client \ {c} : job'[d] = job[d]
  BY NotNone DEF IInv, TypeOK
<1>3. Queued'
  BY <1>1, <1>2 DEF IInv, Queued, Client
<1>4. TypeOK'
  BY <1>1, <1>2, <1>3 DEF IInv, TypeOK, Queued, Client
<1>5. \A e \in Entry : record[e] \in Nat /\ record'[e] \in Nat
  BY RecordIs, StoreIs
<1>6. JobsSound'
  <2>1. ASSUME NEW d \in Client \ {c}, job[d] # None
        PROVE  Sound(d)'
    <3>1. /\ Sound(d) /\ job[d].batch \in Batch /\ job'[d] = job[d] /\ queue' = queue
      BY <1>1, <1>2, <2>1, JobIs
    <3>2. \A e \in DOMAIN job[d].batch : job[d].batch[e] \in Nat /\ e \in Entry
      BY <3>1, BatchIs
    <3>3. \A e \in DOMAIN job[d].batch \ job[d].left : record'[e] >= job[d].batch[e]
      BY <1>5, <3>1, <3>2 DEF Sound
    <3>4. CASE UNCHANGED record
      BY <3>1, <3>4 DEF Sound
    <3>5. CASE queue[c] = "holds"
      <4>1. d = Other(c) /\ c = Other(d)
        BY <2>1 DEF Client, Other
      <4>2. queue[d] # "holds"
        BY <3>5, <4>1 DEF IInv, TypeOK
      <4>3. QED BY <3>1, <3>3, <4>2 DEF Sound
    <3>6. QED BY <3>4, <3>5
  <2>2. QED BY <1>2, <2>1 DEF JobsSound
<1>7. GoalKept'
  <2>1. SUFFICES ASSUME run # None
                 PROVE  GoalKept'
    BY <1>1 DEF GoalKept
  <2>2. \A e \in DOMAIN run.goal : e \in Entry /\ run.goal[e] \in Nat
    BY <2>1, RunIs, RunFields, BatchIs
  <2>3. \A e \in DOMAIN run.goal : Covered(run, e) => Covered(run, e)'
    BY <1>1, <1>5, <2>2 DEF Covered
  <2>4. Keeps(run)'
    BY <1>1, <2>1, <2>3, RunIs DEF Keeps
  <2>5. run.phase = "apply" => job'["run"].batch = run.chunk
    BY <1>2, <2>1 DEF IInv, GoalKept, Client
  <2>6. QED BY <1>1, <2>4, <2>5 DEF IInv, GoalKept
<1>8. QED BY <1>3, <1>4, <1>6, <1>7 DEF IInv

LEMMA Begin ==
  ASSUME IInv, NEW c \in Client, BeginApply(c)
  PROVE  IInv'
<1> DEFINE j == [job[c] EXCEPT !.begun = TRUE]
<1>1. /\ job[c] # None /\ job' = [job EXCEPT ![c] = j]
      /\ UNCHANGED <<remote, record, stray, progress, recovery, queue, crashes>>
  BY DEF BeginApply, Working, sessions
<1>2. /\ j \in Job /\ j.batch = job[c].batch /\ j.left = job[c].left
      /\ j.half = job[c].half /\ j.begun
  BY <1>1, JobIs DEF Job
<1>3. /\ journal' \subseteq Batch /\ staged' \subseteq Batch
  BY <1>1, JobIs DEF BeginApply, IInv, TypeOK, disk
<1>4. job'[c] = j
  BY <1>1 DEF IInv, TypeOK
<1>5. Sound(c)'
  BY <1>1, <1>2, <1>4, JobIs DEF Sound
<1>6. \A e \in Entry : record'[e] >= record[e]
  BY <1>1, RecordIs
<1>7. QED BY <1>1, <1>2, <1>3, <1>5, <1>6, JobMove DEF IInv, TypeOK

LEMMA Skip ==
  ASSUME IInv, NEW c \in Client, NEW e \in Entry, SkipEntry(c, e)
  PROVE  IInv'
<1> DEFINE j == [job[c] EXCEPT !.left = @ \ {e}]
<1>1. /\ job[c] # None /\ job' = [job EXCEPT ![c] = j]
      /\ job[c].half = None /\ e \in job[c].left
      /\ ~(job[c].batch[e] > record[e])
      /\ UNCHANGED <<remote, record, stray, journal, staged, progress, recovery, queue, crashes>>
  BY DEF SkipEntry, Begun, Working, NewerThanRecord, sessions, disk
<1>2. /\ j \in Job /\ j.batch = job[c].batch /\ j.left = job[c].left \ {e}
      /\ j.half = job[c].half
  BY <1>1, JobIs DEF Job
<1>3. job'[c] = j
  BY <1>1 DEF IInv, TypeOK
<1>4. record[e] >= job[c].batch[e]
  <2>1. e \in DOMAIN job[c].batch /\ job[c].batch \in Batch
    BY <1>1, JobIs DEF Sound
  <2>2. QED BY <1>1, <2>1, BatchIs, RecordIs
<1>5. Sound(c)'
  BY <1>1, <1>2, <1>3, <1>4, JobIs DEF Sound
<1>6. \A x \in Entry : record'[x] >= record[x]
  BY <1>1, RecordIs
<1>7. QED BY <1>1, <1>2, <1>5, <1>6, JobMove DEF IInv, TypeOK

LEMMA Write ==
  ASSUME IInv, NEW c \in Client, NEW e \in Entry, WriteLog(c, e)
  PROVE  IInv'
<1> DEFINE j == [job[c] EXCEPT !.half = e]
<1>1. /\ job[c] # None /\ job' = [job EXCEPT ![c] = j]
      /\ job[c].begun /\ queue[c] = "holds"
      /\ e \in job[c].left /\ job[c].batch[e] > record[e]
      /\ stray' = stray \cup {<<e, job[c].batch[e]>>}
      /\ UNCHANGED <<remote, record, journal, staged, progress, recovery, queue, crashes>>
  BY DEF WriteLog, Begun, Working, NewerThanRecord, disk
<1>2. /\ j \in Job /\ j.batch = job[c].batch /\ j.left = job[c].left
      /\ j.half = e /\ j.begun
  BY <1>1, JobIs DEF Job
<1>3. job'[c] = j
  BY <1>1 DEF IInv, TypeOK
<1>4. Sound(c)'
  BY <1>1, <1>2, <1>3, JobIs DEF Sound
<1>5. stray' \subseteq Entry \X Version
  <2>1. e \in DOMAIN job[c].batch /\ job[c].batch \in Batch
    BY <1>1, JobIs DEF Sound
  <2>2. job[c].batch[e] \in Version
    BY <2>1, BatchIs
  <2>3. QED BY <1>1, <2>2 DEF IInv, TypeOK
<1>6. \A x \in Entry : record'[x] >= record[x]
  BY <1>1, RecordIs
<1>7. QED BY <1>1, <1>2, <1>4, <1>5, <1>6, JobMove DEF IInv, TypeOK

(* What is recorded is newer than the record it replaces.                  *)
LEMMA Recorded ==
  ASSUME IInv, NEW c \in Client, RecordEntry(c)
  PROVE  /\ record' \in Versions(Entry)
         /\ \A e \in Entry : record'[e] >= record[e]
         /\ record'[job[c].half] = job[c].batch[job[c].half]
<1> DEFINE e == job[c].half
<1>1. job[c] # None /\ e # None /\ record' = [record EXCEPT ![e] = job[c].batch[e]]
  BY DEF RecordEntry, Begun, Working
<1>2. /\ e \in Entry /\ e \in DOMAIN job[c].batch /\ job[c].batch \in Batch
      /\ job[c].batch[e] > record[e]
  BY <1>1, JobIs DEF Sound
<1>3. job[c].batch[e] \in Version /\ job[c].batch[e] <= MaxVersion[e] /\ job[c].batch[e] \in Nat
  BY <1>2, BatchIs
<1>4. record \in Versions(Entry) /\ DOMAIN record = Entry
  BY StoreIs DEF IInv, TypeOK
<1>5. record' \in Versions(Entry)
  BY <1>1, <1>2, <1>3, <1>4, StoreExcept
<1>6. QED BY <1>1, <1>2, <1>3, <1>4, <1>5, RecordIs

LEMMA Record ==
  ASSUME IInv, NEW c \in Client, RecordEntry(c)
  PROVE  IInv'
<1> DEFINE e == job[c].half
           j == [job[c] EXCEPT !.half = None, !.left = @ \ {e}]
<1>1. /\ job[c] # None /\ job' = [job EXCEPT ![c] = j]
      /\ queue[c] = "holds" /\ e # None
      /\ stray' = stray \ {<<e, job[c].batch[e]>>}
      /\ UNCHANGED <<remote, journal, staged, progress, recovery, queue, crashes>>
  BY DEF RecordEntry, Begun, Working, disk
<1>2. /\ j \in Job /\ j.batch = job[c].batch /\ j.left = job[c].left \ {e}
      /\ j.half = None
  BY <1>1, JobIs DEF Job
<1>3. job'[c] = j
  BY <1>1 DEF IInv, TypeOK
<1>4. \A x \in DOMAIN j.batch \ j.left : record'[x] >= j.batch[x]
  <2>1. ASSUME NEW x \in DOMAIN j.batch \ j.left
        PROVE  record'[x] >= j.batch[x]
    <3>1. job[c].batch \in Batch /\ Sound(c)
      BY <1>1, JobIs
    <3>2. x \in Entry /\ job[c].batch[x] \in Nat
      BY <1>2, <2>1, <3>1, BatchIs
    <3>3. record[x] \in Nat /\ record'[x] \in Nat /\ record'[x] >= record[x]
      BY <3>2, Recorded, RecordIs, StoreIs
    <3>4. CASE x = e
      BY <1>2, <3>2, <3>4, Recorded
    <3>5. CASE x # e
      BY <1>2, <2>1, <3>1, <3>2, <3>3, <3>5 DEF Sound
    <3>6. QED BY <3>4, <3>5
  <2>2. QED BY <2>1
<1>5. Sound(c)'
  BY <1>1, <1>2, <1>3, <1>4, JobIs DEF Sound
<1>6. QED BY <1>1, <1>2, <1>5, Recorded, JobMove DEF IInv, TypeOK

(* All of a batch is recorded when nothing of it is left.                  *)
LEMMA NothingLeft ==
  ASSUME IInv, NEW c \in Client, job[c] # None, job[c].left = {}
  PROVE  \A e \in DOMAIN job[c].batch : record[e] >= job[c].batch[e]
BY JobIs DEF Sound

(* The recovery leaves the queue.                                          *)
LEMMA RecoveryLeaves ==
  ASSUME IInv, job' = [job EXCEPT !["recovery"] = None], Leave("recovery"),
         journal' \subseteq Batch, staged' \subseteq Batch,
         UNCHANGED <<remote, sessions, progress, recovery, crashes>>
  PROVE  IInv'
<1>1. UNCHANGED <<remote, record, stray, run, status, recovery, crashes>>
  BY DEF sessions, progress
<1>2. /\ QueueOK' /\ queue'["recovery"] = "out"
      /\ queue'["run"] = "out" <=> queue["run"] = "out"
      /\ queue["run"] = "holds" => queue'["run"] = "holds"
  BY QueueIs, LeaveQueue DEF IInv, Client
<1>3. /\ job' \in [Client -> Job \cup {None}] /\ job'["recovery"] = None
      /\ job'["run"] = job["run"]
  BY DEF IInv, TypeOK, Client
<1>4. Queued'
  BY <1>1, <1>2, <1>3 DEF IInv, Queued
<1>5. TypeOK'
  BY <1>1, <1>2, <1>3, <1>4 DEF IInv, TypeOK, QueueOK, Queued, Client
<1>6. JobsSound'
  BY <1>1, <1>2, <1>3 DEF IInv, JobsSound, Sound, Client
<1>7. GoalKept'
  BY <1>1, <1>3 DEF IInv, GoalKept, Keeps, Covered
<1>8. QED BY <1>4, <1>5, <1>6, <1>7 DEF IInv

LEMMA Complete ==
  ASSUME IInv, NEW c \in Client, CompleteApply(c)
  PROVE  IInv'
<1>1. /\ job[c] # None /\ job[c].left = {}
      /\ job' = [job EXCEPT ![c] = None] /\ Leave(c)
      /\ journal' \subseteq journal /\ staged' \subseteq staged
      /\ run' = IF c = "run" THEN NextChunk ELSE run
      /\ UNCHANGED <<remote, sessions, status, recovery, crashes>>
  BY DEF CompleteApply, Begun, Working
<1>2. journal' \subseteq Batch /\ staged' \subseteq Batch
  BY <1>1 DEF IInv, TypeOK
<1>3. CASE c = "recovery"
  BY <1>1, <1>2, <1>3, RecoveryLeaves DEF progress
<1>4. CASE c = "run"
  <2>1. run # None /\ run.phase = "apply" /\ job["run"].batch = run.chunk
    BY <1>1, <1>4 DEF IInv, Queued, GoalKept
  <2> DEFINE a == At("chunks")
  <2>2. /\ a \in RunState /\ a.phase = "chunks" /\ a.goal = run.goal /\ a.plan = run.plan
    BY <2>1, AtType, Phases DEF IInv, Between
  <2>3. /\ NextChunk \in RunState /\ NextChunk.phase = "chunks" /\ NextChunk.goal = run.goal
        /\ NextChunk.plan = run.plan /\ NextChunk.chunk = Nothing
    BY <2>2, NothingBatch DEF NextChunk, RunState
  <2>4. \A e \in DOMAIN run.goal : Covered(run, e)
    BY <2>1, RunIs DEF Keeps, Early
  <2>5. \A e \in DOMAIN run.chunk : record[e] >= run.chunk[e]
    BY <1>1, <1>4, <2>1, NothingLeft
  <2>6. Keeps(NextChunk)
    BY <2>3, <2>4, <2>5, NothingBatch DEF Keeps, Covered, Early
  <2>7. status' = "running"
    BY <1>1, <2>1, RunIs
  <2>8. QED
    BY <1>1, <1>2, <1>4, <2>1, <2>3, <2>6, <2>7, LeaveMove DEF Queueing, Status
<1>5. QED BY <1>3, <1>4 DEF Client

LEMMA FailedApply ==
  ASSUME IInv, NEW c \in Client, FailApply(c)
  PROVE  IInv'
<1>1. /\ job[c] # None /\ job' = [job EXCEPT ![c] = None] /\ Leave(c)
      /\ UNCHANGED <<remote, sessions, disk, recovery, crashes>>
      /\ IF c = "run" THEN run' = None /\ status' = "failed" ELSE UNCHANGED progress
  BY DEF FailApply, Working, Fail
<1>2. journal' \subseteq Batch /\ staged' \subseteq Batch
  BY <1>1 DEF IInv, TypeOK, disk
<1>3. CASE c = "recovery"
  BY <1>1, <1>2, <1>3, RecoveryLeaves
<1>4. CASE c = "run"
  <2>1. run # None /\ run.phase = "apply"
    BY <1>1, <1>4 DEF IInv, Queued
  <2>2. QED BY <1>1, <1>2, <1>4, <2>1, LeaveMove DEF Queueing, Status
<1>5. QED BY <1>3, <1>4 DEF Client

LEMMA ApplySteps ==
  ASSUME IInv, NEW c \in Client, ApplyStep(c)
  PROVE  IInv'
BY Begin, Record, Complete, FailedApply, Skip, Write DEF ApplyStep

-----------------------------------------------------------------------------
(* Steps of a recovery, edits and restarts *)

LEMMA RecoveryTurns ==
  ASSUME IInv, StartRecovery \/ EndRecovery
  PROVE  IInv'
<1>1. UNCHANGED <<remote, record, stray, journal, staged, run, status, job, queue, crashes>>
  BY DEF StartRecovery, EndRecovery, sessions, disk, progress, queueing
<1>2. recovery' \in Recovery \cup {None}
  BY DEF StartRecovery, EndRecovery, IInv, TypeOK, Recovery
<1>3. TypeOK'
  BY <1>1, <1>2 DEF IInv, TypeOK
<1>4. Queued' /\ JobsSound' /\ GoalKept'
  BY <1>1 DEF IInv, Queued, JobsSound, Sound, GoalKept, Keeps, Covered
<1>5. QED BY <1>3, <1>4 DEF IInv

LEMMA Recover ==
  ASSUME IInv, RecoverBatch
  PROVE  IInv'
<1>1. PICK b \in recovery.todo :
        /\ recovery' = [recovery EXCEPT !.todo = @ \ {b}]
        /\ IF b \in staged
           THEN job' = [job EXCEPT !["recovery"] = Asked(b)] /\ Ask("recovery")
           ELSE UNCHANGED queueing
  BY DEF RecoverBatch
<1>2. /\ recovery # None /\ job["recovery"] = None
      /\ UNCHANGED <<remote, record, stray, journal, staged, run, status, crashes>>
  BY DEF RecoverBatch, sessions, disk, progress
<1>3. recovery' \in Recovery
  BY <1>1, <1>2 DEF IInv, TypeOK, Recovery
<1>4. CASE UNCHANGED queueing
  <2>1. TypeOK'
    BY <1>2, <1>3, <1>4 DEF IInv, TypeOK, queueing
  <2>2. Queued' /\ JobsSound' /\ GoalKept'
    BY <1>2, <1>4 DEF IInv, Queued, JobsSound, Sound, GoalKept, Keeps, Covered, queueing
  <2>3. QED BY <2>1, <2>2 DEF IInv
<1>5. CASE b \in staged /\ job' = [job EXCEPT !["recovery"] = Asked(b)] /\ Ask("recovery")
  <2>1. b \in Batch
    BY <1>5 DEF IInv, TypeOK
  <2>2. queue["recovery"] = "out"
    BY <1>2 DEF IInv, Queued
  <2>3. /\ QueueOK' /\ queue'["recovery"] # "out"
        /\ queue'["run"] = queue["run"]
    BY <1>5, <2>2, QueueIs, AskQueue DEF IInv, Client
  <2>4. /\ job' \in [Client -> Job \cup {None}] /\ job'["recovery"] = Asked(b)
        /\ job'["run"] = job["run"]
    BY <1>5, <2>1, AskedType DEF IInv, TypeOK, Client
  <2>5. Queued'
    BY <1>2, <2>1, <2>3, <2>4, AskedType DEF IInv, Queued
  <2>6. TypeOK'
    BY <1>2, <1>3, <2>3, <2>4, <2>5 DEF IInv, TypeOK, QueueOK, Queued, Client
  <2>7. Sound("recovery")'
    BY <2>1, <2>4, AskedType DEF Sound
  <2>8. JobsSound'
    BY <1>2, <2>3, <2>4, <2>7 DEF IInv, JobsSound, Sound, Client
  <2>9. GoalKept'
    BY <1>2, <2>4 DEF IInv, GoalKept, Keeps, Covered
  <2>10. QED BY <2>5, <2>6, <2>8, <2>9 DEF IInv
<1>6. QED BY <1>1, <1>4, <1>5

LEMMA Edit ==
  ASSUME IInv, NEW e \in Entry, EditRemote(e)
  PROVE  IInv'
<1>1. /\ remote[e] < MaxVersion[e] /\ remote' = [remote EXCEPT ![e] = @ + 1]
      /\ UNCHANGED <<record, stray, journal, staged, run, status, recovery, job, queue, crashes>>
  BY DEF EditRemote, sessions, disk, progress, queueing
<1>2. remote[e] + 1 \in 0 .. MaxVersion[e]
  BY <1>1, StoreIs, VersionNat DEF IInv, TypeOK
<1>3. remote[e] + 1 \in Version /\ remote[e] + 1 <= MaxVersion[e]
  BY <1>2, VersionNat DEF Version
<1>4. remote' \in Versions(Entry)
  BY <1>1, <1>3, StoreExcept DEF IInv, TypeOK
<1>5. TypeOK'
  BY <1>1, <1>4 DEF IInv, TypeOK
<1>6. Queued' /\ JobsSound' /\ GoalKept'
  BY <1>1 DEF IInv, Queued, JobsSound, Sound, GoalKept, Keeps, Covered
<1>7. QED BY <1>5, <1>6 DEF IInv

LEMMA Restarts ==
  ASSUME IInv, NEW r \in SUBSET Batch, NEW b, Restart(r, b)
  PROVE  IInv'
<1>1. /\ run' = None /\ recovery' = None
      /\ job' = [c \in Client |-> None] /\ queue' = [c \in Client |-> "out"]
      /\ crashes < MaxCrashes /\ crashes' = crashes + 1
      /\ journal' = r /\ staged' = b \cap r
      /\ UNCHANGED <<remote, record, stray, status>>
  BY DEF Restart, sessions
<1>2. crashes' \in 0 .. MaxCrashes
  BY <1>1, BoundAssumption DEF IInv, TypeOK
<1>3. TypeOK'
  BY <1>1, <1>2 DEF IInv, TypeOK, Client, Other
<1>4. Queued' /\ JobsSound' /\ GoalKept'
  BY <1>1 DEF Queued, JobsSound, GoalKept, Client
<1>5. QED BY <1>3, <1>4 DEF IInv

(* The restarts there are, and the batches they leave registered.          *)
Restarted ==
  \/ Crash \/ InterruptedDiscard
  \/ \E c \in Client : InterruptedBegin(c) \/ InterruptedComplete(c)

(* Batches r stay registered, and no bundle is lost among b.               *)
Leaves(r, b) ==
  /\ r \subseteq journal /\ staged \subseteq b
  /\ \/ r = journal
     \/ run # None /\ run.aborted
     \/ \E c \in Client :
          /\ job[c] # None /\ job[c].left = {}
          /\ r = journal \ {job[c].batch}

LEMMA RestartIs ==
  ASSUME Restarted
  PROVE  \E r, b : Restart(r, b) /\ Leaves(r, b)
<1>1. CASE Crash
  <2>1. Restart(journal, staged) /\ Leaves(journal, staged)
    BY <1>1 DEF Crash, Leaves
  <2>2. QED BY <2>1
<1>2. CASE InterruptedDiscard
  <2>1. PICK S \in SUBSET journal : Restart(journal \ S, staged)
    BY <1>2 DEF InterruptedDiscard
  <2>2. Leaves(journal \ S, staged)
    BY <1>2 DEF InterruptedDiscard, Leaves
  <2>3. QED BY <2>1, <2>2
<1>3. CASE \E c \in Client : InterruptedBegin(c)
  <2>1. PICK c \in Client : Restart(journal, staged \cup {job[c].batch})
    BY <1>3 DEF InterruptedBegin
  <2>2. Leaves(journal, staged \cup {job[c].batch})
    BY DEF Leaves
  <2>3. QED BY <2>1, <2>2
<1>4. CASE \E c \in Client : InterruptedComplete(c)
  <2>1. PICK c \in Client : InterruptedComplete(c)
    BY <1>4
  <2>2. /\ Restart(journal \ {job[c].batch}, staged)
        /\ Leaves(journal \ {job[c].batch}, staged)
    BY <2>1 DEF InterruptedComplete, Begun, Working, Leaves
  <2>3. QED BY <2>2
<1>5. QED BY <1>1, <1>2, <1>3, <1>4 DEF Restarted

-----------------------------------------------------------------------------
(* Theorems *)

LEMMA InitIInv ==
  ASSUME Init
  PROVE  IInv
<1>1. TypeOK
  <2>1. \A e \in Entry : 0 \in 0 .. MaxVersion[e] /\ 1 \in 0 .. MaxVersion[e]
    BY BoundAssumption
  <2>2. remote \in Versions(Entry) /\ record \in Versions(Entry)
    BY <2>1, BoundAssumption DEF Init, Versions, Version
  <2>3. crashes \in 0 .. MaxCrashes
    BY BoundAssumption DEF Init
  <2>4. QED BY <2>2, <2>3 DEF Init, TypeOK, Status, Client
<1>2. Queued /\ JobsSound /\ GoalKept
  BY DEF Init, Queued, JobsSound, GoalKept, Client
<1>3. QED BY <1>1, <1>2 DEF IInv

LEMMA NextIInv ==
  ASSUME IInv, [Next]_vars
  PROVE  IInv'
<1>1. CASE UNCHANGED vars
  <2>1. UNCHANGED <<remote, record, stray, journal, staged, run, status, recovery, job, queue, crashes>>
    BY <1>1 DEF vars, sessions, disk, progress, queueing
  <2>2. QED BY <2>1 DEF IInv, TypeOK, Queued, JobsSound, Sound, GoalKept, Keeps, Covered
<1>2. CASE Run \/ Stop \/ RunStep
  BY <1>2, StartRun, StopRun, RunSteps
<1>3. CASE StartRecovery \/ RecoveryStep
  BY <1>3, RecoveryTurns, Recover DEF RecoveryStep
<1>4. CASE \E c \in Client : ApplyStep(c)
  BY <1>4, ApplySteps
<1>5. CASE \E e \in Entry : EditRemote(e)
  BY <1>5, Edit
<1>6. CASE Restarted
  <2>1. PICK r, b : Restart(r, b) /\ Leaves(r, b)
    BY <1>6, RestartIs
  <2>2. r \in SUBSET Batch
    BY <2>1 DEF IInv, TypeOK, Leaves
  <2>3. QED BY <2>1, <2>2, Restarts
<1>7. QED BY <1>1, <1>2, <1>3, <1>4, <1>5, <1>6 DEF Next, Restarted

(* The invariant that everything below rests on.                           *)
THEOREM Invariance == Spec => []IInv
<1>1. Init => IInv
  BY InitIInv
<1>2. IInv /\ [Next]_vars => IInv'
  BY NextIInv
<1>3. QED BY <1>1, <1>2, PTL DEF Spec

(* Every variable has its shape, a client that applies a batch is in the   *)
(* queue, and one client at most holds the queue.                          *)
THEOREM TypeCorrect == Spec => []TypeOK
<1>1. IInv => TypeOK
  BY DEF IInv
<1>2. QED BY <1>1, Invariance, PTL

(* A registered batch has its bundle on disk at any time, and so after a   *)
(* restart at any point (registerPending(), discardPeer(), completeApply). *)
THEOREM BatchesReplayable == Spec => []Replayable
<1>1. Init => Replayable
  BY DEF Init, Replayable
<1>2. ASSUME IInv, Replayable, [Next]_vars
      PROVE  Replayable'
  <2> USE DEF Replayable
  <2>1. CASE Restarted
    BY <1>2, <2>1, RestartIs DEF Restart, Leaves
  <2>2. CASE \E c \in Client : ApplyStep(c)
    BY <1>2, <2>2 DEF ApplyStep, BeginApply, RecordEntry, CompleteApply, FailApply, Fail,
       SkipEntry, WriteLog, disk
  <2>3. CASE Run \/ Stop \/ StartRecovery \/ RecoveryStep \/ \E e \in Entry : EditRemote(e)
    BY <1>2, <2>3 DEF Run, Stop, StartRecovery, RecoveryStep, RecoverBatch, EndRecovery,
       EditRemote, disk
  <2>4. CASE RunStep
    <3>1. UNCHANGED disk \/ journal' = {}
      BY <2>4 DEF RunStep, ReadPeer, ExchangeNodes, FirstFails, TryAgain, SecondFails,
         NodesAnswered, NodesPushed, ManifestAnswered, ExportManifest, PullChunk, ChunkFetched,
         ObjectsFetched, ChunkRefetched, PushChunk, ExportChunk, ObjectsPushed, ChunkPushed,
         Finish, NeedsFull, StartApply, Unless, Goto, Fail, Succeed, EndStopped
    <3>2. QED BY <1>2, <3>1 DEF disk
  <2>5. CASE UNCHANGED vars
    BY <1>2, <2>5 DEF vars, disk
  <2>6. QED BY <1>2, <2>1, <2>2, <2>3, <2>4, <2>5 DEF Next, Restarted
<1>3. QED BY <1>1, <1>2, Invariance, PTL DEF Spec

(* Only RecordEntry changes the records.                                   *)
LEMMA RecordKept ==
  ASSUME [Next]_vars, \A c \in Client : ~RecordEntry(c)
  PROVE  UNCHANGED record
<1>1. CASE Restarted
  BY <1>1, RestartIs DEF Restart, sessions
<1>2. CASE \E c \in Client : ApplyStep(c)
  BY <1>2 DEF ApplyStep, BeginApply, CompleteApply, FailApply, SkipEntry, WriteLog, sessions
<1>3. CASE Run \/ Stop \/ StartRecovery \/ RecoveryStep \/ \E e \in Entry : EditRemote(e)
  BY <1>3 DEF Run, Stop, StartRecovery, RecoveryStep, RecoverBatch, EndRecovery, EditRemote,
     sessions
<1>4. CASE RunStep
  BY <1>4 DEF RunStep, ReadPeer, ExchangeNodes, FirstFails, TryAgain, SecondFails,
     NodesAnswered, NodesPushed, ManifestAnswered, ExportManifest, PullChunk, ChunkFetched,
     ObjectsFetched, ChunkRefetched, PushChunk, ExportChunk, ObjectsPushed, ChunkPushed,
     Finish, NeedsFull, sessions
<1>5. CASE UNCHANGED vars
  BY <1>5 DEF vars, sessions
<1>6. QED BY <1>1, <1>2, <1>3, <1>4, <1>5 DEF Next, Restarted

(* A replayed batch, however late, never puts an older version in the      *)
(* place of a newer one (applyImported() compares with the record).        *)
THEOREM RecordsNeverGoBack == Spec => RecordsAdvance
<1>1. ASSUME IInv, [Next]_vars
      PROVE  \A e \in Entry : record'[e] >= record[e]
  <2>1. CASE \E c \in Client : RecordEntry(c)
    BY <1>1, <2>1, Recorded
  <2>2. CASE UNCHANGED record
    BY <1>1, <2>2, RecordIs
  <2>3. QED BY <1>1, <2>1, <2>2, RecordKept
<1>2. QED BY <1>1, Invariance, PTL DEF Spec, RecordsAdvance

(* A run that succeeds has recorded all of its goal (runPeer()): it ends   *)
(* before sessions, or when nothing is planned or under way any more.      *)
THEOREM SuccessesCover == Spec => SuccessCovers
<1>1. ASSUME IInv, [Next]_vars, status' = "succeeded", run # None, run' = None
      PROVE  \A e \in DOMAIN run.goal : record[e] >= run.goal[e]
  <2>1. Keeps(run) /\ (run.phase # "peer" => status = "running")
    BY <1>1, RunIs
  <2>2. CASE run.phase \in Early
    BY <2>1, <2>2 DEF Keeps
  <2>3. CASE Finish
    <3>1. run.phase = "chunks" /\ DOMAIN run.plan = {}
      BY <2>3 DEF Finish
    <3>2. QED BY <2>1, <3>1 DEF Keeps, Covered, Early, Between
  <2>4. ASSUME run.phase \notin Early, ~Finish
        PROVE  FALSE
    <3>1. status = "running"
      BY <2>1, <2>4 DEF Early
    <3>2. UNCHANGED status \/ Fail \/ EndStopped \/ status' = "failed"
      <4>1. CASE Restarted
        BY <4>1, RestartIs DEF Restart
      <4>2. CASE \E c \in Client : ApplyStep(c)
        BY <4>2 DEF ApplyStep, BeginApply, RecordEntry, CompleteApply, FailApply, SkipEntry,
           WriteLog, progress
      <4>3. CASE Run \/ Stop \/ StartRecovery \/ RecoveryStep \/ \E e \in Entry : EditRemote(e)
        BY <4>3 DEF Run, Stop, StartRecovery, RecoveryStep, RecoverBatch, EndRecovery,
           EditRemote, progress
      <4>4. CASE RunStep
        BY <2>4, <4>4 DEF RunStep, ReadPeer, ExchangeNodes, FirstFails, TryAgain, SecondFails,
           NodesAnswered, NodesPushed, ManifestAnswered, ExportManifest, PullChunk,
           ChunkFetched, ObjectsFetched, ChunkRefetched, PushChunk, ExportChunk, ObjectsPushed,
           ChunkPushed, NeedsFull, StartApply, Answered, Unless, Goto, Early
      <4>5. CASE UNCHANGED vars
        BY <4>5 DEF vars, progress
      <4>6. QED BY <1>1, <4>1, <4>2, <4>3, <4>4, <4>5 DEF Next, Restarted
    <3>3. QED BY <1>1, <3>1, <3>2 DEF Fail, EndStopped
  <2>5. QED BY <2>2, <2>3, <2>4
<1>2. QED BY <1>1, Invariance, PTL DEF Spec, SuccessCovers

(* A batch leaves the journal when all of it is recorded, or because a     *)
(* stopped run discards it, and in no other way.                           *)
THEOREM BatchesEndApplied == Spec => BatchEndsApplied
<1> DEFINE Ended(b) == \/ \A e \in DOMAIN b : record[e] >= b[e]
                       \/ status' = "stopped"
                       \/ run # None /\ run.aborted /\ crashes' # crashes
<1>1. ASSUME IInv, [Next]_vars
      PROVE  \A b \in journal \ journal' : Ended(b)
  <2>1. CASE Restarted
    <3>1. PICK r, b : Restart(r, b) /\ Leaves(r, b)
      BY <2>1, RestartIs
    <3>2. journal' = r /\ crashes' # crashes
      BY <1>1, <3>1 DEF Restart, IInv, TypeOK
    <3>3. QED BY <1>1, <3>1, <3>2, NothingLeft DEF Leaves
  <2>2. CASE \E c \in Client : ApplyStep(c)
    <3>1. PICK c \in Client : ApplyStep(c)
      BY <2>2
    <3>2. CASE CompleteApply(c)
      <4>1. job[c] # None /\ job[c].left = {} /\ journal' = journal \ {job[c].batch}
        BY <3>2 DEF CompleteApply, Begun, Working
      <4>2. QED BY <1>1, <4>1, NothingLeft
    <3>3. CASE ~CompleteApply(c)
      BY <3>1, <3>3 DEF ApplyStep, BeginApply, RecordEntry, FailApply, Fail, SkipEntry,
         WriteLog, disk
    <3>4. QED BY <3>2, <3>3
  <2>3. CASE Run \/ Stop \/ StartRecovery \/ RecoveryStep \/ \E e \in Entry : EditRemote(e)
    BY <2>3 DEF Run, Stop, StartRecovery, RecoveryStep, RecoverBatch, EndRecovery, EditRemote,
       disk
  <2>4. CASE RunStep
    <3>1. UNCHANGED disk \/ status' = "stopped"
      BY <2>4 DEF RunStep, ReadPeer, ExchangeNodes, FirstFails, TryAgain, SecondFails,
         NodesAnswered, NodesPushed, ManifestAnswered, ExportManifest, PullChunk, ChunkFetched,
         ObjectsFetched, ChunkRefetched, PushChunk, ExportChunk, ObjectsPushed, ChunkPushed,
         Finish, NeedsFull, StartApply, Unless, Goto, Fail, Succeed, EndStopped
    <3>2. QED BY <3>1 DEF disk
  <2>5. CASE UNCHANGED vars
    BY <2>5 DEF vars, disk
  <2>6. QED BY <1>1, <2>1, <2>2, <2>3, <2>4, <2>5 DEF Next, Restarted
<1>2. QED BY <1>1, Invariance, PTL DEF Spec, BatchEndsApplied

-----------------------------------------------------------------------------
(* The link: a streamed answer *)

(* The frames read so far of an answer that is not given up.               *)
Taken == IF got.status = "none" THEN 0
         ELSE 1 + Len(got.data) + IF got.end THEN 1 ELSE 0

Kind == Link!Status \cup {"request", "data", "end", "error"}
Frame == [kind : Kind, seq : Nat]

(* The frame that stands at place n of an answer, whole or broken off.     *)
InPlace(f, n) ==
  /\ f.kind \in Link!Status => n = 1
  /\ f.kind = "data" => n > 1 /\ f = [kind |-> "data", seq |-> n - 1]
  /\ f.kind = "end" => n = answer + 2

(* What is read of a streamed answer is its beginning, and what is on its  *)
(* way continues it, each frame in its place.                              *)
Streamed ==
  /\ op \in Link!Operation /\ answer \in Nat
  /\ phase = "opening" => helper = "none"
  /\ op.stream =>
       /\ got \in [status : {"none"} \cup Link!Status, data : Seq([kind : {"data"}, seq : Nat]),
                   end : BOOLEAN]
       /\ \A i \in 1 .. Len(got.data) : got.data[i].seq = i
       /\ got.status = "none" => got.data = << >> /\ ~got.end
       /\ got.end => Len(got.data) = answer
       /\ down \in Seq(Frame)
       /\ \A i \in 1 .. Len(down) : InPlace(down[i], Taken + i)
       /\ helper # "exited" => down = << >> /\ got = Link!Nothing
       /\ phase = "ok" => got.end

LinkInv == phase = "failed" \/ Streamed

LEMMA Answers ==
  ASSUME NEW o \in Link!Operation
  PROVE  o.answers \subseteq Link!Status
<1>1. Link!Handshake.answers = Link!HandshakeAnswers
  BY DEF Link!Handshake
<1>2. /\ Link!NodeManifest.answers = Link!NodeAnswers
      /\ Link!NodeApply.answers = Link!NodeAnswers
      /\ Link!ObjectsPush.answers = Link!ObjectAnswers
  BY DEF Link!Handshake, Link!NodeManifest, Link!NodeApply, Link!ObjectsPush
<1>3. /\ Link!SessionManifest.answers = Link!SessionAnswers
      /\ Link!SessionApply.answers = Link!SessionAnswers
  BY DEF Link!Handshake, Link!NodeManifest, Link!SessionManifest, Link!NodeApply,
         Link!SessionApply
<1>4. Link!SessionEntries.answers = Link!SessionAnswers
  BY DEF Link!Handshake, Link!NodeManifest, Link!SessionManifest, Link!SessionEntries
<1>5. Link!SessionObjects.answers = Link!ObjectAnswers
  BY DEF Link!Handshake, Link!NodeManifest, Link!SessionManifest, Link!SessionEntries,
         Link!SessionObjects
<1>6. QED
  BY <1>1, <1>2, <1>3, <1>4, <1>5 DEF Link!Operation, Link!Status

LEMMA DataFrames ==
  ASSUME NEW n \in Nat
  PROVE  /\ Link!Data(n) \in Seq(Frame) /\ Len(Link!Data(n)) = n
         /\ \A i \in 1 .. n : Link!Data(n)[i] = [kind |-> "data", seq |-> i]
<1>1. \A i \in 1 .. n : [kind |-> "data", seq |-> i] \in Frame
  BY DEF Frame, Kind
<1>2. QED
  BY <1>1 DEF Link!Data

(* The frames of an answer that ends well, or of the beginning of one with *)
(* an error after it, are in their places.                                 *)
LEMMA AnswerInPlace ==
  ASSUME answer \in Nat, NEW n \in 0 .. answer, NEW s \in Link!Status,
         NEW last \in {"end", "error"}, last = "end" => n = answer,
         NEW f, f = <<Link!Control(s)>> \o (Link!Data(n) \o <<Link!Control(last)>>)
  PROVE  /\ f \in Seq(Frame)
         /\ \A i \in 1 .. Len(f) : InPlace(f[i], i)
<1> DEFINE c == Link!Control(s)  d == Link!Data(n)  e == Link!Control(last)
<1>1. c \in Frame /\ e \in Frame /\ c.kind = s /\ e.kind = last
  BY DEF Link!Control, Frame, Kind
<1>2. d \in Seq(Frame) /\ Len(d) = n /\ \A i \in 1 .. n : d[i] = [kind |-> "data", seq |-> i]
  BY DataFrames
<1> HIDE DEF c, d, e
<1>3. f = <<c>> \o (d \o <<e>>)
  BY DEF c, d, e
<1>4. /\ f \in Seq(Frame) /\ Len(f) = n + 2 /\ n \in Nat
      /\ f[1] = c /\ f[n + 2] = e /\ \A i \in 2 .. n + 1 : f[i] = d[i - 1]
  <2>1. /\ d \o <<e>> \in Seq(Frame) /\ Len(d \o <<e>>) = n + 1
        /\ \A i \in 1 .. n + 1 : (d \o <<e>>)[i] = IF i <= n THEN d[i] ELSE <<e>>[i - n]
    BY <1>1, <1>2, ConcatProperties
  <2>2. <<c>> \in Seq(Frame) /\ Len(<<c>>) = 1 /\ <<c>>[1] = c /\ <<e>>[1] = e
    BY <1>1
  <2> DEFINE g == d \o <<e>>
             h == <<c>>
  <2> HIDE DEF g, h
  <2>3. /\ h \in Seq(Frame) /\ Len(h) = 1 /\ h[1] = c
        /\ g \in Seq(Frame) /\ Len(g) = n + 1 /\ f = h \o g
    BY <1>3, <2>1, <2>2 DEF g, h
  <2>4. /\ f \in Seq(Frame) /\ Len(f) = 1 + (n + 1)
        /\ \A i \in 1 .. 1 + (n + 1) : f[i] = IF i <= 1 THEN h[i] ELSE g[i - 1]
    <3>1. /\ h \o g \in Seq(Frame) /\ Len(h \o g) = Len(h) + Len(g)
          /\ \A i \in 1 .. Len(h) + Len(g) :
               (h \o g)[i] = IF i <= Len(h) THEN h[i] ELSE g[i - Len(h)]
      BY <2>3, ConcatProperties
    <3>2. QED
      BY <2>3, <3>1
  <2>5. g[n + 1] = e /\ \A i \in 1 .. n : g[i] = d[i]
    BY <2>1, <2>2 DEF g
  <2>6. n \in Nat
    OBVIOUS
  <2>7. /\ f[1] = h[1] /\ f[n + 2] = g[n + 1]
        /\ \A i \in 2 .. n + 1 : f[i] = g[i - 1] /\ i - 1 \in 1 .. n
    BY <2>4, <2>6
  <2>8. QED
    BY <2>3, <2>4, <2>5, <2>6, <2>7
<1>5. ASSUME NEW i \in 1 .. Len(f) PROVE InPlace(f[i], i)
  <2>1. CASE i = 1
    <3>1. f[i] = c
      BY <1>4, <2>1
    <3>2. QED
      BY <1>1, <2>1, <3>1
      DEF InPlace, Link!Status, Link!HandshakeAnswers, Link!NodeAnswers,
          Link!SessionAnswers, Link!ObjectAnswers
  <2>2. CASE i \in 2 .. n + 1
    <3>1. f[i] = [kind |-> "data", seq |-> i - 1]
      BY <1>2, <1>4, <2>2
    <3>2. QED
      BY <2>2, <3>1
      DEF InPlace, Link!Status, Link!HandshakeAnswers, Link!NodeAnswers,
          Link!SessionAnswers, Link!ObjectAnswers
  <2>3. CASE i = n + 2
    <3>1. f[i] = e
      BY <1>4, <2>3
    <3>2. QED
      BY <1>1, <2>3, <3>1
      DEF InPlace, Link!Status, Link!HandshakeAnswers, Link!NodeAnswers,
          Link!SessionAnswers, Link!ObjectAnswers
  <2>4. QED
    BY <1>4, <2>1, <2>2, <2>3
<1>6. QED
  BY <1>4, <1>5

LEMMA InPlaceKept ==
  ASSUME UNCHANGED <<answer, got>>, NEW f, NEW n
  PROVE  InPlace(f, n)' <=> InPlace(f, n)
BY DEF InPlace

LEMMA ReadKeeps ==
  ASSUME Streamed, Link!Read, phase' # "failed"
  PROVE  Streamed'
<1> DEFINE f == Head(down)
<1>1. /\ phase = "reading" /\ down # << >> /\ down' = Tail(down)
      /\ Link!Expected(f) /\ got' = Link!Took(f) /\ phase' = phase
      /\ UNCHANGED <<op, helper, answer>>
  BY DEF Link!Read
<1> SUFFICES ASSUME op.stream
             PROVE  Streamed'
  BY <1>1 DEF Streamed
<1>2. /\ down \in Seq(Frame) /\ Len(down) \in Nat \ {0}
      /\ f = down[1] /\ f \in Frame
  BY <1>1, EmptySeq, HeadTailProperties DEF Streamed
<1> HIDE DEF f
<1>3. /\ Tail(down) \in Seq(Frame)
      /\ Len(Tail(down)) = Len(down) - 1
      /\ \A i \in 1 .. Len(down) - 1 : Tail(down)[i] = down[i + 1]
  BY <1>1, <1>2, HeadTailProperties
<1>4. InPlace(f, Taken + 1) /\ helper = "exited"
  BY <1>1, <1>2 DEF Streamed
<1>5. /\ got \in [status : {"none"} \cup Link!Status, data : Seq([kind : {"data"}, seq : Nat]),
                  end : BOOLEAN]
      /\ Len(got.data) \in Nat /\ answer \in Nat /\ op \in Link!Operation
      /\ \A i \in 1 .. Len(got.data) : got.data[i].seq = i
      /\ got.status = "none" => got.data = << >> /\ ~got.end
      /\ got.end => Len(got.data) = answer
      /\ "none" \notin Link!Status /\ "data" \notin Link!Status /\ "end" \notin Link!Status
  BY DEF Streamed, Link!Status, Link!HandshakeAnswers, Link!NodeAnswers,
         Link!SessionAnswers, Link!ObjectAnswers
<1>6. /\ got' \in [status : {"none"} \cup Link!Status, data : Seq([kind : {"data"}, seq : Nat]),
                   end : BOOLEAN]
      /\ \A i \in 1 .. Len(got'.data) : got'.data[i].seq = i
      /\ got'.status # "none"
      /\ got'.end => Len(got'.data) = answer
      /\ Taken' = Taken + 1
  <2>1. CASE f.kind \in Link!Status
    <3>1. got.status = "none" /\ got' = [got EXCEPT !.status = f.kind]
      BY <1>1, <1>5, <2>1 DEF Link!Expected, Link!Took
    <3>2. /\ got'.status = f.kind /\ got'.data = << >> /\ got'.end = FALSE
          /\ got' \in [status : {"none"} \cup Link!Status,
                       data : Seq([kind : {"data"}, seq : Nat]), end : BOOLEAN]
      BY <1>5, <2>1, <3>1
    <3>3. QED
      BY <1>5, <2>1, <3>1, <3>2 DEF Taken
  <2>2. CASE f.kind = "data"
    <3>1. /\ got.status # "none" /\ ~got.end /\ got' = [got EXCEPT !.data = Append(@, f)]
      BY <1>1, <1>5, <2>2 DEF Link!Expected, Link!Took
    <3>2. Taken = 1 + Len(got.data)
      BY <1>5, <3>1 DEF Taken
    <3>3. f = [kind |-> "data", seq |-> Len(got.data) + 1]
      BY <1>4, <1>5, <2>2, <3>2 DEF InPlace
    <3>4. /\ Append(got.data, f) \in Seq([kind : {"data"}, seq : Nat])
          /\ Len(Append(got.data, f)) = Len(got.data) + 1
          /\ \A i \in 1 .. Len(got.data) + 1 : Append(got.data, f)[i].seq = i
      <4>1. f \in [kind : {"data"}, seq : Nat] /\ f.seq = Len(got.data) + 1
        BY <1>5, <3>3
      <4>2. /\ Append(got.data, f) \in Seq([kind : {"data"}, seq : Nat])
            /\ Len(Append(got.data, f)) = Len(got.data) + 1
            /\ \A i \in 1 .. Len(got.data) : Append(got.data, f)[i] = got.data[i]
            /\ Append(got.data, f)[Len(got.data) + 1] = f
        BY <1>5, <4>1, AppendProperties
      <4>3. ASSUME NEW i \in 1 .. Len(got.data) + 1
            PROVE  Append(got.data, f)[i].seq = i
        <5>1. i \in 1 .. Len(got.data) \/ i = Len(got.data) + 1
          BY <1>5, <4>3
        <5>2. QED
          BY <1>5, <4>1, <4>2, <5>1
      <4>4. QED
        BY <4>2, <4>3
    <3>5. /\ got'.status = got.status /\ got'.data = Append(got.data, f) /\ got'.end = got.end
          /\ got' \in [status : {"none"} \cup Link!Status,
                       data : Seq([kind : {"data"}, seq : Nat]), end : BOOLEAN]
      BY <1>5, <3>1, <3>4
    <3>6. QED
      BY <1>5, <3>1, <3>2, <3>4, <3>5 DEF Taken
  <2>3. CASE f.kind = "end"
    <3>1. /\ got.status # "none" /\ ~got.end /\ got' = [got EXCEPT !.end = TRUE]
      BY <1>1, <1>5, <2>3 DEF Link!Expected, Link!Took
    <3>2. Taken = 1 + Len(got.data)
      BY <1>5, <3>1 DEF Taken
    <3>3. Len(got.data) = answer
      BY <1>4, <1>5, <2>3, <3>2 DEF InPlace
    <3>4. /\ got'.status = got.status /\ got'.data = got.data /\ got'.end = TRUE
          /\ got' \in [status : {"none"} \cup Link!Status,
                       data : Seq([kind : {"data"}, seq : Nat]), end : BOOLEAN]
      BY <1>5, <3>1
    <3>5. QED
      BY <1>5, <3>1, <3>2, <3>3, <3>4 DEF Taken
  <2>4. QED
    BY <1>1, <2>1, <2>2, <2>3 DEF Link!Expected
<1>7. Taken \in Nat
  BY <1>5 DEF Taken
<1>8. ASSUME NEW i \in 1 .. Len(down')
      PROVE  InPlace(down[i], Taken + i)'
  <2>1. i + 1 \in 1 .. Len(down) /\ down'[i] = down[i + 1] /\ i \in Nat
    BY <1>1, <1>2, <1>3, <1>8
  <2>2. InPlace(down[i + 1], Taken + (i + 1))
    BY <2>1 DEF Streamed
  <2>3. Taken' + i = Taken + (i + 1)
    BY <1>6, <1>7, <2>1
  <2>4. QED
    <3>1. Taken' + i = Taken + (i + 1) /\ answer' = answer
      BY <1>1, <2>3
    <3>2. QED
      BY <2>1, <2>2, <3>1 DEF InPlace
<1>9. QED
  BY <1>1, <1>3, <1>4, <1>5, <1>6, <1>8 DEF Streamed

LEMMA CutKeeps ==
  ASSUME Streamed, NEW n \in 0 .. Len(down), down' = SubSeq(down, 1, n),
         UNCHANGED <<op, phase, answer, got>>, helper' = "exited", phase # "opening"
  PROVE  Streamed'
<1> SUFFICES ASSUME op.stream PROVE Streamed'
  BY DEF Streamed
<1>1. down \in Seq(Frame) /\ n \in Nat /\ n <= Len(down)
  BY DEF Streamed
<1>2. /\ down' \in Seq(Frame) /\ Len(down') = n
      /\ \A i \in 1 .. n : down'[i] = down[i]
  <2>1. \A i \in 1 .. n : down[i] \in Frame
    BY <1>1, ElementOfSeq
  <2>2. QED
    BY <1>1, <2>1, SubSeqProperties
<1>3. \A i \in 1 .. Len(down') : InPlace(down[i], Taken + i)
  BY <1>1, <1>2 DEF Streamed
<1>4. Taken' = Taken
  BY DEF Taken
<1>5. \A i \in 1 .. Len(down') : InPlace(down[i], Taken + i)'
  BY <1>2, <1>3, <1>4, InPlaceKept
<1>6. QED
  BY <1>2, <1>4, <1>5 DEF Streamed

(* The helper writes its answer, when nothing has been written before.     *)
LEMMA AnswerKeeps ==
  ASSUME Streamed, helper = "fetch", helper' = "exited", UNCHANGED <<op, phase, answer, got>>,
         op.stream => /\ down' \in Seq(Frame)
                      /\ \A i \in 1 .. Len(down') : InPlace(down'[i], i)
  PROVE  Streamed'
<1> SUFFICES ASSUME op.stream PROVE Streamed'
  BY DEF Streamed
<1>1. got = Link!Nothing
  BY DEF Streamed
<1>2. Taken = 0 /\ Taken' = 0
  BY <1>1 DEF Taken, Link!Nothing
<1>3. \A i \in 1 .. Len(down') : InPlace(down[i], Taken + i)'
  BY <1>2, InPlaceKept
<1>4. QED
  BY <1>3 DEF Streamed

(* A step of the link that neither reads nor answers.                      *)
LEMMA LinkStepKeeps ==
  ASSUME LinkInv, Link!Next
  PROVE  LinkInv'
<1>1. phase = "failed" => phase' = "failed"
  BY DEF Link!Next, Link!Here, Link!There, Link!Fault, Link!Open, Link!Send, Link!EndInput,
         Link!WriteFails, Link!Deadline, Link!Read, Link!Finish, Link!Ended, Link!TakeRequest,
         Link!TakeBody, Link!Pump, Link!HelperReads, Link!Fetch, Link!OpenFails,
         Link!StopSession, Link!Cut, Link!Break, Link!Freeze
<1> SUFFICES ASSUME Streamed, phase' # "failed" PROVE Streamed'
  BY <1>1 DEF LinkInv
<1>2. CASE /\ UNCHANGED <<op, down, answer, got>>
           /\ phase' # "ok" \/ phase' = phase
           /\ helper' = helper \/ (helper # "exited" /\ helper' # "exited")
           /\ phase' = "opening" => phase = "opening" /\ helper' = helper
  <2>1. \A f, n : InPlace(f, n)' <=> InPlace(f, n)
    BY <1>2, InPlaceKept
  <2>2. Taken' = Taken
    BY <1>2 DEF Taken
  <2>3. QED
    BY <1>2, <2>1, <2>2 DEF Streamed
<1>3. CASE Link!Read
  BY <1>3, ReadKeeps
<1>4. CASE Link!Finish
  <2>1. UNCHANGED <<op, down, answer, got, helper>> /\ Taken' = Taken
    BY <1>4 DEF Link!Finish, Taken
  <2>2. \A f, n : InPlace(f, n)' <=> InPlace(f, n)
    BY <2>1, InPlaceKept
  <2>3. (op.stream /\ phase' = "ok" => got.end) /\ phase' # "opening"
    BY <1>4 DEF Link!Finish, Link!Complete
  <2>4. QED
    BY <2>1, <2>2, <2>3 DEF Streamed
<1>5. CASE Link!Cut
  BY <1>5, CutKeeps DEF Link!Cut
<1>6. CASE Link!Fetch
  <2>1. PICK st \in op.answers : down' = down \o Link!Answer(st)
    BY <1>6 DEF Link!Fetch
  <2>2. st \in Link!Status /\ answer \in Nat /\ op \in Link!Operation
    BY <2>1, Answers DEF Streamed
  <2>3. ASSUME op.stream
        PROVE  /\ down' \in Seq(Frame)
               /\ \A i \in 1 .. Len(down') : InPlace(down'[i], i)
    <3> DEFINE f == <<Link!Control(st)>> \o (Link!Data(answer) \o <<Link!Control("end")>>)
    <3>1. down = << >>
      BY <1>6, <2>3 DEF Streamed, Link!Fetch
    <3>2. /\ f \in Seq(Frame)
          /\ \A i \in 1 .. Len(f) : InPlace(f[i], i)
      <4>1. answer \in 0 .. answer
        BY <2>2
      <4>2. QED
        BY <2>2, <4>1, AnswerInPlace
    <3>3. Link!Answer(st) = f
      BY <2>3 DEF Link!Answer
    <3> HIDE DEF f
    <3>4. down' = f
      BY <2>1, <3>1, <3>2, <3>3
    <3>5. QED
      BY <3>2, <3>4
  <2>4. /\ helper = "fetch" /\ helper' = "exited" /\ UNCHANGED <<op, phase, answer, got>>
    BY <1>6 DEF Link!Fetch
  <2>5. QED
    BY <2>3, <2>4, AnswerKeeps
<1>7. CASE Link!Break
  <2>1. PICK n \in 0 .. answer :
          down' = IF op.stream
                  THEN <<Link!Control("200")>> \o Link!Data(n) \o <<Link!Control("error")>>
                  ELSE <<Link!Control("error")>>
    BY <1>7 DEF Link!Break
  <2>2. ASSUME op.stream
        PROVE  /\ down' \in Seq(Frame)
               /\ \A i \in 1 .. Len(down') : InPlace(down'[i], i)
    <3> DEFINE c == Link!Control("200")  d == Link!Data(n)  e == Link!Control("error")
               f == <<c>> \o (d \o <<e>>)
    <3>1. /\ f \in Seq(Frame)
          /\ \A i \in 1 .. Len(f) : InPlace(f[i], i)
      <4>1. "200" \in Link!Status /\ answer \in Nat
        BY DEF Streamed, Link!Status, Link!HandshakeAnswers
      <4>2. QED
        BY <4>1, AnswerInPlace
    <3>2. d \in Seq(Frame)
      BY DataFrames DEF Streamed
    <3>3. down' = <<c>> \o d \o <<e>>
      BY <2>1, <2>2
    <3>4. <<c>> \in Seq(Frame) /\ <<e>> \in Seq(Frame)
      BY DEF Link!Control, Frame, Kind, Link!Status, Link!HandshakeAnswers
    <3> HIDE DEF c, d, e
    <3>5. <<c>> \o d \o <<e>> = f
      BY <3>2, <3>4, ConcatAssociative
    <3>6. QED
      BY <3>1, <3>3, <3>5
  <2>3. /\ helper = "fetch" /\ helper' = "exited" /\ UNCHANGED <<op, phase, answer, got>>
    BY <1>7 DEF Link!Break
  <2>4. QED
    BY <2>2, <2>3, AnswerKeeps
<1>8. ASSUME ~Link!Read, ~Link!Finish, ~Link!Cut, ~Link!Fetch, ~Link!Break
      PROVE  /\ UNCHANGED <<op, down, answer, got>>
             /\ phase' # "ok" \/ phase' = phase
             /\ helper' = helper \/ (helper # "exited" /\ helper' # "exited")
             /\ phase' = "opening" => phase = "opening" /\ helper' = helper
  <2>1. CASE Link!Open \/ Link!Send \/ Link!EndInput \/ Link!WriteFails \/ Link!Deadline
             \/ Link!OpenFails \/ Link!StopSession \/ Link!Freeze
    <3>1. CASE Link!Open
      BY <3>1 DEF Link!Open, Streamed
    <3>2. CASE Link!Send \/ Link!EndInput \/ Link!WriteFails \/ Link!Deadline
      BY <3>2 DEF Link!Send, Link!EndInput, Link!WriteFails, Link!Deadline
    <3>3. CASE Link!OpenFails \/ Link!StopSession \/ Link!Freeze
      BY <3>3 DEF Link!OpenFails, Link!StopSession, Link!Freeze
    <3>4. QED
      BY <2>1, <3>1, <3>2, <3>3
  <2>2. CASE Link!TakeRequest \/ Link!TakeBody \/ Link!Pump
    BY <2>2 DEF Streamed, Link!TakeRequest, Link!TakeBody, Link!Pump, Link!HelperReads
  <2>3. QED
    BY <1>8, <2>1, <2>2 DEF Link!Next, Link!Here, Link!There, Link!Fault
<1>9. QED
  BY <1>2, <1>3, <1>4, <1>5, <1>6, <1>7, <1>8

(* A streamed answer that counts is all there, in order, wherever the      *)
(* channel was cut or the peer's stream broke off: what follows a break is *)
(* an error, and what follows a cut is nothing, never a response-end.      *)
THEOREM AnswersAreWhole == MC_Spec => []NoTruncatedAnswer
<1>1. MC_Init => LinkInv
  <2>1. Link!Init => Streamed
    <3> SUFFICES ASSUME Link!Init PROVE Streamed
      OBVIOUS
    <3>1. down = << >> /\ got = Link!Nothing /\ phase = "opening" /\ answer \in Nat
      BY DEF Link!Init
    <3>2. QED
      BY <3>1 DEF Link!Init, Streamed, Link!Nothing
  <2>2. QED
    BY <2>1 DEF MC_Init, NoLink, LinkInv
<1>2. LinkInv /\ [MC_Next]_<<part, vars, linkVars>> => LinkInv'
  <2>1. LinkInv /\ UNCHANGED linkVars => LinkInv'
    <3> SUFFICES ASSUME LinkInv, UNCHANGED linkVars PROVE LinkInv'
      OBVIOUS
    <3>1. \A f, n : InPlace(f, n)' <=> InPlace(f, n)
      BY InPlaceKept DEF linkVars
    <3>2. Taken' = Taken
      BY DEF Taken, linkVars
    <3>3. QED
      BY <3>1, <3>2 DEF LinkInv, linkVars, Streamed
  <2>2. QED
    BY <2>1, LinkStepKeeps DEF MC_Next
<1>3. LinkInv => NoTruncatedAnswer
  <2> SUFFICES ASSUME LinkInv, phase = "ok", op.stream
               PROVE  got.data = Link!Data(answer)
    BY DEF NoTruncatedAnswer, Link!NoTruncatedAnswer
  <2>1. /\ got.data \in Seq([kind : {"data"}, seq : Nat]) /\ Len(got.data) = answer
        /\ answer \in Nat /\ \A i \in 1 .. answer : got.data[i].seq = i
    BY DEF LinkInv, Streamed
  <2>2. ASSUME NEW i \in 1 .. answer PROVE got.data[i] = [kind |-> "data", seq |-> i]
    <3>1. got.data[i] \in [kind : {"data"}, seq : Nat] /\ got.data[i].seq = i
      BY <2>1, ElementOfSeq
    <3>2. QED
      BY <3>1
  <2>3. got.data \in Seq(Frame)
    <3>1. [kind : {"data"}, seq : Nat] \subseteq Frame
      BY DEF Frame, Kind
    <3>2. QED
      BY <2>1, <3>1, SeqMonotonic
  <2>4. /\ Link!Data(answer) \in Seq(Frame) /\ Len(got.data) = Len(Link!Data(answer))
        /\ \A i \in 1 .. Len(got.data) : got.data[i] = Link!Data(answer)[i]
    BY <2>1, <2>2, DataFrames
  <2>5. QED
    BY <2>3, <2>4, SeqEqual
<1>4. QED
  BY <1>1, <1>2, <1>3, PTL DEF MC_Spec
=============================================================================
