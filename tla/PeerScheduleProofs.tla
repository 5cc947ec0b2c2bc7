------------------------- MODULE PeerScheduleProofs -------------------------
(***************************************************************************)
(* Proofs about PeerSchedule, for any peers, secrets and requests, with    *)
(* and without failures of the credentials service.                        *)
(*                                                                         *)
(* The scheduler is right when it has caught up because of what holds      *)
(* while it has not: a list it will apply, one that is not stale, agrees   *)
(* with every peer that listeners have been told of.                       *)
(***************************************************************************)
EXTENDS MCPeerSchedule, TLAPS

(* A set of timers that suits the peers listeners have been told of.       *)
Suits(T) ==
  \A p \in Peer :
    /\ p \in Live /\ ~Creating(p) => (p \in T <=> peer[p] = "on")
    /\ peer[p] = "gone" => p \notin T

(* The timers suit when the scheduler has caught up, and the list under    *)
(* way does unless it is stale.                                            *)
Caught ==
  ~stopped =>
    /\ listing = None /\ ~failed => Suits(timers)
    /\ listing # None /\ ~listing.stale => Suits(listing.on)

IInv == TypeOK /\ Caught

-----------------------------------------------------------------------------
(* Types *)

LEMMA NotNone ==
  /\ \A s \in Secret : s # None
  /\ \A j \in Job : j # None
  /\ \A l \in Listing : l # None
BY NoneAssumption

(* A snapshot of well-formed peers is a list that is not stale.            *)
LEMMA SnapshotType ==
  /\ Snapshot \in Listing
  /\ Snapshot.on = On'
  /\ Snapshot.live = Live'
  /\ ~Snapshot.stale
  /\ Snapshot.on \subseteq Snapshot.live
BY DEF Snapshot, Listing, Live, On, Schedule

(* A listener call leaves a well-formed scheduler.                         *)
LEMMA NotifyType ==
  ASSUME TypeOK, NEW p \in Peer, NEW on, Notify(p, on)
  PROVE  /\ timers' \subseteq Peer
         /\ listing' \in Listing \cup {None}
         /\ listing' # None => listing'.on \subseteq listing'.live
         /\ stopped' \in BOOLEAN /\ failed' \in BOOLEAN
<1>1. timers' \subseteq Peer
  BY DEF Notify, Configured, TypeOK
<1>2. CASE stopped
  BY <1>1, <1>2 DEF Notify, TypeOK
<1>3. CASE ~stopped /\ listing = None
  BY <1>1, <1>3, SnapshotType DEF Notify, Refresh, TypeOK
<1>4. CASE ~stopped /\ listing # None
  <2>1. /\ listing' \in Listing
        /\ listing'.on = listing.on /\ listing'.live = listing.live
    BY <1>4 DEF Notify, Refresh, TypeOK, Listing
  <2>2. QED BY <1>1, <1>4, <2>1 DEF Notify, TypeOK
<1>5. QED BY <1>2, <1>3, <1>4

LEMMA WaitType ==
  ASSUME TypeOK, NEW r \in Request, NEW job \in Job, Wait(r, job),
         job.op \in {"create", "write", "written"} => job.new # None
  PROVE  /\ request' \in [Request -> Job \cup {None}]
         /\ \A q \in Request :
              request'[q] # None /\ request'[q].op \in {"create", "write", "written"} =>
                request'[q].new # None
BY DEF TypeOK, Wait

LEMMA DoneType ==
  ASSUME TypeOK, NEW r \in Request, Done(r)
  PROVE  /\ request' \in [Request -> Job \cup {None}]
         /\ \A q \in Request :
              request'[q] # None /\ request'[q].op \in {"create", "write", "written"} =>
                request'[q].new # None
BY DEF TypeOK, Done

(* The job of a request that waits at op, and the job after a change of    *)
(* what it waits for.                                                      *)
LEMMA JobAt ==
  ASSUME TypeOK, NEW r \in Request, NEW op, At(r, op)
  PROVE  /\ request[r] \in Job /\ request[r].op = op
         /\ request[r].peer \in Peer /\ request[r].on \in Schedule
         /\ request[r].new \in Secret \cup {None} /\ request[r].old \in Secret \cup {None}
BY DEF TypeOK, At, Job

LEMMA JobExcept ==
  ASSUME NEW job \in Job,
         NEW op \in {"create", "created", "update", "write", "written", "restore", "remove"},
         NEW old \in Secret \cup {None}
  PROVE  /\ [job EXCEPT !.op = op] \in Job
         /\ [job EXCEPT !.op = op].op = op
         /\ [job EXCEPT !.op = op].new = job.new
         /\ [job EXCEPT !.op = op].peer = job.peer
         /\ [job EXCEPT !.old = old] \in Job
         /\ [job EXCEPT !.old = old].op = job.op
         /\ [job EXCEPT !.old = old].on = job.on
         /\ [job EXCEPT !.old = old].new = job.new
         /\ [job EXCEPT !.old = old].old = old
         /\ [job EXCEPT !.old = old].peer = job.peer
BY DEF Job

-----------------------------------------------------------------------------
(* Steps of the scheduler *)

LEMMA SchedulerSteps ==
  ASSUME IInv, ApplyList \/ ListAgain \/ ListFails \/ Stop
  PROVE  IInv'
<1> USE DEF IInv
<1>1. UNCHANGED <<peer, secret, request>>
  BY DEF ApplyList, ListAgain, ListFails, Stop
<1>2. \A T : Suits(T) <=> Suits(T)'
  BY <1>1 DEF Suits, Live, Creating
<1>3. CASE ApplyList
  BY <1>1, <1>3 DEF ApplyList, TypeOK, Caught, Suits, Live, Creating, Listing
<1>4. Suits(On)'
  BY DEF Suits, On, Live, Schedule
<1>5. CASE ListAgain
  <2>1. CASE stopped
    BY <1>1, <1>5, <2>1 DEF ListAgain, TypeOK, Caught
  <2>2. CASE ~stopped
    <3>1. listing' = Snapshot
      BY <1>5, <2>2 DEF ListAgain
    <3>2. TypeOK'
      BY <1>1, <1>5, <3>1, SnapshotType DEF ListAgain, TypeOK
    <3>3. QED BY <1>4, <3>1, <3>2, SnapshotType, NotNone DEF Caught
  <2>3. QED BY <2>1, <2>2
<1>6. CASE ListFails
  <2>1. CASE stopped \/ ~listing.stale
    BY <1>1, <1>6, <2>1 DEF ListFails, TypeOK, Caught
  <2>2. CASE ~stopped /\ listing.stale
    <3>1. listing' = Snapshot
      BY <1>6, <2>2 DEF ListFails
    <3>2. TypeOK'
      BY <1>1, <1>6, <3>1, SnapshotType DEF ListFails, TypeOK
    <3>3. QED BY <1>4, <3>1, <3>2, SnapshotType, NotNone DEF Caught
  <2>3. QED BY <2>1, <2>2
<1>7. CASE Stop
  BY <1>1, <1>7 DEF Stop, TypeOK, Caught
<1>8. QED BY <1>3, <1>5, <1>6, <1>7

-----------------------------------------------------------------------------
(* Steps of the requests *)

(* Whatever changed, listeners that were told have a fresh list under way  *)
(* or know that theirs is stale.                                           *)
LEMMA NoticedIsCaught ==
  ASSUME TypeOK, NEW p \in Peer, NEW on, Notify(p, on)
  PROVE  Caught'
<1>1. Suits(On)'
  BY DEF Suits, On, Live, Schedule
<1>2. CASE stopped
  BY <1>2 DEF Notify, Caught
<1>3. CASE ~stopped /\ listing = None
  <2>1. listing' = Snapshot
    BY <1>3 DEF Notify, Refresh
  <2>2. QED BY <1>1, <2>1, SnapshotType, NotNone DEF Caught
<1>4. CASE ~stopped /\ listing # None
  <2>1. listing' \in Listing /\ listing'.stale
    BY <1>4 DEF Notify, Refresh, TypeOK, Listing
  <2>2. QED BY <2>1, NotNone DEF Caught
<1>5. QED BY <1>2, <1>3, <1>4

(* A step nobody is told of must not change what listeners know.           *)
LEMMA UnnoticedIsCaught ==
  ASSUME IInv, Unnoticed,
         \A p \in Peer : p \in Live' /\ ~Creating(p)' =>
           p \in Live /\ ~Creating(p) /\ peer'[p] = peer[p],
         \A p \in Peer : peer'[p] = "gone" => peer[p] = "gone"
  PROVE  Caught'
<1>1. \A T : Suits(T) => Suits(T)'
  BY DEF Suits
<1>2. QED BY <1>1 DEF IInv, Caught, Unnoticed

(* What a request waits for does not change who is being created, unless   *)
(* it creates a peer itself.                                               *)
LEMMA CreatingKept ==
  ASSUME TypeOK, NEW r \in Request, ~At(r, "create"), ~At(r, "created"),
         NEW job, request' = [request EXCEPT ![r] = job]
  PROVE  \A p \in Peer : ~Creating(p)' => ~Creating(p)
BY DEF Creating, TypeOK, At

LEMMA CreateSteps ==
  ASSUME IInv, NEW r \in Request,
         \/ \E p \in Peer, on \in Schedule, s \in Secret : StartCreate(r, p, on, s)
         \/ CreateSecret(r) \/ FinishCreate(r) \/ FailCreate(r)
  PROVE  IInv'
<1> USE DEF IInv
<1>1. ASSUME NEW p \in Peer, NEW on \in Schedule, NEW s \in Secret, StartCreate(r, p, on, s)
      PROVE  IInv'
  <2> DEFINE job == [op |-> "create", peer |-> p, on |-> on, asked |-> TRUE,
                     new |-> s, old |-> None]
  <2>1. job \in Job /\ job.new # None
    BY NotNone DEF Job
  <2>2. Wait(r, job) /\ Unnoticed /\ secret' = secret
    BY <1>1 DEF StartCreate
  <2>3. peer' = [peer EXCEPT ![p] = on] /\ peer[p] = "unused"
    BY <1>1 DEF StartCreate
  <2>4. TypeOK'
    BY <2>1, <2>2, <2>3, WaitType DEF TypeOK, Unnoticed, Status
  <2>5. Creating(p)'
    BY <2>1, <2>2, NotNone DEF Creating, Wait, TypeOK
  <2>6. ~At(r, "create") /\ ~At(r, "created")
    BY <1>1 DEF StartCreate, At
  <2>7. \A q \in Peer : ~Creating(q)' => ~Creating(q)
    BY <2>2, <2>6, CreatingKept DEF Wait
  <2>8. Caught'
    BY <2>2, <2>3, <2>5, <2>7, UnnoticedIsCaught DEF Live, TypeOK, Schedule
  <2>9. QED BY <2>4, <2>8
<1>2. CASE CreateSecret(r)
  <2> DEFINE job == [request[r] EXCEPT !.op = "created"]
  <2>1. request[r] \in Job /\ request[r].op = "create" /\ request[r].peer \in Peer
        /\ request[r].new \in Secret \cup {None}
    BY <1>2, JobAt DEF CreateSecret
  <2>2. job \in Job /\ job.op = "created" /\ job.peer = request[r].peer
    BY <2>1, JobExcept
  <2>3. Wait(r, job) /\ Unnoticed /\ peer' = peer
        /\ secret' = [secret EXCEPT ![request[r].peer] = request[r].new]
    BY <1>2 DEF CreateSecret
  <2>4. TypeOK'
    BY <2>1, <2>2, <2>3, WaitType DEF TypeOK, Unnoticed
  <2>5. \A p \in Peer : ~Creating(p)' => ~Creating(p)
    BY <2>1, <2>2, <2>3, NotNone DEF Creating, Wait, TypeOK
  <2>6. Caught'
    BY <2>3, <2>5, UnnoticedIsCaught DEF Live
  <2>7. QED BY <2>4, <2>6
<1>3. CASE FinishCreate(r)
  <2>1. request[r].peer \in Peer
    BY <1>3, JobAt DEF FinishCreate
  <2>2. Done(r) /\ UNCHANGED <<peer, secret>> /\ Notify(request[r].peer, request[r].on)
    BY <1>3 DEF FinishCreate
  <2>3. TypeOK'
    BY <2>1, <2>2, DoneType, NotifyType DEF TypeOK
  <2>4. QED BY <2>1, <2>2, <2>3, NoticedIsCaught
<1>4. CASE FailCreate(r)
  <2> DEFINE q == request[r]
             job == [q EXCEPT !.op = "restore", !.old = None]
  <2>1. q \in Job /\ q.peer \in Peer
    BY <1>4, JobAt DEF FailCreate
  <2>2. job \in Job /\ job.op = "restore" /\ job.peer = q.peer
    BY <2>1 DEF Job
  <2>3. Wait(r, job) /\ Unnoticed /\ secret' = secret
        /\ peer' = [peer EXCEPT ![q.peer] = IF @ \in Schedule THEN "dropped" ELSE @]
    BY <1>4 DEF FailCreate
  <2>4. TypeOK'
    BY <2>1, <2>2, <2>3, WaitType DEF TypeOK, Unnoticed, Status
  <2>5. \A p \in Peer : p # q.peer /\ ~Creating(p)' => ~Creating(p)
    BY <2>1, <2>2, <2>3 DEF Creating, Wait, TypeOK
  <2>6. q.peer \notin Live'
    BY <2>1, <2>3 DEF Live, TypeOK, Schedule
  <2>7. \A p \in Peer : p # q.peer => peer'[p] = peer[p]
    BY <2>3 DEF TypeOK
  <2>8. \A p \in Peer : peer'[p] = "gone" => peer[p] = "gone"
    BY <2>1, <2>3 DEF TypeOK, Schedule
  <2>9. Caught'
    BY <2>3, <2>5, <2>6, <2>7, <2>8, UnnoticedIsCaught DEF Live
  <2>10. QED BY <2>4, <2>9
<1>5. QED BY <1>1, <1>2, <1>3, <1>4

(* A request that does not create a peer and changes no peer.              *)
LEMMA QuietStep ==
  ASSUME IInv, NEW r \in Request, ~At(r, "create"), ~At(r, "created"),
         NEW job, request' = [request EXCEPT ![r] = job],
         Unnoticed, peer' = peer
  PROVE  Caught'
<1>1. \A p \in Peer : ~Creating(p)' => ~Creating(p)
  BY CreatingKept DEF IInv
<1>2. QED BY <1>1, UnnoticedIsCaught DEF Live

LEMMA SaveStep ==
  ASSUME IInv, NEW r \in Request, NEW job \in Job, Save(r, job),
         ~At(r, "create"), ~At(r, "created"), secret' = secret
  PROVE  IInv'
<1>1. job.peer \in Peer /\ job.on \in Schedule
  BY DEF Job
<1>2. CASE job.peer \in Live /\ Notify(job.peer, job.on) /\ Done(r)
            /\ peer' = [peer EXCEPT ![job.peer] = job.on]
  <2>1. TypeOK'
    BY <1>1, <1>2, DoneType, NotifyType DEF IInv, TypeOK, Status
  <2>2. QED BY <1>1, <1>2, <2>1, NoticedIsCaught DEF IInv
<1>3. CASE Wait(r, [job EXCEPT !.op = "restore"]) /\ Unnoticed /\ peer' = peer
  <2>1. [job EXCEPT !.op = "restore"] \in Job /\ [job EXCEPT !.op = "restore"].op = "restore"
    BY DEF Job
  <2>2. TypeOK'
    BY <1>3, <2>1, WaitType DEF IInv, TypeOK, Unnoticed
  <2>3. QED BY <1>3, <2>2, QuietStep DEF IInv, Wait
<1>4. QED BY <1>2, <1>3 DEF Save

LEMMA UpdateSteps ==
  ASSUME IInv, NEW r \in Request,
         \/ \E p \in Peer, asked \in BOOLEAN, on \in Schedule, new \in Secret \cup {None} :
              StartUpdate(r, p, asked, on, new)
         \/ ReadSecret(r) \/ WriteSecret(r) \/ FinishUpdate(r) \/ FailUpdate(r)
         \/ RestoreSecret(r) \/ FailRequest(r)
  PROVE  IInv'
<1> USE DEF IInv
<1>1. ASSUME NEW p \in Peer, NEW asked \in BOOLEAN, NEW on \in Schedule,
             NEW new \in Secret \cup {None}, StartUpdate(r, p, asked, on, new)
      PROVE  IInv'
  <2> DEFINE job == [op |-> "update", peer |-> p, on |-> on, asked |-> asked,
                     new |-> new, old |-> None]
  <2>1. job \in Job /\ job.op = "update"
    BY DEF Job
  <2>2. Wait(r, job) /\ Unnoticed /\ UNCHANGED <<peer, secret>> /\ request[r] = None
    BY <1>1 DEF StartUpdate
  <2>3. TypeOK'
    BY <2>1, <2>2, WaitType DEF TypeOK, Unnoticed
  <2>4. QED BY <2>2, <2>3, QuietStep DEF Wait, At
<1>2. CASE ReadSecret(r)
  <2> DEFINE job == [request[r] EXCEPT !.old = secret[request[r].peer]]
  <2>1. request[r] \in Job /\ request[r].op = "update" /\ request[r].peer \in Peer
    BY <1>2, JobAt DEF ReadSecret
  <2>2. job \in Job /\ job.op = "update" /\ job.new = request[r].new
    <3>1. secret[request[r].peer] \in Secret \cup {None}
      BY <2>1 DEF TypeOK
    <3>2. QED BY <2>1, <3>1 DEF Job
  <2>3. ~At(r, "create") /\ ~At(r, "created") /\ secret' = secret
    BY <1>2, <2>1 DEF ReadSecret, At
  <2>4. CASE job.new # None /\ Wait(r, [job EXCEPT !.op = "write"]) /\ Unnoticed /\ peer' = peer
    <3>1. [job EXCEPT !.op = "write"] \in Job /\ [job EXCEPT !.op = "write"].new = job.new
      BY <2>2 DEF Job
    <3>2. TypeOK'
      BY <2>3, <2>4, <3>1, WaitType DEF TypeOK, Unnoticed
    <3>3. QED BY <2>3, <2>4, <3>2, QuietStep DEF Wait
  <2>5. CASE Save(r, job)
    BY <2>2, <2>3, <2>5, SaveStep
  <2>6. CASE Done(r) /\ Unnoticed /\ peer' = peer
    <3>1. TypeOK'
      BY <2>3, <2>6, DoneType DEF TypeOK, Unnoticed
    <3>2. QED BY <2>3, <2>6, <3>1, QuietStep DEF Done
  <2>7. QED BY <1>2, <2>4, <2>5, <2>6 DEF ReadSecret
<1>3. CASE WriteSecret(r)
  <2> DEFINE job == [request[r] EXCEPT !.op = "written"]
  <2>1. request[r] \in Job /\ request[r].op = "write" /\ request[r].peer \in Peer
        /\ request[r].new \in Secret \cup {None} /\ request[r].new # None
    BY <1>3, JobAt DEF WriteSecret, TypeOK, At
  <2>2. job \in Job /\ job.new = request[r].new
    BY <2>1, JobExcept
  <2>3. Wait(r, job) /\ Unnoticed /\ peer' = peer
        /\ secret' = [secret EXCEPT ![request[r].peer] = request[r].new]
    BY <1>3 DEF WriteSecret
  <2>4. TypeOK'
    BY <2>1, <2>2, <2>3, WaitType DEF TypeOK, Unnoticed
  <2>5. QED BY <2>1, <2>3, <2>4, QuietStep DEF Wait, At
<1>4. CASE FinishUpdate(r)
  BY <1>4, JobAt, SaveStep DEF FinishUpdate, At
<1>5. CASE FailUpdate(r)
  <2> DEFINE job == [request[r] EXCEPT !.op = "restore"]
  <2>1. request[r] \in Job /\ request[r].op = "write"
    BY <1>5, JobAt DEF FailUpdate
  <2>2. job \in Job /\ job.op = "restore"
    BY <2>1 DEF Job
  <2>3. Wait(r, job) /\ Unnoticed /\ UNCHANGED <<peer, secret>>
    BY <1>5 DEF FailUpdate
  <2>4. TypeOK'
    BY <2>2, <2>3, WaitType DEF TypeOK, Unnoticed
  <2>5. QED BY <2>1, <2>3, <2>4, QuietStep DEF Wait, At
<1>6. CASE RestoreSecret(r)
  <2>1. request[r].op = "restore" /\ request[r].peer \in Peer
        /\ request[r].old \in Secret \cup {None}
    BY <1>6, JobAt DEF RestoreSecret
  <2>2. Done(r) /\ Unnoticed /\ peer' = peer
        /\ secret' = [secret EXCEPT ![request[r].peer] = request[r].old]
    BY <1>6 DEF RestoreSecret
  <2>3. TypeOK'
    BY <2>1, <2>2, DoneType DEF TypeOK, Unnoticed
  <2>4. QED BY <2>1, <2>2, <2>3, QuietStep DEF Done, At
<1>7. CASE FailRequest(r)
  <2>1. Done(r) /\ Unnoticed /\ UNCHANGED <<peer, secret>>
        /\ ~At(r, "create") /\ ~At(r, "created")
    BY <1>7 DEF FailRequest, At
  <2>2. TypeOK'
    BY <2>1, DoneType DEF TypeOK, Unnoticed
  <2>3. QED BY <2>1, <2>2, QuietStep DEF Done
<1>8. QED BY <1>1, <1>2, <1>3, <1>4, <1>5, <1>6, <1>7

LEMMA RemoveSteps ==
  ASSUME IInv, NEW r \in Request,
         (\E p \in Peer : StartRemove(r, p)) \/ FinishRemove(r)
  PROVE  IInv'
<1> USE DEF IInv
<1>1. ASSUME NEW p \in Peer, StartRemove(r, p)
      PROVE  IInv'
  <2> DEFINE job == [op |-> "remove", peer |-> p, on |-> "off", asked |-> TRUE,
                     new |-> None, old |-> None]
  <2>1. job \in Job /\ job.op = "remove"
    BY DEF Job, Schedule
  <2>2. Wait(r, job) /\ Notify(p, "off") /\ secret' = secret
        /\ peer' = [peer EXCEPT ![p] = "gone"]
    BY <1>1 DEF StartRemove
  <2>3. TypeOK'
    BY <2>1, <2>2, WaitType, NotifyType DEF TypeOK, Status
  <2>4. QED BY <2>2, <2>3, NoticedIsCaught
<1>2. CASE FinishRemove(r)
  <2>1. request[r].op = "remove" /\ request[r].peer \in Peer
    BY <1>2, JobAt DEF FinishRemove
  <2>2. Done(r) /\ Unnoticed /\ peer' = peer
        /\ secret' = [secret EXCEPT ![request[r].peer] = None]
    BY <1>2 DEF FinishRemove
  <2>3. TypeOK'
    BY <2>1, <2>2, DoneType DEF TypeOK, Unnoticed
  <2>4. QED BY <2>1, <2>2, <2>3, QuietStep DEF Done, At
<1>3. QED BY <1>1, <1>2

-----------------------------------------------------------------------------
(* The invariant, and what follows from it *)

LEMMA InitHolds == Init => IInv
<1> SUFFICES ASSUME Init PROVE IInv
  OBVIOUS
<1>1. PICK present \in SUBSET Peer, on \in SUBSET Peer, s \in Secret :
         /\ on \subseteq present
         /\ peer = [p \in Peer |-> IF p \in on THEN "on"
                                  ELSE IF p \in present THEN "off" ELSE "unused"]
         /\ secret = [p \in Peer |-> IF p \in present THEN s ELSE None]
         /\ listing = [live |-> present, on |-> on, stale |-> FALSE]
  BY DEF Init
<1>2. listing \in Listing /\ listing.on = on /\ listing.live = present
  BY <1>1 DEF Listing
<1>3. TypeOK
  BY <1>1, <1>2 DEF Init, TypeOK, Status, Schedule
<1>4. Suits(on)
  BY <1>1 DEF Suits
<1>5. QED BY <1>2, <1>3, <1>4, NotNone DEF IInv, Caught

LEMMA StepHolds == IInv /\ [Next]_vars => IInv'
<1> SUFFICES ASSUME IInv, [Next]_vars
             PROVE  IInv'
  OBVIOUS
<1>1. CASE Calm
  BY <1>1, SchedulerSteps, CreateSteps, UpdateSteps, RemoveSteps DEF Calm
<1>2. CASE Fault
  BY <1>2, SchedulerSteps, CreateSteps, UpdateSteps DEF Fault
<1>3. CASE UNCHANGED vars
  <2>1. TypeOK'
    BY <1>3 DEF vars, IInv, TypeOK
  <2>2. Caught'
    BY <1>3 DEF vars, IInv, Caught, Suits, Live, Creating
  <2>3. QED BY <2>1, <2>2 DEF IInv
<1>4. QED BY <1>1, <1>2, <1>3 DEF Next

(* The inductive invariant holds throughout.                               *)
THEOREM Invariance == Spec => []IInv
BY InitHolds, StepHolds, PTL DEF Spec

(* Every variable keeps its shape, and only a given secret is written.     *)
THEOREM TypeCorrect == Spec => []TypeOK
<1>1. IInv => TypeOK
  BY DEF IInv
<1>2. QED BY <1>1, Invariance, PTL

(* Whenever the scheduler has caught up, the enabled peers are the ones    *)
(* with a timer, whatever was created, changed, removed or refused while   *)
(* it was listing.                                                         *)
THEOREM SchedulesSettle == Spec => []ScheduleSettles
<1>1. IInv => ScheduleSettles
  BY DEF IInv, Caught, Suits, ScheduleSettles
<1>2. QED BY <1>1, Invariance, PTL

(* Nothing writes a peer that was removed: every write finds it live.      *)
LEMMA GoneIsKept ==
  ASSUME IInv, Next, NEW p \in Peer, peer[p] \in {"gone", "dropped"}
  PROVE  peer'[p] = peer[p]
<1> USE DEF IInv, TypeOK, Schedule
<1>1. p \notin Live
  BY DEF Live
<1>2. ASSUME NEW r \in Request, NEW job, Save(r, job)
      PROVE  peer'[p] = peer[p]
  BY <1>1, <1>2 DEF Save
<1>3. ASSUME NEW r \in Request, ReadSecret(r) \/ FinishUpdate(r)
      PROVE  peer'[p] = peer[p]
  BY <1>2, <1>3 DEF ReadSecret, FinishUpdate
<1>4. ASSUME NEW r \in Request, NEW q \in Peer, NEW on \in Schedule, NEW s \in Secret,
             StartCreate(r, q, on, s)
      PROVE  peer'[p] = peer[p]
  BY <1>4 DEF StartCreate
<1>5. ASSUME NEW r \in Request, NEW q \in Peer, StartRemove(r, q)
      PROVE  peer'[p] = peer[p]
  BY <1>1, <1>5 DEF StartRemove
<1>6. ASSUME NEW r \in Request, FailCreate(r)
      PROVE  peer'[p] = peer[p]
  BY <1>6 DEF FailCreate
<1>7. QED
  BY <1>3, <1>4, <1>5, <1>6
  DEF Next, Calm, Fault, ApplyList, ListAgain, ListFails, Stop, CreateSecret,
      FinishCreate, StartUpdate, WriteSecret, FailUpdate, RestoreSecret,
      FinishRemove, FailRequest

(* A peer that was removed, or dropped with its creation, stays so.        *)
THEOREM RemovedPeersStayGone == Spec => RemovedStaysGone
<1>1. IInv /\ [Next]_vars =>
        [\A p \in Peer : peer[p] \in {"gone", "dropped"} => peer'[p] = peer[p]]_vars
  BY GoneIsKept
<1>2. QED BY <1>1, Invariance, PTL DEF Spec, RemovedStaysGone

-----------------------------------------------------------------------------
(* Credentials, while the credentials service answers *)

(* No request speaks of a peer that was never created; credentials are put *)
(* back or deleted only for peers that are gone for good; a peer that is   *)
(* there has credentials or a creation that will still write them.         *)
Served ==
  /\ \A r \in Request : request[r] # None => peer[request[r].peer] # "unused"
  /\ \A r \in Request : request[r] # None /\ request[r].op \in {"restore", "remove"} =>
                         peer[request[r].peer] \in {"gone", "dropped"}
  /\ \A p \in Live : secret[p] # None \/
                      \E r \in Request : At(r, "create") /\ request[r].peer = p

(* A request changes neither peers nor secrets and is no creation.         *)
LEMMA ServedByRequest ==
  ASSUME IInv, Served, NEW r \in Request, NEW job \in Job \cup {None},
         request' = [request EXCEPT ![r] = job],
         UNCHANGED <<peer, secret>>, ~At(r, "create"),
         job # None => /\ peer[job.peer] # "unused"
                       /\ job.op \notin {"restore", "remove"} \/
                          peer[job.peer] \in {"gone", "dropped"}
  PROVE  Served'
<1>1. \A q \in Request : request'[q] = IF q = r THEN job ELSE request[q]
  BY DEF IInv, TypeOK
<1>2. \A q \in Request : At(q, "create") => At(q, "create")' /\ request'[q] = request[q]
  BY <1>1 DEF At
<1>3. QED BY <1>1, <1>2 DEF Served, Live

(* Credentials are written for a peer by a request that ends or goes on.   *)
LEMMA ServedByWrite ==
  ASSUME IInv, Served, NEW r \in Request, NEW job \in Job \cup {None},
         request' = [request EXCEPT ![r] = job],
         request[r] # None, peer' = peer,
         NEW s, secret' = [secret EXCEPT ![request[r].peer] = s],
         s # None \/ request[r].op \in {"restore", "remove"},
         job # None => job.peer = request[r].peer /\ job.op \notin {"restore", "remove"}
  PROVE  Served'
<1> USE DEF IInv, TypeOK
<1>1. \A q \in Request : request'[q] = IF q = r THEN job ELSE request[q]
  OBVIOUS
<1>2. request[r] \in Job /\ request[r].peer \in Peer
  BY DEF Job
<1>3. \A p \in Peer : secret'[p] = IF p = request[r].peer THEN s ELSE secret[p]
  OBVIOUS
<1>4. ASSUME NEW p \in Live
      PROVE  secret'[p] # None \/ \E q \in Request : At(q, "create")' /\ request'[q].peer = p
  <2>1. CASE p = request[r].peer
    BY <1>3, <2>1 DEF Served, Live, Schedule
  <2>2. CASE p # request[r].peer
    BY <1>1, <1>3, <2>2 DEF Served, Live, At
  <2>3. QED BY <2>1, <2>2
<1>5. Live' = Live
  BY DEF Live
<1>6. QED BY <1>1, <1>2, <1>4, <1>5 DEF Served

(* A request changes the state of a peer that stays or is removed.         *)
LEMMA ServedByChange ==
  ASSUME IInv, Served, NEW r \in Request, ~At(r, "create"),
         NEW job \in Job \cup {None}, request' = [request EXCEPT ![r] = job],
         secret' = secret, NEW p \in Live, NEW to \in Status \ {"unused"},
         peer' = [peer EXCEPT ![p] = to],
         job # None => job.peer = p /\ to = "gone"
  PROVE  Served'
<1> USE DEF IInv, TypeOK
<1>1. \A q \in Request : request'[q] = IF q = r THEN job ELSE request[q]
  OBVIOUS
<1>2. p \in Peer /\ peer[p] \in Schedule
  BY DEF Live
<1>3. \A q \in Peer : peer'[q] = IF q = p THEN to ELSE peer[q]
  BY <1>2
<1>4. \A q \in Request : request[q] # None => request[q].peer \in Peer
  BY DEF Job
<1>5. \A q \in Request : request'[q] # None => peer'[request'[q].peer] # "unused"
  BY <1>1, <1>2, <1>3, <1>4 DEF Served
<1>6. \A q \in Request : request'[q] # None /\ request'[q].op \in {"restore", "remove"} =>
        peer'[request'[q].peer] \in {"gone", "dropped"}
  BY <1>1, <1>2, <1>3, <1>4 DEF Served, Schedule
<1>7. \A q \in Live' : q \in Live
  BY <1>2, <1>3 DEF Live
<1>8. \A q \in Request : At(q, "create") => At(q, "create")' /\ request'[q] = request[q]
  BY <1>1 DEF At
<1>9. QED BY <1>5, <1>6, <1>7, <1>8 DEF Served

LEMMA SaveServes ==
  ASSUME IInv, Served, NEW r \in Request, NEW job \in Job, Save(r, job),
         request[r] # None, request[r].peer = job.peer, ~At(r, "create"), secret' = secret
  PROVE  Served'
<1>1. job.peer \in Peer /\ job.on \in Status \ {"unused"}
  BY DEF Job, Status, Schedule
<1>2. CASE job.peer \in Live /\ Done(r) /\ peer' = [peer EXCEPT ![job.peer] = job.on]
  BY <1>1, <1>2, ServedByChange DEF Done
<1>3. CASE job.peer \notin Live /\ Wait(r, [job EXCEPT !.op = "restore"]) /\ peer' = peer
  <2> DEFINE next == [job EXCEPT !.op = "restore"]
  <2>1. next \in Job /\ next.peer = job.peer
    BY JobExcept
  <2>2. peer[job.peer] \in {"gone", "dropped"}
    BY <1>1, <1>3 DEF Served, Live, IInv, TypeOK, Status
  <2>3. request' = [request EXCEPT ![r] = next]
    BY <1>3 DEF Wait
  <2> HIDE DEF next
  <2>4. QED BY <1>3, <2>1, <2>2, <2>3, ServedByRequest
<1>4. QED BY <1>2, <1>3 DEF Save

LEMMA CreationServes ==
  ASSUME IInv, Served, NEW r \in Request, NEW p \in Peer, NEW on \in Schedule,
         NEW s \in Secret, StartCreate(r, p, on, s)
  PROVE  Served'
<1> USE DEF IInv, TypeOK
<1> DEFINE job == [op |-> "create", peer |-> p, on |-> on, asked |-> TRUE,
                   new |-> s, old |-> None]
<1>1. /\ request[r] = None /\ peer[p] = "unused" /\ secret' = secret
      /\ peer' = [peer EXCEPT ![p] = on] /\ request' = [request EXCEPT ![r] = job]
  BY DEF StartCreate, Wait
<1>2. job \in Job /\ job.op = "create" /\ job.peer = p
  BY DEF Job
<1> HIDE DEF job
<1>3. \A q \in Request : request'[q] = IF q = r THEN job ELSE request[q]
  BY <1>1
<1>4. \A q \in Peer : peer'[q] = IF q = p THEN on ELSE peer[q]
  BY <1>1
<1>5. \A q \in Request : request[q] # None => request[q].peer \in Peer \ {p}
  BY <1>1 DEF Served, Job
<1>6. job # None
  BY <1>2, NotNone
<1>7. \A q \in Request : request'[q] # None => peer'[request'[q].peer] # "unused"
  BY <1>2, <1>3, <1>4, <1>5 DEF Served, Schedule
<1>8. \A q \in Request : request'[q] # None /\ request'[q].op \in {"restore", "remove"} =>
        peer'[request'[q].peer] \in {"gone", "dropped"}
  BY <1>2, <1>3, <1>4, <1>5 DEF Served
<1>9. \A q \in Request : At(q, "create") => At(q, "create")' /\ request'[q] = request[q]
  BY <1>1, <1>3 DEF At
<1>10. At(r, "create")' /\ request'[r].peer = p
  BY <1>2, <1>3, <1>6 DEF At
<1>11. \A q \in Live' : q = p \/ q \in Live
  BY <1>4 DEF Live
<1>12. QED BY <1>1, <1>7, <1>8, <1>9, <1>10, <1>11 DEF Served

LEMMA CalmServes ==
  ASSUME IInv, Served, Calm
  PROVE  Served'
<1> USE DEF IInv
<1>1. CASE ApplyList \/ ListAgain \/ Stop
  BY <1>1 DEF ApplyList, ListAgain, Stop, Served, Live, At
<1>2. ASSUME NEW r \in Request, NEW p \in Peer, NEW asked \in BOOLEAN,
             NEW on \in Schedule, NEW new \in Secret \cup {None},
             StartUpdate(r, p, asked, on, new)
      PROVE  Served'
  <2> DEFINE job == [op |-> "update", peer |-> p, on |-> on, asked |-> asked,
                     new |-> new, old |-> None]
  <2>1. job \in Job /\ job.op = "update" /\ job.peer = p
    BY DEF Job
  <2>2. /\ request' = [request EXCEPT ![r] = job] /\ UNCHANGED <<peer, secret>>
        /\ ~At(r, "create") /\ peer[p] # "unused"
    BY <1>2 DEF StartUpdate, Wait, At, Live, Schedule
  <2> HIDE DEF job
  <2>3. QED BY <2>1, <2>2, ServedByRequest
<1>3. ASSUME NEW r \in Request, NEW p \in Peer, StartRemove(r, p) PROVE Served'
  <2> DEFINE job == [op |-> "remove", peer |-> p, on |-> "off", asked |-> TRUE,
                     new |-> None, old |-> None]
  <2>1. job \in Job /\ job.peer = p
    BY DEF Job, Schedule
  <2>2. /\ request' = [request EXCEPT ![r] = job] /\ secret' = secret /\ p \in Live
        /\ peer' = [peer EXCEPT ![p] = "gone"] /\ ~At(r, "create")
    BY <1>3 DEF StartRemove, Wait, At
  <2> HIDE DEF job
  <2>3. QED BY <2>1, <2>2, ServedByChange DEF Status
<1>4. ASSUME NEW r \in Request, CreateSecret(r) PROVE Served'
  <2> DEFINE job == [request[r] EXCEPT !.op = "created"]
  <2>1. request[r] \in Job /\ request[r] # None /\ request[r].new # None
    BY <1>4, JobAt DEF CreateSecret, At, TypeOK
  <2>2. job \in Job /\ job.op = "created" /\ job.peer = request[r].peer
    BY <2>1, JobExcept
  <2>3. /\ request' = [request EXCEPT ![r] = job] /\ peer' = peer
        /\ secret' = [secret EXCEPT ![request[r].peer] = request[r].new]
    BY <1>4 DEF CreateSecret, Wait
  <2> HIDE DEF job
  <2>4. QED BY <2>1, <2>2, <2>3, ServedByWrite
<1>5. ASSUME NEW r \in Request, FinishCreate(r) PROVE Served'
  BY <1>5, ServedByRequest DEF FinishCreate, Done, At
<1>6. ASSUME NEW r \in Request, ReadSecret(r) PROVE Served'
  <2> DEFINE job == [request[r] EXCEPT !.old = secret[request[r].peer]]
             next == [job EXCEPT !.op = "write"]
  <2>1. request[r] \in Job /\ request[r] # None /\ request[r].op = "update"
    BY <1>6, JobAt DEF ReadSecret, At
  <2>2. job \in Job /\ job.peer = request[r].peer
    BY <2>1, JobExcept DEF TypeOK, Job
  <2>3. next \in Job /\ next.op = "write" /\ next.peer = request[r].peer
    BY <2>2, JobExcept
  <2>4. secret' = secret /\ ~At(r, "create") /\ peer[request[r].peer] # "unused"
    BY <1>6, <2>1 DEF ReadSecret, At, Served
  <2>5. \/ Wait(r, next) /\ peer' = peer
        \/ Save(r, job)
        \/ Done(r) /\ peer' = peer
    BY <1>6 DEF ReadSecret
  <2> HIDE DEF job, next
  <2>6. CASE Wait(r, next) /\ peer' = peer
    BY <2>3, <2>4, <2>6, ServedByRequest DEF Wait
  <2>7. CASE Save(r, job)
    BY <2>1, <2>2, <2>4, <2>7, SaveServes
  <2>8. CASE Done(r) /\ peer' = peer
    BY <2>4, <2>8, ServedByRequest DEF Done
  <2>9. QED BY <2>5, <2>6, <2>7, <2>8
<1>7. ASSUME NEW r \in Request, WriteSecret(r) PROVE Served'
  <2> DEFINE job == [request[r] EXCEPT !.op = "written"]
  <2>1. request[r] \in Job /\ request[r] # None /\ request[r].new # None
    BY <1>7, JobAt DEF WriteSecret, At, TypeOK
  <2>2. job \in Job /\ job.op = "written" /\ job.peer = request[r].peer
    BY <2>1, JobExcept
  <2>3. /\ request' = [request EXCEPT ![r] = job] /\ peer' = peer
        /\ secret' = [secret EXCEPT ![request[r].peer] = request[r].new]
    BY <1>7 DEF WriteSecret, Wait
  <2> HIDE DEF job
  <2>4. QED BY <2>1, <2>2, <2>3, ServedByWrite
<1>8. ASSUME NEW r \in Request, FinishUpdate(r) PROVE Served'
  BY <1>8, JobAt, SaveServes DEF FinishUpdate, At
<1>9. ASSUME NEW r \in Request, RestoreSecret(r) PROVE Served'
  BY <1>9, ServedByWrite DEF RestoreSecret, Done, At
<1>10. ASSUME NEW r \in Request, FinishRemove(r) PROVE Served'
  BY <1>10, ServedByWrite DEF FinishRemove, Done, At
<1>11. QED
  BY <1>1, <1>2, <1>3, <1>4, <1>5, <1>6, <1>7, <1>8, <1>9, <1>10, CreationServes DEF Calm

(* While the credentials service answers, no interleaving of creations,    *)
(* rotations, restored records and removals leaves a peer nobody works on  *)
(* without credentials: what is put back or deleted is a removed peer's.   *)
THEOREM LivePeersHaveSecrets == MC_Spec => []MC_LivePeerHasSecret
<1> DEFINE CInv == IInv /\ calm \in BOOLEAN /\ (calm => Served)
<1>1. Init => Served
  <2> SUFFICES ASSUME Init PROVE Served
    OBVIOUS
  <2>1. PICK present \in SUBSET Peer, on \in SUBSET Peer, s \in Secret :
           /\ on \subseteq present
           /\ peer = [p \in Peer |-> IF p \in on THEN "on"
                                    ELSE IF p \in present THEN "off" ELSE "unused"]
           /\ secret = [p \in Peer |-> IF p \in present THEN s ELSE None]
    BY DEF Init
  <2>2. \A p \in Live : secret[p] # None
    BY <2>1, NotNone DEF Live, Schedule
  <2>3. QED BY <2>2 DEF Init, Served
<1>2. Init /\ calm \in BOOLEAN => CInv
  BY <1>1, InitHolds
<1>3. CInv /\ (Calm \/ (~calm /\ Fault)) /\ UNCHANGED calm => CInv'
  BY StepHolds, CalmServes DEF Next
<1>4. CInv /\ UNCHANGED <<vars, calm>> => CInv'
  <2>1. Served /\ UNCHANGED vars => Served'
    BY DEF vars, Served, Live, At
  <2>2. QED BY <2>1, StepHolds
<1>5. CInv => MC_LivePeerHasSecret
  BY DEF MC_LivePeerHasSecret, LivePeerHasSecret, Served, At
<1>6. QED BY <1>2, <1>3, <1>4, <1>5, PTL DEF MC_Spec
=============================================================================
