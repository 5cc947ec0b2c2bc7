---------------------------- MODULE PeerSchedule ----------------------------
(***************************************************************************)
(* Sync peers, their credentials and their five-minute timers.             *)
(*                                                                         *)
(* SyncPeerManager serves concurrent requests; each waits for the          *)
(* credentials service between its steps, while the peer file changes at   *)
(* once.  SyncScheduler follows the peers with timers: it is told of a     *)
(* change, sets or clears that peer's timer, and lists all peers again,    *)
(* which takes time, dropping a list that a change has made stale.         *)
(*                                                                         *)
(* A peer is what the scheduler sees of it: whether it is enabled with     *)
(* the schedule every-5m.  Peer ids are random and never used twice.       *)
(***************************************************************************)
EXTENDS Naturals

CONSTANTS Peer,     \* peer ids
          Secret,   \* SSH secrets
          Request,  \* concurrent requests
          None      \* no credentials, no request, no list under way

(* A peer that is not there has not been created, was removed by a user,   *)
(* or was dropped because its creation failed.                             *)
Schedule == {"on", "off"}
Status == Schedule \cup {"unused", "gone", "dropped"}

VARIABLES
  peer,     \* sync-peers.json: and what became of other peers
  secret,   \* the credentials service
  request,  \* request[r]: what a request waits for, or None
  timers,   \* peers with an interval timer
  listing,  \* the list the scheduler waits for, or None
  stopped,  \* the scheduler has been disposed of
  failed    \* the last list the scheduler asked for failed

vars == <<peer, secret, request, timers, listing, stopped, failed>>

Live == {p \in Peer : peer[p] \in Schedule}
On == {p \in Peer : peer[p] = "on"}

(* What a request waits for.  A creation: for the secret to be written     *)
(* ("create"), then for the view ("created").  An update: for the record   *)
(* before it ("update"), for the new one ("write"), or for the old one to  *)
(* be put back ("restore"), as when a creation is undone ("restore" with   *)
(* nothing before).  A removal: for the credentials to be deleted.  on is  *)
(* the schedule to be saved, and asked whether the request asked for it.   *)
Job == [op : {"create", "created", "update", "write", "written", "restore", "remove"},
        peer : Peer, on : Schedule, asked : BOOLEAN, new : Secret \cup {None},
        old : Secret \cup {None}]
Listing == [live : SUBSET Peer, on : SUBSET Peer, stale : BOOLEAN]

ASSUME NoneAssumption == None \notin Secret \cup Job \cup Listing

Wait(r, job) == request' = [request EXCEPT ![r] = job]
Done(r) == request' = [request EXCEPT ![r] = None]
At(r, op) == request[r] # None /\ request[r].op = op

-----------------------------------------------------------------------------
(* SyncScheduler *)

(* configure(): a timer for a peer that wants one, none for another.       *)
Configured(p, on) == IF on = "on" THEN timers \cup {p} ELSE timers \ {p}

(* peers.list() reads the file at once and the credentials later.          *)
Snapshot == [live |-> Live', on |-> On', stale |-> FALSE]

(* Wrong on purpose: the scheduler is not told that its list is stale.     *)
RefreshUnmarked == IF listing = None THEN Snapshot ELSE listing

(* refresh(): list again, or mark the list under way as stale.             *)
Refresh == IF listing = None THEN Snapshot ELSE [listing EXCEPT !.stale = TRUE]

(* A listener call: a peer is there, with its schedule, or it is not.      *)
Notify(p, on) ==
  /\ timers' = IF stopped THEN timers ELSE Configured(p, on)
  /\ listing' = IF stopped THEN listing ELSE Refresh
  /\ UNCHANGED <<stopped, failed>>

Unnoticed == UNCHANGED <<timers, listing, stopped, failed>>

(* The list is there and nothing has changed since: the timers follow it.  *)
ApplyList ==
  /\ listing # None
  /\ ~listing.stale
  /\ timers' = listing.on
  /\ listing' = None
  /\ failed' = FALSE
  /\ UNCHANGED <<peer, secret, request, stopped>>

(* Something has changed: list again, unless the scheduler has stopped.    *)
ListAgain ==
  /\ listing # None
  /\ listing.stale
  /\ UNCHANGED <<peer, secret, request, timers, stopped, failed>>
  /\ listing' = IF stopped THEN None ELSE Snapshot

(* The credentials cannot be read: give up, unless more has changed.       *)
ListFails ==
  /\ listing # None
  /\ failed' = TRUE
  /\ UNCHANGED <<peer, secret, request, timers, stopped>>
  /\ listing' = IF listing.stale /\ ~stopped THEN Snapshot ELSE None

Stop ==
  /\ ~stopped
  /\ stopped' = TRUE
  /\ timers' = {}
  /\ UNCHANGED <<peer, secret, request, listing, failed>>

-----------------------------------------------------------------------------
(* SyncPeerManager: creation *)

StartCreate(r, p, on, s) ==
  /\ request[r] = None
  /\ peer[p] = "unused"
  /\ peer' = [peer EXCEPT ![p] = on]
  /\ Wait(r, [op |-> "create", peer |-> p, on |-> on, asked |-> TRUE,
              new |-> s, old |-> None])
  /\ Unnoticed
  /\ UNCHANGED secret

CreateSecret(r) ==
  /\ At(r, "create")
  /\ secret' = [secret EXCEPT ![request[r].peer] = request[r].new]
  /\ Wait(r, [request[r] EXCEPT !.op = "created"])
  /\ Unnoticed
  /\ UNCHANGED peer

(* The listeners get the peer as it was created.                           *)
FinishCreate(r) ==
  /\ At(r, "created")
  /\ Done(r)
  /\ UNCHANGED <<peer, secret>>
  /\ Notify(request[r].peer, request[r].on)

(* The secret or the view fails: the peer is taken out of the file, and    *)
(* nobody is told.                                                         *)
FailCreate(r) ==
  /\ At(r, "create") \/ At(r, "created")
  /\ peer' = [peer EXCEPT ![request[r].peer] = IF @ \in Schedule THEN "dropped" ELSE @]
  /\ Wait(r, [request[r] EXCEPT !.op = "restore", !.old = None])
  /\ Unnoticed
  /\ UNCHANGED secret

-----------------------------------------------------------------------------
(* SyncPeerManager: update *)

(* The patch is completed from the peer as it is now: a request that asks  *)
(* for other changes carries the schedule the peer has.  new is a secret   *)
(* to rotate to, or None.                                                  *)
StartUpdate(r, p, asked, on, new) ==
  /\ request[r] = None
  /\ p \in Live
  /\ asked \/ on = peer[p]
  /\ Wait(r, [op |-> "update", peer |-> p, on |-> on, asked |-> asked,
              new |-> new, old |-> None])
  /\ Unnoticed
  /\ UNCHANGED <<peer, secret>>

(* Wrong on purpose: the credentials are put back in any case.             *)
SaveThenRestore(r, job) ==
  /\ job.peer \in Live
  /\ peer' = [peer EXCEPT ![job.peer] = job.on]
  /\ Wait(r, [job EXCEPT !.op = "restore"])
  /\ Notify(job.peer, job.on)

(* Wrong on purpose: the peer is written whether or not it is still there. *)
SaveUpsert(r, job) ==
  /\ peer' = [peer EXCEPT ![job.peer] = job.on]
  /\ Done(r)
  /\ Notify(job.peer, job.on)

(* The completed patch is written over the peer, which must still exist;   *)
(* otherwise the credentials found at first are put back.                  *)
Save(r, job) ==
  \/ /\ job.peer \in Live
     /\ peer' = [peer EXCEPT ![job.peer] = job.on]
     /\ Done(r)
     /\ Notify(job.peer, job.on)
  \/ /\ job.peer \notin Live
     /\ Wait(r, [job EXCEPT !.op = "restore"])
     /\ Unnoticed
     /\ UNCHANGED peer

(* Wrong on purpose: the secret is written even if none was given.         *)
ReadSecretAlways(r) ==
  /\ At(r, "update")
  /\ Wait(r, [request[r] EXCEPT !.op = "write", !.old = secret[request[r].peer]])
  /\ Unnoticed
  /\ UNCHANGED <<peer, secret>>

(* The credentials before are known: without any the update needs new ones.*)
ReadSecret(r) ==
  /\ At(r, "update")
  /\ LET job == [request[r] EXCEPT !.old = secret[request[r].peer]]
     IN  \/ /\ job.new # None
            /\ Wait(r, [job EXCEPT !.op = "write"])
            /\ Unnoticed
            /\ UNCHANGED peer
         \/ job.new = None /\ job.old # None /\ Save(r, job)
         \/ /\ job.new = None /\ job.old = None
            /\ Done(r)
            /\ Unnoticed
            /\ UNCHANGED peer
  /\ UNCHANGED secret

WriteSecret(r) ==
  /\ At(r, "write")
  /\ secret' = [secret EXCEPT ![request[r].peer] = request[r].new]
  /\ Wait(r, [request[r] EXCEPT !.op = "written"])
  /\ Unnoticed
  /\ UNCHANGED peer

FinishUpdate(r) ==
  /\ At(r, "written")
  /\ Save(r, request[r])
  /\ UNCHANGED secret

FailUpdate(r) ==
  /\ At(r, "write")
  /\ Wait(r, [request[r] EXCEPT !.op = "restore"])
  /\ Unnoticed
  /\ UNCHANGED <<peer, secret>>

RestoreSecret(r) ==
  /\ At(r, "restore")
  /\ secret' = [secret EXCEPT ![request[r].peer] = request[r].old]
  /\ Done(r)
  /\ Unnoticed
  /\ UNCHANGED peer

-----------------------------------------------------------------------------
(* SyncPeerManager: removal *)

StartRemove(r, p) ==
  /\ request[r] = None
  /\ p \in Live
  /\ peer' = [peer EXCEPT ![p] = "gone"]
  /\ Wait(r, [op |-> "remove", peer |-> p, on |-> "off", asked |-> TRUE,
              new |-> None, old |-> None])
  /\ Notify(p, "off")
  /\ UNCHANGED secret

FinishRemove(r) ==
  /\ At(r, "remove")
  /\ secret' = [secret EXCEPT ![request[r].peer] = None]
  /\ Done(r)
  /\ Unnoticed
  /\ UNCHANGED peer

(* A read, a write or a deletion of credentials fails and so does the      *)
(* request.                                                                *)
FailRequest(r) ==
  /\ At(r, "update") \/ At(r, "restore") \/ At(r, "remove")
  /\ Done(r)
  /\ Unnoticed
  /\ UNCHANGED <<peer, secret>>

-----------------------------------------------------------------------------
(* At the start the scheduler lists the peers of the file.                 *)
Init ==
  /\ \E present \in SUBSET Peer, on \in SUBSET Peer, s \in Secret :
       /\ on \subseteq present
       /\ peer = [p \in Peer |-> IF p \in on THEN "on"
                             ELSE IF p \in present THEN "off" ELSE "unused"]
       /\ secret = [p \in Peer |-> IF p \in present THEN s ELSE None]
       /\ listing = [live |-> present, on |-> on, stale |-> FALSE]
  /\ request = [r \in Request |-> None]
  /\ timers = {}
  /\ stopped = FALSE
  /\ failed = FALSE

Calm ==
  \/ ApplyList \/ ListAgain \/ Stop
  \/ \E r \in Request :
       \/ \E p \in Peer :
            \/ \E on \in Schedule, s \in Secret : StartCreate(r, p, on, s)
            \/ \E asked \in BOOLEAN, on \in Schedule, new \in Secret \cup {None} :
                 StartUpdate(r, p, asked, on, new)
            \/ StartRemove(r, p)
       \/ CreateSecret(r) \/ FinishCreate(r)
       \/ ReadSecret(r) \/ WriteSecret(r) \/ FinishUpdate(r) \/ RestoreSecret(r)
       \/ FinishRemove(r)

(* The credentials service refuses. *)
Fault ==
  \/ ListFails
  \/ \E r \in Request : FailCreate(r) \/ FailUpdate(r) \/ FailRequest(r)

Next == Calm \/ Fault

Spec == Init /\ [][Next]_vars

-----------------------------------------------------------------------------
(* Properties *)

Creating(p) ==
  \E r \in Request : request[r] # None /\ request[r].peer = p
                        /\ request[r].op \in {"create", "created"}

(* Every variable has its shape; a secret is only written when the request *)
(* brought one, and what is listed as wanting a timer is there.            *)
TypeOK ==
  /\ peer \in [Peer -> Status]
  /\ secret \in [Peer -> Secret \cup {None}]
  /\ request \in [Request -> Job \cup {None}]
  /\ \A r \in Request :
       request[r] # None /\ request[r].op \in {"create", "write", "written"} =>
         request[r].new # None
  /\ timers \subseteq Peer
  /\ listing \in Listing \cup {None}
  /\ listing # None => listing.on \subseteq listing.live
  /\ stopped \in BOOLEAN
  /\ failed \in BOOLEAN

(* Whenever the scheduler has caught up, exactly the enabled peers have a  *)
(* timer, and a peer a user removed has none: a list taken before a change *)
(* never undoes it, although creations, updates, removals and lists all    *)
(* wait for the credentials service.  A creation that fails may leave the  *)
(* timer of the peer it drops, so dropped peers are not spoken of.         *)
ScheduleSettles ==
  listing = None /\ ~failed /\ ~stopped =>
    \A p \in Peer :
      /\ p \in Live /\ ~Creating(p) => (p \in timers <=> peer[p] = "on")
      /\ peer[p] = "gone" => p \notin timers

(* A removed peer is never written again, by an update that looked at it   *)
(* before the removal or by anything else.                                 *)
RemovedStaysGone ==
  [][\A p \in Peer : peer[p] \in {"gone", "dropped"} => peer'[p] = peer[p]]_vars

(* While the credentials service answers, a peer nobody is working on has  *)
(* credentials: no interleaving of creations, rotations, restored records  *)
(* and removals leaves one that cannot connect.                            *)
LivePeerHasSecret ==
  \A p \in Live :
    (\A r \in Request : request[r] # None => request[r].peer # p) => secret[p] # None

(* A peer that was switched off is switched on only by a request that asks *)
(* for it (cloud sync requirements, line 146).                             *)
DisabledStaysOff ==
  [][\A p \in Peer : peer[p] = "off" /\ peer'[p] = "on" =>
       \E r \in Request : request[r] # None /\ request[r].peer = p /\ request[r].asked]_vars
=============================================================================
