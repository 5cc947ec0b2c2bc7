------------------------------ MODULE NodeHost ------------------------------
(***************************************************************************)
(* The list of nodes, their credentials and their containers.              *)
(*                                                                         *)
(* NodeRegistry keeps one list in memory and in nodes.json; every method   *)
(* that also touches the credentials service waits for it between its two  *)
(* halves.  Local requests run as they come.  Synchronised imports and     *)
(* removals, and removals by a user, go through the one queue of           *)
(* SyncNodeService, which is what makes positions in the list survive an   *)
(* await.  Creating or changing a Docker node starts provisioning in the   *)
(* background, a chain of docker commands each of which may fail.          *)
(*                                                                         *)
(* Names, images and the text of errors are left out; a node is its id,    *)
(* whether credentials were given with it, and whether it names a          *)
(* container.  A container is known by its name, which contains the id.    *)
(***************************************************************************)
EXTENDS Integers, Sequences, Functions

CONSTANTS Node,     \* node ids
          Request,  \* requests and background work under way
          None      \* no work

VARIABLES
  list,     \* nodes.json: [id, keyed, box], in order
  keys,     \* nodes the credentials service has credentials of
  boxes,    \* nodes whose container exists on the Docker host
  work,     \* work[r]: what r has still to do, or None
  queue,    \* the request that holds the queue of SyncNodeService, or None
  used      \* ids that were given to a new node

vars == <<list, keys, boxes, work, queue, used>>

Profile == [id : Node, keyed : BOOLEAN, box : BOOLEAN]

(* What is left to do: op names the next step, at is the position found    *)
(* before an await, keyed whether the request brought credentials (of a     *)
(* removal: whether a user asked for it), box whether the node named a     *)
(* container when the request read it.                                     *)
Work == [op : {"create", "import", "replace", "patch", "rm", "splice", "forget",
               "inspect", "pull", "run", "wait", "name"},
         id : Node, at : Nat, keyed : BOOLEAN, box : BOOLEAN]

Listed == {list[i].id : i \in DOMAIN list}
Position(n) == CHOOSE i \in DOMAIN list : list[i].id = n
Entry(n) == list[Position(n)]

(* profiles.splice(): the list without the place where n was found.        *)
Without(n) ==
  IF n \notin Listed THEN list
  ELSE SubSeq(list, 1, Position(n) - 1) \o SubSeq(list, Position(n) + 1, Len(list))

Do(r, w) == work' = [work EXCEPT ![r] = w]
Now(r, op) == work[r] # None /\ work[r].op = op
Then(r, op) == Do(r, [work[r] EXCEPT !.op = op])
Idle(r) == work[r] = None
Job(op, n, keyed) == [op |-> op, id |-> n, at |-> 0, keyed |-> keyed, box |-> FALSE]

(* Wrong on purpose: nobody waits for a turn. *)
NoTurn(r) == TRUE

(* serializeMutation(): one import or removal at a time. *)
Turn(r) == queue = None

-----------------------------------------------------------------------------
(* NodeRegistry, for the user *)

(* create(): an id nobody had, credentials first. *)
Create(r, n, keyed) ==
  /\ Idle(r) /\ n \notin used
  /\ used' = used \cup {n}
  /\ Do(r, Job("create", n, keyed))
  /\ UNCHANGED <<list, keys, boxes, queue>>

(* The profile is listed; a Docker node with an image is provisioned.      *)
Created(r, docker) ==
  /\ Now(r, "create") \/ Now(r, "import")
  /\ LET w == work[r] IN
     /\ keys' = IF w.keyed THEN keys \cup {w.id} ELSE keys
     /\ list' = Append(list, [id |-> w.id, keyed |-> w.keyed, box |-> FALSE])
     /\ Do(r, IF docker /\ w.op = "create" THEN Job("inspect", w.id, FALSE) ELSE None)
     /\ queue' = IF queue = r THEN None ELSE queue
  /\ UNCHANGED <<boxes, used>>

(* update(): the new profile takes its place at once, the credentials and  *)
(* the file follow.                                                        *)
Patch(r, n, keyed) ==
  /\ Idle(r) /\ n \in Listed
  /\ Do(r, Job("patch", n, keyed))
  /\ UNCHANGED <<list, keys, boxes, queue, used>>

Patched(r, docker) ==
  /\ Now(r, "patch")
  /\ LET w == work[r] IN
     /\ keys' = IF w.keyed THEN keys \cup {w.id} ELSE keys
     /\ list' = [i \in DOMAIN list |-> IF list[i].id = w.id /\ w.keyed
                                        THEN [list[i] EXCEPT !.keyed = TRUE] ELSE list[i]]
     /\ Do(r, IF docker /\ w.id \in Listed
              THEN [Job("inspect", w.id, FALSE) EXCEPT !.box = Entry(w.id).box] ELSE None)
  /\ UNCHANGED <<boxes, queue, used>>

(* The credentials service refuses: the request ends with an error.        *)
Refused(r) ==
  /\ \/ Now(r, "create") \/ Now(r, "import") \/ Now(r, "patch")
     \/ Now(r, "replace")
  /\ work[r].keyed
  /\ Do(r, None) /\ queue' = IF queue = r THEN None ELSE queue
  /\ UNCHANGED <<list, keys, boxes, used>>

-----------------------------------------------------------------------------
(* NodeRegistry, for synchronisation *)

(* createImported(): an id of another instance, or one that was removed;   *)
(* no other instance can know the id of a node still being created.        *)
Import(r, n, keyed) ==
  /\ Idle(r) /\ Turn(r) /\ n \notin Listed
  /\ ~\E q \in Request : Now(q, "create") /\ work[q].id = n
  /\ queue' = r /\ used' = used \cup {n}
  /\ Do(r, Job("import", n, keyed))
  /\ UNCHANGED <<list, keys, boxes>>

(* updateImported(): the position is found before the await.               *)
Replace(r, n, keyed) ==
  /\ Idle(r) /\ Turn(r) /\ n \in Listed
  /\ queue' = r
  /\ Do(r, [Job("replace", n, keyed) EXCEPT !.at = Position(n), !.box = Entry(n).box])
  /\ UNCHANGED <<list, keys, boxes, used>>

(* The imported profile takes the position, whatever is there by now.  The *)
(* container it names is the one the other instance's profile names.       *)
Replaced(r) ==
  /\ Now(r, "replace")
  /\ LET w == work[r]
         old == w.at \in DOMAIN list /\ list[w.at].keyed
         new == [id |-> w.id, keyed |-> w.keyed \/ old, box |-> w.box]
     IN /\ keys' = IF w.keyed THEN keys \cup {w.id} ELSE keys
        /\ list' = IF w.at \in DOMAIN list THEN [list EXCEPT ![w.at] = new]
                   ELSE Append(list, new)
  /\ Do(r, None) /\ queue' = None
  /\ UNCHANGED <<boxes, used>>

-----------------------------------------------------------------------------
(* Removal *)

(* DELETE, or a tombstone: the node was read when the request came, and a  *)
(* user's removal takes the container away first.                          *)
Remove(r, n, mine) ==
  /\ Idle(r) /\ n \in Listed
  /\ Do(r, [Job(IF mine /\ Entry(n).box THEN "rm" ELSE "splice", n, mine)
            EXCEPT !.box = Entry(n).box])
  /\ UNCHANGED <<list, keys, boxes, queue, used>>

(* docker rm -f, in turn: the node stays when it fails.                    *)
RemoveBox(r) ==
  /\ Now(r, "rm") /\ Turn(r)
  /\ \/ boxes' = boxes \ {work[r].id} /\ Then(r, "splice") /\ queue' = r
     \/ Do(r, None) /\ UNCHANGED <<boxes, queue>>
  /\ UNCHANGED <<list, keys, used>>

(* Wrong on purpose: the queue goes on before the credentials are gone.    *)
SpliceAndGo(r) ==
  /\ Now(r, "splice") /\ (queue = r \/ Turn(r))
  /\ list' = Without(work[r].id)
  /\ Then(r, "forget") /\ queue' = None
  /\ UNCHANGED <<keys, boxes, used>>

(* registry.remove() takes the profile off the list; a user's removal of a *)
(* node that is gone by now has nothing more to do.                        *)
Splice(r) ==
  /\ Now(r, "splice") /\ (queue = r \/ Turn(r))
  /\ list' = Without(work[r].id)
  /\ IF work[r].keyed /\ work[r].id \notin Listed
     THEN Do(r, None) /\ queue' = None
     ELSE Then(r, "forget") /\ queue' = r
  /\ UNCHANGED <<keys, boxes, used>>

(* The credentials go last; the removal ends, also when this fails.        *)
Forget(r) ==
  /\ Now(r, "forget")
  /\ keys' \in {keys, keys \ {work[r].id}}
  /\ Do(r, None) /\ queue' = IF queue = r THEN None ELSE queue
  /\ UNCHANGED <<list, boxes, used>>

-----------------------------------------------------------------------------
(* Provisioning: provisionContainer() with the name dshb-<id>. *)

Provision(r, n) ==
  /\ Idle(r) /\ n \in Listed
  /\ Do(r, [Job("inspect", n, FALSE) EXCEPT !.box = Entry(n).box])
  /\ UNCHANGED <<list, keys, boxes, queue, used>>

(* A container of that name, running or started again, is taken as it is.  *)
Inspect(r) ==
  /\ Now(r, "inspect")
  /\ \/ work[r].id \in boxes /\ Then(r, "name")
     \/ Then(r, "pull")
  /\ UNCHANGED <<list, keys, boxes, queue, used>>

(* docker pull, and docker run, which takes a name once.  A run that fails *)
(* may leave the container it created.                                     *)
PullRun(r) ==
  /\ Now(r, "pull")
  /\ \/ Do(r, None) /\ UNCHANGED boxes
     \/ work[r].id \notin boxes /\ boxes' = boxes \cup {work[r].id} /\ Then(r, "wait")
     \/ work[r].id \notin boxes /\ boxes' = boxes \cup {work[r].id} /\ Do(r, None)
  /\ UNCHANGED <<list, keys, queue, used>>

(* The container runs, or the deadline passes; nothing is taken back.      *)
Wait(r) ==
  /\ Now(r, "wait")
  /\ \/ work[r].id \in boxes /\ Then(r, "name")
     \/ Do(r, None)
  /\ UNCHANGED <<list, keys, boxes, queue, used>>

(* POST docker/:id/delete: the container goes, the profile still names it. *)
DeleteBox(n) ==
  /\ n \in Listed /\ Entry(n).box /\ n \in boxes /\ boxes' = boxes \ {n}
  /\ UNCHANGED <<list, keys, work, queue, used>>

(* registry.update() names the container in the profile, if there is one.  *)
Name(r) ==
  /\ Now(r, "name")
  /\ list' = [i \in DOMAIN list |-> IF list[i].id = work[r].id
                                     THEN [list[i] EXCEPT !.box = TRUE] ELSE list[i]]
  /\ Do(r, None)
  /\ UNCHANGED <<keys, boxes, queue, used>>

-----------------------------------------------------------------------------
Init ==
  /\ list = << >> /\ keys = {} /\ boxes = {} /\ used = {}
  /\ work = [r \in Request |-> None] /\ queue = None

Next ==
  \/ \E n \in Node : DeleteBox(n)
  \/ \E r \in Request :
       \/ \E n \in Node, keyed \in BOOLEAN :
            \/ Create(r, n, keyed) \/ Patch(r, n, keyed)
            \/ Import(r, n, keyed) \/ Replace(r, n, keyed)
       \/ \E n \in Node : (\E mine \in BOOLEAN : Remove(r, n, mine)) \/ Provision(r, n)
       \/ \E docker \in BOOLEAN : Created(r, docker) \/ Patched(r, docker)
       \/ Refused(r) \/ Replaced(r)
       \/ RemoveBox(r) \/ Splice(r) \/ Forget(r)
       \/ Inspect(r) \/ PullRun(r) \/ Wait(r) \/ Name(r)

Spec == Init /\ [][Next]_vars

-----------------------------------------------------------------------------
TypeOK ==
  /\ list \in Seq(Profile) /\ keys \subseteq Node /\ boxes \subseteq Node
  /\ used \subseteq Node
  /\ \A r \in Request : Idle(r) \/ work[r] \in Work
  /\ queue \in Request \cup {None}

(* A node is on the list once, and a node that was given credentials has   *)
(* them for as long as it is listed, although createImported() may bring a *)
(* removed id back while registry.remove() is deleting its credentials.    *)
ListedKeepsKeys ==
  /\ IsInjective([i \in DOMAIN list |-> list[i].id])
  /\ \A i \in DOMAIN list : list[i].keyed => list[i].id \in keys

(* Whether a node is listed changes only by a creation or a removal of     *)
(* that node: updateImported() writes to a position it found before an     *)
(* await, and must not hit the place of another node.                      *)
OnlyItsOwn ==
  [][\A n \in Node : (n \in Listed) # (n \in Listed') =>
       \E r \in Request : work[r] # None /\ work[r].id = n
                          /\ work[r].op \in {"create", "import", "splice"}
                          /\ work'[r] # work[r]]_vars
=============================================================================
