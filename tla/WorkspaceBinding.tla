-------------------------- MODULE WorkspaceBinding --------------------------
(***************************************************************************)
(* Binding workspaces to nodes against the removal of nodes, at one        *)
(* instance and at the granularity of awaits.                              *)
(*                                                                         *)
(* Three parties touch the same state.  The service queue                  *)
(* (SyncNodeService.serializeMutation) runs one operation at a time: local *)
(* deletions, imported tombstones, reconciliations and workspace imports.  *)
(* Bind requests (POST /workspaces/bind) run beside it: they look at the   *)
(* node, wait for the remote directory, look at the pending mark again and *)
(* add the binding.  And DSH itself (external) opens and closes workspaces *)
(* at mirror paths, which is what makes a binding active.                  *)
(*                                                                         *)
(* A mirror path is mirrorRoot(node, slug), so a path names its node.  The *)
(* slug an import chooses is a hash of the remote directory, modelled by   *)
(* the directory itself.  A workspace is identified with its path.         *)
(***************************************************************************)
EXTENDS Naturals, FiniteSets

CONSTANTS Node,      \* nodes of the registry
          Slug,      \* workspace names users choose
          Remote,    \* remote directories
          Request,   \* concurrent bind requests
          Idle,      \* nothing running
          MaxReturns \* bound on nodes coming back after a removal

ASSUME SlugAssumption == Slug \cap Remote = {}
ASSUME BoundAssumption == MaxReturns \in Nat

Path == Node \X (Slug \cup Remote)
Binding == {b \in [path : Path, node : Node, remote : Remote] : b.path[1] = b.node}
Bind == [node : Node, slug : Slug, remote : Remote]

VARIABLES
  present,   \* nodes with a profile in the registry
  pending,   \* nodes whose record is a tombstone with pendingRemoval
  bindings,  \* workspace-bindings.json
  opened,    \* paths of the workspaces DSH has open
  request,   \* request[r]: what bind request r is waiting for, or Idle
  queue,     \* the operation the service queue is in the middle of, or Idle
  mapped,    \* mapped[n][d]: the workspace sessions of d are imported to
  returns    \* nodes that came back (bound)

vars == <<present, pending, bindings, opened, request, queue, mapped, returns>>

(* A removal, before and after its profile is gone; was says whether the   *)
(* node was pending before.  An import, and whether it found a binding.    *)
Removal == [op : {"delete", "deleted", "cleanup"}, node : Node, was : BOOLEAN]
Import ==
  {q \in [op : {"import"}, node : Node, remote : Remote, path : Path,
          found : BOOLEAN] : q.path[1] = q.node}
Job == Removal \cup Import

ASSUME IdleAssumption == Idle \notin Path \cup Bind \cup Job

BoundTo(n) == {b \in bindings : b.node = n}

(* activeBindings(): the bindings of the node whose workspace is open. *)
Active(n) == {b \in BoundTo(n) : b.path \in opened}

(* Wrong on purpose: the new binding is only appended. *)
ReboundAppend(b) == bindings \cup {b}

(* bindings.add() replaces whatever was bound at the path. *)
Rebound(b) == {x \in bindings : x.path # b.path} \cup {b}

(* The bindings an import may find: of the directory, on the node. *)
Found(n, remote) == {b \in BoundTo(n) : b.remote = remote}

Init ==
  /\ present = Node
  /\ pending = {}
  /\ bindings = {}
  /\ opened = {}
  /\ request = [r \in Request |-> Idle]
  /\ queue = Idle
  /\ mapped = [n \in Node |-> [d \in Remote |-> Idle]]
  /\ returns = 0

-----------------------------------------------------------------------------
(* Bind requests *)

StartBind(r, n, slug, remote) ==
  /\ request[r] = Idle
  /\ n \in present
  /\ n \notin pending
  /\ request' = [request EXCEPT ![r] = [node |-> n, slug |-> slug, remote |-> remote]]
  /\ UNCHANGED <<present, pending, bindings, opened, queue, mapped, returns>>

(* What a request binds: its node, at the mirror path of its slug. *)
Requested(q) ==
  [path |-> <<q.node, q.slug>>, node |-> q.node, remote |-> q.remote]

(* Wrong on purpose: nobody looks at the pending mark again. *)
FinishBindUnchecked(r) ==
  /\ request[r] # Idle
  /\ bindings' = Rebound(Requested(request[r]))
  /\ request' = [request EXCEPT ![r] = Idle]
  /\ UNCHANGED <<present, pending, opened, queue, mapped, returns>>

(* The remote directory is ready, and the node is not pending: bind. *)
FinishBind(r) ==
  /\ request[r] # Idle
  /\ request[r].node \notin pending
  /\ bindings' = Rebound(Requested(request[r]))
  /\ request' = [request EXCEPT ![r] = Idle]
  /\ UNCHANGED <<present, pending, opened, queue, mapped, returns>>

(* The node has become pending, or its world could not make the directory. *)
FailBind(r) ==
  /\ request[r] # Idle
  /\ request' = [request EXCEPT ![r] = Idle]
  /\ UNCHANGED <<present, pending, bindings, opened, queue, mapped, returns>>

-----------------------------------------------------------------------------
(* DSH opens the workspace of a binding, and closes one. *)

Open(p) ==
  /\ p \notin opened
  /\ \E b \in bindings : b.path = p
  /\ opened' = opened \cup {p}
  /\ UNCHANGED <<present, pending, bindings, request, queue, mapped, returns>>

Close(p) ==
  /\ p \in opened
  /\ opened' = opened \ {p}
  /\ UNCHANGED <<present, pending, bindings, request, queue, mapped, returns>>

-----------------------------------------------------------------------------
(* The service queue: local deletion *)

(* Wrong on purpose: a deletion does not wait for an import. *)
StartDeleteUnqueued(n) ==
  /\ n \in present
  /\ Active(n) = {}
  /\ pending' = pending \cup {n}
  /\ \/ queue = Idle /\ queue' = [op |-> "delete", node |-> n, was |-> n \in pending]
     \/ queue # Idle /\ queue.op = "import" /\ UNCHANGED queue
  /\ UNCHANGED <<present, bindings, opened, request, mapped, returns>>

(* removeLocalNodeNow(): refused while a binding is active; a pending      *)
(* tombstone is saved before the removal, which may take the container     *)
(* down first.                                                             *)
StartDelete(n) ==
  /\ queue = Idle
  /\ n \in present
  /\ Active(n) = {}
  /\ pending' = pending \cup {n}
  /\ queue' = [op |-> "delete", node |-> n, was |-> n \in pending]
  /\ UNCHANGED <<present, bindings, opened, request, mapped, returns>>

(* registry.remove() takes the profile out of the file. *)
DeleteProfile ==
  /\ queue # Idle /\ queue.op = "delete"
  /\ present' = present \ {queue.node}
  /\ queue' = [queue EXCEPT !.op = "deleted"]
  /\ UNCHANGED <<pending, bindings, opened, request, mapped, returns>>

(* The container cannot be removed, or the credentials cannot be deleted   *)
(* when the profile is gone: the record a local deletion replaced is put   *)
(* back, and a cleanup stays pending.                                      *)
FailDelete ==
  /\ queue # Idle /\ queue.op \in {"delete", "deleted", "cleanup"}
  /\ pending' = IF queue.was THEN pending ELSE pending \ {queue.node}
  /\ queue' = Idle
  /\ UNCHANGED <<present, bindings, opened, request, mapped, returns>>

(* The credentials are gone: the tombstone is no longer pending. *)
FinishDelete ==
  /\ queue # Idle /\ queue.op \in {"deleted", "cleanup"}
  /\ pending' = pending \ {queue.node}
  /\ queue' = Idle
  /\ UNCHANGED <<present, bindings, opened, request, mapped, returns>>

-----------------------------------------------------------------------------
(* The service queue: tombstones and reconciliation *)

(* removeNodeAndStaleBindings(), up to where it waits for the credentials. *)
RemoveNode(n) ==
  /\ Active(n) = {}
  /\ bindings' = bindings \ BoundTo(n)
  /\ present' = present \ {n}
  /\ queue' = [op |-> "cleanup", node |-> n, was |-> TRUE]

ImportTombstone(n) ==
  /\ queue = Idle
  /\ pending' = pending \cup {n}
  /\ \/ RemoveNode(n)
     \/ Active(n) # {} /\ UNCHANGED <<bindings, present, queue>>
  /\ UNCHANGED <<opened, request, mapped, returns>>

(* Wrong on purpose: active bindings do not hold the removal back. *)
ReconcileAnyway(n) ==
  /\ queue = Idle
  /\ n \in pending
  /\ bindings' = bindings \ BoundTo(n)
  /\ present' = present \ {n}
  /\ queue' = [op |-> "cleanup", node |-> n, was |-> TRUE]
  /\ UNCHANGED <<pending, opened, request, mapped, returns>>

(* reconcilePendingRemovalsNow(), on refreshing the node list. *)
Reconcile(n) ==
  /\ queue = Idle
  /\ n \in pending
  /\ RemoveNode(n)
  /\ UNCHANGED <<pending, opened, request, mapped, returns>>

(* A newer live version of the node is imported: it is back, not pending.  *)
ImportNode(n) ==
  /\ queue = Idle
  /\ n \notin present \/ n \in pending
  /\ returns < MaxReturns
  /\ present' = present \cup {n}
  /\ pending' = pending \ {n}
  /\ returns' = returns + 1
  /\ UNCHANGED <<bindings, opened, request, queue, mapped>>

-----------------------------------------------------------------------------
(* The service queue: importing the workspace of a session                 *)
(* (ensureWorkspace() under withAvailableRemoteNode()).                    *)

(* The workspace the import works on: the one it was mapped to if that is  *)
(* open, else the one of a binding b it finds if that is open, else one to *)
(* create where it was, where it is bound, or at a path of its own.        *)
ImportPath(n, remote, bound) ==
  LET old == mapped[n][remote]
  IN  IF old # Idle /\ (old \in opened \/ bound \cap opened = {}) THEN {old}
      ELSE IF bound # {} THEN bound
      ELSE {<<n, remote>>}

(* The node is available; one binding of the directory is picked if there  *)
(* is one.  The import then waits for DSH to create the workspace or to    *)
(* set its title.                                                          *)
StartImport(n, remote) ==
  /\ queue = Idle
  /\ n \in present
  /\ n \notin pending
  /\ LET same == Found(n, remote)
     IN  \E bound \in IF same = {} THEN {{}} ELSE {{b.path} : b \in same} :
           \E p \in ImportPath(n, remote, bound) :
             /\ queue' = [op |-> "import", node |-> n, remote |-> remote, path |-> p,
                          found |-> same # {}]
             /\ opened' = opened \cup {p}
  /\ UNCHANGED <<present, pending, bindings, request, mapped, returns>>

(* The workspace is there: bind it unless a binding had been found, and    *)
(* remember it.                                                            *)
FinishImport ==
  /\ queue # Idle /\ queue.op = "import"
  /\ LET b == [path |-> queue.path, node |-> queue.node, remote |-> queue.remote]
     IN  bindings' = IF queue.found THEN bindings ELSE Rebound(b)
  /\ mapped' = [mapped EXCEPT ![queue.node][queue.remote] = queue.path]
  /\ queue' = Idle
  /\ UNCHANGED <<present, pending, opened, request, returns>>

(* DSH refuses the workspace or the title; the session is not imported.    *)
FailImport ==
  /\ queue # Idle /\ queue.op = "import"
  /\ queue' = Idle
  /\ UNCHANGED <<present, pending, bindings, opened, request, mapped, returns>>

-----------------------------------------------------------------------------
Next ==
  \/ \E r \in Request :
       \/ \E n \in Node, slug \in Slug, remote \in Remote :
            StartBind(r, n, slug, remote)
       \/ FinishBind(r)
       \/ FailBind(r)
  \/ \E p \in Path : Open(p) \/ Close(p)
  \/ \E n \in Node :
       \/ StartDelete(n)
       \/ ImportTombstone(n)
       \/ Reconcile(n)
       \/ ImportNode(n)
       \/ \E remote \in Remote : StartImport(n, remote)
  \/ DeleteProfile
  \/ FailDelete
  \/ FinishDelete
  \/ FinishImport
  \/ FailImport

Spec == Init /\ [][Next]_vars

-----------------------------------------------------------------------------
(* Properties *)

(* Every variable has its shape; a binding, and an import under way, uses  *)
(* a mirror path of its own node.                                          *)
TypeOK ==
  /\ present \subseteq Node
  /\ pending \subseteq Node
  /\ bindings \subseteq Binding
  /\ opened \subseteq Path
  /\ request \in [Request -> Bind \cup {Idle}]
  /\ queue \in Job \cup {Idle}
  /\ mapped \in [Node -> [Remote -> Path \cup {Idle}]]
  /\ \A n \in Node, d \in Remote : mapped[n][d] # Idle => mapped[n][d][1] = n
  /\ returns \in 0 .. MaxReturns

(* No two bindings share a mirror path, so a session's directory resolves  *)
(* to one node whatever bind requests and imports do at the same time.     *)
UniqueMirror == \A b, c \in bindings : b.path = c.path => b = c

(* No binding is ever added for a node that is pending removal, although   *)
(* the node may become pending while the bind request or the workspace     *)
(* import is waiting.                                                      *)
NoBindingWhilePending ==
  [][\A b \in bindings' \ bindings : b.node \notin pending']_vars

(* While an import creates its workspace and binds it, the node stays in   *)
(* the registry and is not marked: a deletion cannot cross the import.     *)
ImportLandsOnNode ==
  [][queue # Idle /\ queue.op = "import" =>
       queue.node \in present' /\ queue.node \notin pending']_vars

(* A tombstone or a reconciliation never takes the node of an active       *)
(* binding, and leaves no binding of the node it takes.                    *)
CleanupSparesActive ==
  [][queue' # Idle /\ queue'.op = "cleanup" /\ queue = Idle =>
       /\ \A b \in bindings : b.node = queue'.node => b.path \notin opened
       /\ \A b \in bindings' : b.node # queue'.node]_vars

(* A binding is only added for a node in the registry: "workspace bind     *)
(* checks the pending state again after the remote directory is prepared,  *)
(* to keep a concurrent bind from crossing the deletion boundary"          *)
(* (Sync-Foundation, line 39).                                             *)
BindingHasNode == [][\A b \in bindings' \ bindings : b.node \in present']_vars
=============================================================================
