----------------------- MODULE WorkspaceBindingProofs -----------------------
(***************************************************************************)
(* Proofs about WorkspaceBinding, for any nodes, names, directories and    *)
(* concurrent bind requests.  The point of the invariant is what the       *)
(* service queue protects: while an import waits, its node stays in the    *)
(* registry and unmarked.                                                  *)
(***************************************************************************)
EXTENDS WorkspaceBinding, TLAPS

(* While an import is under way its node is registered and not pending.    *)
ImportHeld ==
  queue # Idle /\ queue.op = "import" =>
    queue.node \in present /\ queue.node \notin pending

IInv == TypeOK /\ UniqueMirror /\ ImportHeld

LEMMA NotIdle ==
  /\ \A p \in Path : p # Idle
  /\ \A q \in Bind : q # Idle
  /\ \A q \in Job : q # Idle
BY IdleAssumption

(* Adding a binding at its own mirror path keeps mirror paths unique.      *)
LEMMA ReboundUnique ==
  ASSUME TypeOK, UniqueMirror, NEW b \in Binding
  PROVE  /\ Rebound(b) \subseteq Binding
         /\ \A c, d \in Rebound(b) : c.path = d.path => c = d
BY DEF TypeOK, UniqueMirror, Rebound

LEMMA InitHolds == Init => IInv
BY BoundAssumption DEF Init, IInv, TypeOK, UniqueMirror, ImportHeld

LEMMA BindRequestsKeep ==
  ASSUME IInv,
         \E r \in Request :
           \/ \E n \in Node, slug \in Slug, remote \in Remote :
                StartBind(r, n, slug, remote)
           \/ FinishBind(r)
           \/ FailBind(r)
  PROVE  IInv'
<1> USE DEF IInv
<1>1. ASSUME NEW r \in Request, NEW n \in Node, NEW slug \in Slug,
             NEW remote \in Remote, StartBind(r, n, slug, remote)
      PROVE  IInv'
  <2>1. [node |-> n, slug |-> slug, remote |-> remote] \in Bind
    BY DEF Bind
  <2>2. QED BY <1>1, <2>1 DEF StartBind, TypeOK, UniqueMirror, ImportHeld
<1>2. ASSUME NEW r \in Request, FinishBind(r)
      PROVE  IInv'
  <2>1. request[r] \in Bind
    BY <1>2 DEF FinishBind, TypeOK
  <2>2. Requested(request[r]) \in Binding
    BY <2>1 DEF Requested, Bind, Binding, Path
  <2>3. /\ bindings' \subseteq Binding
        /\ \A c, d \in bindings' : c.path = d.path => c = d
    BY <1>2, <2>2, ReboundUnique DEF FinishBind
  <2>4. UNCHANGED <<present, pending, opened, queue, mapped, returns>>
    BY <1>2 DEF FinishBind
  <2>5. request' \in [Request -> Bind \cup {Idle}]
    BY <1>2 DEF FinishBind, TypeOK
  <2>6. QED BY <2>3, <2>4, <2>5 DEF TypeOK, UniqueMirror, ImportHeld
<1>3. ASSUME NEW r \in Request, FailBind(r)
      PROVE  IInv'
  BY <1>3 DEF FailBind, TypeOK, UniqueMirror, ImportHeld
<1>4. QED BY <1>1, <1>2, <1>3

LEMMA WorkspacesKeep ==
  ASSUME IInv, NEW p \in Path, Open(p) \/ Close(p)
  PROVE  IInv'
BY DEF IInv, Open, Close, TypeOK, UniqueMirror, ImportHeld

(* A removal runs only when the queue is free, so no import is under way.  *)
LEMMA RemovalsKeep ==
  ASSUME IInv,
         \/ \E n \in Node : StartDelete(n) \/ ImportTombstone(n) \/ Reconcile(n)
         \/ DeleteProfile
         \/ FailDelete
         \/ FinishDelete
  PROVE  IInv'
<1> USE DEF IInv
<1>1. ASSUME NEW n \in Node, StartDelete(n)
      PROVE  IInv'
  <2>1. queue' \in Removal
    BY <1>1 DEF StartDelete, Removal
  <2>2. queue'.op # "import"
    BY <1>1 DEF StartDelete
  <2>3. QED BY <1>1, <2>1, <2>2 DEF StartDelete, TypeOK, UniqueMirror, ImportHeld, Job
<1>2. ASSUME NEW n \in Node, RemoveNode(n), pending' \subseteq Node,
             UNCHANGED <<opened, request, mapped, returns>>
      PROVE  IInv'
  <2>1. queue' \in Removal
    BY <1>2 DEF RemoveNode, Removal
  <2>2. queue'.op # "import"
    BY <1>2 DEF RemoveNode
  <2>3. bindings' \subseteq bindings /\ present' \subseteq present
    BY <1>2 DEF RemoveNode
  <2>4. QED BY <1>2, <2>1, <2>2, <2>3 DEF TypeOK, UniqueMirror, ImportHeld, Job
<1>3. ASSUME NEW n \in Node, ImportTombstone(n)
      PROVE  IInv'
  <2>1. pending' \subseteq Node
    BY <1>3 DEF ImportTombstone, TypeOK
  <2>2. CASE RemoveNode(n)
    BY <1>3, <2>1, <2>2, <1>2 DEF ImportTombstone
  <2>3. CASE Active(n) # {} /\ UNCHANGED <<bindings, present, queue>>
    BY <1>3, <2>1, <2>3 DEF ImportTombstone, TypeOK, UniqueMirror, ImportHeld
  <2>4. QED BY <1>3, <2>2, <2>3 DEF ImportTombstone
<1>4. ASSUME NEW n \in Node, Reconcile(n)
      PROVE  IInv'
  BY <1>4, <1>2 DEF Reconcile, TypeOK
<1>5. CASE DeleteProfile
  <2>1. queue \in Removal
    BY <1>5 DEF DeleteProfile, TypeOK, Job, Import
  <2>2. queue' \in Removal /\ queue'.op # "import"
    BY <1>5, <2>1 DEF DeleteProfile, Removal
  <2>3. QED BY <1>5, <2>2 DEF DeleteProfile, TypeOK, UniqueMirror, ImportHeld, Job
<1>6. CASE FailDelete
  BY <1>6 DEF FailDelete, TypeOK, UniqueMirror, ImportHeld
<1>7. CASE FinishDelete
  BY <1>7 DEF FinishDelete, TypeOK, UniqueMirror, ImportHeld
<1>8. QED BY <1>1, <1>3, <1>4, <1>5, <1>6, <1>7

LEMMA ImportsKeep ==
  ASSUME IInv,
         \/ \E n \in Node :
              ImportNode(n) \/ \E remote \in Remote : StartImport(n, remote)
         \/ FinishImport
         \/ FailImport
  PROVE  IInv'
<1> USE DEF IInv
<1>1. ASSUME NEW n \in Node, ImportNode(n)
      PROVE  IInv'
  BY <1>1, BoundAssumption DEF ImportNode, TypeOK, UniqueMirror, ImportHeld
<1>2. ASSUME NEW n \in Node, NEW remote \in Remote, StartImport(n, remote)
      PROVE  IInv'
  <2>1. PICK bound, p : /\ bound = {} \/ \E b \in Found(n, remote) : bound = {b.path}
                        /\ p \in ImportPath(n, remote, bound)
                        /\ opened' = opened \cup {p}
                        /\ queue' = [op |-> "import", node |-> n,
                                     remote |-> remote, path |-> p,
                                     found |-> Found(n, remote) # {}]
    BY <1>2 DEF StartImport
  <2>2. \A b \in Found(n, remote) : b.path \in Path /\ b.path[1] = n
    BY DEF Found, BoundTo, TypeOK, Binding
  <2>3. mapped[n][remote] # Idle =>
          mapped[n][remote] \in Path /\ mapped[n][remote][1] = n
    BY DEF TypeOK
  <2>4. p \in Path /\ p[1] = n
    BY <2>1, <2>2, <2>3 DEF ImportPath, Path
  <2>5. queue' \in Import
    BY <2>1, <2>4 DEF Import
  <2>6. ImportHeld'
    BY <1>2, <2>1 DEF StartImport, ImportHeld
  <2>7. QED BY <1>2, <2>1, <2>4, <2>5, <2>6 DEF StartImport, TypeOK, UniqueMirror, Job
<1>3. CASE FinishImport
  <2>1. /\ queue.op = "import" /\ queue \in Import
        /\ queue.node \in Node /\ queue.remote \in Remote
        /\ queue.path \in Path /\ queue.path[1] = queue.node
    BY <1>3 DEF FinishImport, TypeOK, Job, Removal, Import
  <2> DEFINE b == [path |-> queue.path, node |-> queue.node, remote |-> queue.remote]
  <2>2. b \in Binding
    BY <2>1 DEF Binding
  <2>3. /\ bindings' \subseteq Binding
        /\ \A c, d \in bindings' : c.path = d.path => c = d
    <3>1. bindings' = IF queue.found THEN bindings ELSE Rebound(b)
      BY <1>3 DEF FinishImport
    <3>2. QED BY <2>2, <3>1, ReboundUnique DEF TypeOK, UniqueMirror
  <2>4. /\ mapped' \in [Node -> [Remote -> Path \cup {Idle}]]
        /\ \A n \in Node, d \in Remote : mapped'[n][d] # Idle => mapped'[n][d][1] = n
    <3>1. mapped' = [mapped EXCEPT ![queue.node][queue.remote] = queue.path]
      BY <1>3 DEF FinishImport
    <3>2. QED BY <2>1, <3>1 DEF TypeOK
  <2>5. UNCHANGED <<present, pending, opened, request, returns>> /\ queue' = Idle
    BY <1>3 DEF FinishImport
  <2>6. QED BY <2>3, <2>4, <2>5 DEF TypeOK, UniqueMirror, ImportHeld
<1>4. CASE FailImport
  BY <1>4 DEF FailImport, TypeOK, UniqueMirror, ImportHeld
<1>5. QED BY <1>1, <1>2, <1>3, <1>4

LEMMA StepHolds == IInv /\ [Next]_vars => IInv'
<1> SUFFICES ASSUME IInv, [Next]_vars
             PROVE  IInv'
  OBVIOUS
<1>1. CASE Next
  BY <1>1, BindRequestsKeep, WorkspacesKeep, RemovalsKeep, ImportsKeep DEF Next
<1>2. CASE UNCHANGED vars
  BY <1>2 DEF vars, IInv, TypeOK, UniqueMirror, ImportHeld
<1>3. QED BY <1>1, <1>2

(* The inductive invariant holds throughout.                               *)
THEOREM Invariance == Spec => []IInv
BY InitHolds, StepHolds, PTL DEF Spec

(* Every variable keeps its shape, and a binding its node's mirror root.   *)
THEOREM TypeCorrect == Spec => []TypeOK
<1>1. IInv => TypeOK
  BY DEF IInv
<1>2. QED BY <1>1, Invariance, PTL

(* However many bind requests and imports run at once, a mirror path has   *)
(* at most one binding.                                                    *)
THEOREM MirrorsAreUnique == Spec => []UniqueMirror
<1>1. IInv => UniqueMirror
  BY DEF IInv
<1>2. QED BY <1>1, Invariance, PTL

(* A binding that appears is added by a bind request that has just looked  *)
(* at the mark, or by an import that holds the queue.                      *)
LEMMA AddedUnmarked ==
  ASSUME IInv, Next, NEW b \in bindings' \ bindings
  PROVE  b.node \notin pending'
<1> USE DEF IInv
<1>1. CASE \E r \in Request : FinishBind(r)
  <2>1. PICK r \in Request : FinishBind(r)
    BY <1>1
  <2>2. b = Requested(request[r])
    BY <2>1 DEF FinishBind, Rebound
  <2>3. QED BY <2>1, <2>2 DEF FinishBind, Requested
<1>2. CASE FinishImport
  <2>1. b.node = queue.node /\ pending' = pending
    BY <1>2 DEF FinishImport, Rebound
  <2>2. QED BY <1>2, <2>1 DEF FinishImport, ImportHeld
<1>3. CASE ~(\E r \in Request : FinishBind(r)) /\ ~FinishImport
  <2>1. bindings' \subseteq bindings
    BY <1>3 DEF Next, StartBind, FailBind, Open, Close, StartDelete, ImportTombstone,
                Reconcile, RemoveNode, ImportNode, StartImport, DeleteProfile,
                FailDelete, FinishDelete, FailImport
  <2>2. QED BY <2>1
<1>4. QED BY <1>1, <1>2, <1>3

(* No binding is added for a node that is pending removal, although the    *)
(* mark may appear while the request or the import waits.                  *)
THEOREM NeverBoundWhilePending == Spec => NoBindingWhilePending
<1>1. IInv /\ [Next]_vars =>
        [\A b \in bindings' \ bindings : b.node \notin pending']_vars
  BY AddedUnmarked
<1>2. QED BY <1>1, Invariance, PTL DEF Spec, NoBindingWhilePending

(* The node of an import under way is neither removed nor marked by any    *)
(* step, the import's own included: a deletion cannot cross an import.     *)
LEMMA ImportNotCrossed ==
  ASSUME IInv, [Next]_vars, queue # Idle, queue.op = "import"
  PROVE  present' = present /\ pending' = pending
BY DEF Next, vars, StartBind, FinishBind, FailBind, Open, Close, StartDelete,
       ImportTombstone, Reconcile, ImportNode, StartImport, DeleteProfile,
       FailDelete, FinishDelete, FinishImport, FailImport

(* While an import creates its workspace and binds it, its node stays in   *)
(* the registry and unmarked.                                              *)
THEOREM ImportsLandOnNodes == Spec => ImportLandsOnNode
<1>1. IInv /\ [Next]_vars =>
        [queue # Idle /\ queue.op = "import" =>
           queue.node \in present' /\ queue.node \notin pending']_vars
  BY ImportNotCrossed DEF IInv, ImportHeld
<1>2. QED BY <1>1, Invariance, PTL DEF Spec, ImportLandsOnNode

(* A cleanup never takes the node of an active binding and leaves no       *)
(* binding of the node it takes.                                           *)
LEMMA CleanupStep ==
  ASSUME IInv, Next, queue' # Idle, queue'.op = "cleanup", queue = Idle
  PROVE  /\ \A b \in bindings : b.node = queue'.node => b.path \notin opened
         /\ \A b \in bindings' : b.node # queue'.node
<1>1. PICK n \in Node : RemoveNode(n)
  BY DEF Next, StartBind, FinishBind, FailBind, Open, Close, StartDelete,
         ImportTombstone, Reconcile, ImportNode, StartImport, DeleteProfile,
         FailDelete, FinishDelete, FinishImport, FailImport
<1>2. queue'.node = n
  BY <1>1 DEF RemoveNode
<1>3. QED BY <1>1, <1>2 DEF RemoveNode, Active, BoundTo

(* Tombstones and reconciliations spare active bindings, in every run.     *)
THEOREM CleanupsSpareActive == Spec => CleanupSparesActive
<1>1. IInv /\ [Next]_vars =>
        [queue' # Idle /\ queue'.op = "cleanup" /\ queue = Idle =>
           /\ \A b \in bindings : b.node = queue'.node => b.path \notin opened
           /\ \A b \in bindings' : b.node # queue'.node]_vars
  BY CleanupStep
<1>2. QED BY <1>1, Invariance, PTL DEF Spec, CleanupSparesActive
=============================================================================
