-------------------------- MODULE HostNodesProofs ---------------------------
(***************************************************************************)
(* Proofs about the parts of MCHost that deal with nodes and what runs on  *)
(* them: the list of nodes (NodeHost), connections (SshWorld), routing     *)
(* (Router) and files (RemoteFiles), for any values of their constants     *)
(* that the assumptions of MCHost allow.                                   *)
(*                                                                         *)
(* A behaviour of MCHost is one of one part, so each part has an invariant *)
(* of its own, which the steps of the others leave alone.                  *)
(***************************************************************************)
EXTENDS MCHost, FiniteSetTheorems, SequenceTheorems, TLAPS

-----------------------------------------------------------------------------
(* NodeHost                                                                *)

Jobs == Nodes!Work \cup {None}

(* What holds of the work a request has still to do: who brings a node to  *)
(* the list finds it absent, who has credentials to remove has taken the   *)
(* node off, and a position that was found is still that node's.           *)
WorkFits(r, w) ==
  w # None =>
    /\ w.id \in used
    /\ w.op \in {"import", "replace", "forget"} => queue = r
    /\ w.op \in {"create", "import", "forget"} => w.id \notin Nodes!Listed
    /\ w.op = "replace" => w.at \in DOMAIN list /\ list[w.at].id = w.id

(* Nobody else works on a node that is being created.                      *)
Apart(v, w) == v # None /\ w # None /\ v.op = "create" => v.id # w.id

NodesShape ==
  /\ list \in Seq(Nodes!Profile) /\ keys \subseteq Node /\ boxes \subseteq Node
  /\ used \subseteq Node /\ queue \in HostRequest \cup {None}
  /\ work \in [HostRequest -> Jobs]

ListedOnce == \A i, j \in DOMAIN list : list[i].id = list[j].id => i = j
ListedHaveKeys == \A i \in DOMAIN list : list[i].keyed => list[i].id \in keys

NodesInv ==
  /\ NodesShape /\ ListedOnce /\ ListedHaveKeys /\ Nodes!Listed \subseteq used
  /\ \A r \in HostRequest : WorkFits(r, work[r])
  /\ \A r, q \in HostRequest : r # q => Apart(work[r], work[q])

-----------------------------------------------------------------------------
(* What a request does next, and what it leaves to the others.             *)
LEMMA RequestStep ==
  ASSUME NodesInv, NEW r \in HostRequest, NEW w \in Jobs,
         work' = [work EXCEPT ![r] = w],
         list' \in Seq(Nodes!Profile), keys' \subseteq Node, boxes' \subseteq Node,
         used \subseteq used', used' \subseteq Node, queue' \in HostRequest \cup {None},
         queue' = queue \/ queue \in {None, r},
         ListedOnce', ListedHaveKeys', Nodes!Listed' \subseteq used',
         w # None =>
           /\ w.id \in used'
           /\ w.op \in {"import", "replace", "forget"} => queue' = r
           /\ w.op \in {"create", "import", "forget"} => w.id \notin Nodes!Listed'
           /\ w.op = "replace" => w.at \in DOMAIN list' /\ list'[w.at].id = w.id,
         \A q \in HostRequest : q # r /\ work[q] # None =>
           /\ work[q].op \in {"create", "import", "forget"} => work[q].id \notin Nodes!Listed'
           /\ work[q].op = "replace" => work[q].at \in DOMAIN list'
                                        /\ list'[work[q].at].id = work[q].id
           /\ Apart(w, work[q]) /\ Apart(work[q], w)
  PROVE  NodesInv'
<1>1. /\ work' \in [HostRequest -> Jobs] /\ work'[r] = w
      /\ \A q \in HostRequest : q # r => work'[q] = work[q]
  BY DEF NodesInv, NodesShape
<1>2. NodesShape'
  BY <1>1 DEF NodesShape
<1>3. \A q \in HostRequest : WorkFits(q, work[q])
  BY DEF NodesInv
<1>4. ASSUME NEW q \in HostRequest PROVE WorkFits(q, work[q])'
  <2>1. CASE q = r
    BY <1>1, <2>1 DEF WorkFits
  <2>2. CASE q # r
    <3>1. work'[q] = work[q]
      BY <1>1, <2>2
    <3>2. work[q] # None /\ work[q].op \in {"import", "replace", "forget"} => queue' = q
      BY <1>3, <2>2, NodesAssumption DEF WorkFits
    <3> QED BY <1>3, <2>2, <3>1, <3>2 DEF WorkFits
  <2> QED BY <2>1, <2>2
<1>5. ASSUME NEW p \in HostRequest, NEW q \in HostRequest, p # q
      PROVE  Apart(work[p], work[q])'
  <2>1. Apart(work[p], work[q])
    BY <1>5 DEF NodesInv
  <2>2. CASE p = r
    BY <1>1, <1>5, <2>2 DEF Apart
  <2>3. CASE q = r
    BY <1>1, <1>5, <2>3 DEF Apart
  <2>4. CASE p # r /\ q # r
    BY <1>1, <2>1, <2>4 DEF Apart
  <2> QED BY <2>2, <2>3, <2>4
<1> QED BY <1>2, <1>4, <1>5 DEF NodesInv

(* The list stays as it is.                                                *)
LEMMA UnlistedStep ==
  ASSUME NodesInv, NEW r \in HostRequest, NEW w \in Jobs,
         work' = [work EXCEPT ![r] = w],
         list' = list, keys' = keys, boxes' \subseteq Node,
         used \subseteq used', used' \subseteq Node, queue' \in HostRequest \cup {None},
         queue' = queue \/ queue \in {None, r},
         w # None =>
           /\ w.id \in used'
           /\ w.op \in {"import", "replace", "forget"} => queue' = r
           /\ w.op \in {"create", "import", "forget"} => w.id \notin Nodes!Listed
           /\ w.op = "replace" => w.at \in DOMAIN list /\ list[w.at].id = w.id,
         \A q \in HostRequest : q # r /\ work[q] # None =>
           Apart(w, work[q]) /\ Apart(work[q], w)
  PROVE  NodesInv'
<1>1. Nodes!Listed' = Nodes!Listed
  BY DEF Nodes!Listed
<1>2. ListedOnce' /\ ListedHaveKeys' /\ Nodes!Listed' \subseteq used'
  BY <1>1 DEF NodesInv, ListedOnce, ListedHaveKeys
<1>3. list' \in Seq(Nodes!Profile) /\ keys' \subseteq Node
  BY DEF NodesInv, NodesShape
<1>4. \A q \in HostRequest : WorkFits(q, work[q])
  BY DEF NodesInv
<1>5. \A q \in HostRequest : q # r /\ work[q] # None =>
           /\ work[q].op \in {"create", "import", "forget"} => work[q].id \notin Nodes!Listed'
           /\ work[q].op = "replace" => work[q].at \in DOMAIN list'
                                        /\ list'[work[q].at].id = work[q].id
  BY <1>1, <1>4 DEF WorkFits
<1> QED BY <1>1, <1>2, <1>3, <1>5, RequestStep

(* A job is done, or goes on with what it is about.                        *)
LEMMA GoesOn ==
  ASSUME NodesInv, NEW r \in HostRequest, work[r] # None, NEW w \in Jobs,
         w # None => w.id = work[r].id /\ w.op \notin {"create", "import", "replace", "forget"},
         work' = [work EXCEPT ![r] = w],
         list' = list, keys' = keys, boxes' \subseteq Node, used' = used,
         queue' \in HostRequest \cup {None}, queue' = queue \/ queue \in {None, r}
  PROVE  NodesInv'
<1>1. used' \subseteq Node /\ used \subseteq used'
  BY DEF NodesInv, NodesShape
<1>2. w # None => w.id \in used'
  BY DEF NodesInv, WorkFits
<1>3. \A q \in HostRequest : q # r /\ work[q] # None =>
           Apart(w, work[q]) /\ Apart(work[q], w)
  BY DEF NodesInv, Apart
<1> QED BY <1>1, <1>2, <1>3, UnlistedStep

-----------------------------------------------------------------------------
(* The list                                                                *)

(* A listed node has a place.                                              *)
LEMMA PositionIs ==
  ASSUME NEW n \in Nodes!Listed
  PROVE  /\ Nodes!Position(n) \in DOMAIN list /\ list[Nodes!Position(n)].id = n
         /\ Nodes!Entry(n) = list[Nodes!Position(n)]
BY DEF Nodes!Listed, Nodes!Position, Nodes!Entry

(* What is on the list.                                                    *)
LEMMA ListIs ==
  ASSUME NodesInv
  PROVE  /\ Len(list) \in Nat /\ DOMAIN list = 1 .. Len(list)
         /\ \A i \in DOMAIN list : list[i] \in Nodes!Profile
         /\ Nodes!Listed \subseteq Node
<1>1. list \in Seq(Nodes!Profile)
  BY DEF NodesInv, NodesShape
<1>2. Len(list) \in Nat /\ DOMAIN list = 1 .. Len(list)
  BY <1>1, LenProperties
<1>3. \A i \in DOMAIN list : list[i] \in Nodes!Profile
  BY <1>1, <1>2, ElementOfSeq
<1> QED BY <1>2, <1>3 DEF Nodes!Listed, Nodes!Profile

(* A listed node is a node, and was given its id.                          *)
LEMMA EntryIs ==
  ASSUME NodesInv, NEW n \in Nodes!Listed
  PROVE  /\ n \in Node /\ n \in used /\ Nodes!Entry(n) \in Nodes!Profile
         /\ Nodes!Position(n) \in Nat
BY PositionIs, ListIs DEF NodesInv

(* The profile that is added.                                              *)
LEMMA ListGrows ==
  ASSUME NodesInv, NEW p \in Nodes!Profile, list' = Append(list, p)
  PROVE  /\ list' \in Seq(Nodes!Profile) /\ DOMAIN list' = DOMAIN list \cup {Len(list) + 1}
         /\ \A i \in DOMAIN list : list'[i] = list[i]
         /\ list'[Len(list) + 1] = p
         /\ Nodes!Listed' = Nodes!Listed \cup {p.id}
<1>1. /\ list' \in Seq(Nodes!Profile) /\ Len(list') = Len(list) + 1
      /\ \A i \in 1 .. Len(list) : list'[i] = list[i]
      /\ list'[Len(list) + 1] = p
  BY AppendProperties DEF NodesInv, NodesShape
<1>2. Len(list) \in Nat /\ DOMAIN list = 1 .. Len(list) /\ DOMAIN list' = 1 .. Len(list')
  BY <1>1, ListIs, LenProperties
<1>3. DOMAIN list' = DOMAIN list \cup {Len(list) + 1}
  BY <1>1, <1>2
<1>4. Nodes!Listed' = Nodes!Listed \cup {p.id}
  BY <1>1, <1>2, <1>3 DEF Nodes!Listed
<1> QED BY <1>1, <1>2, <1>3, <1>4

(* Profiles that change, but not their ids.                                *)
LEMMA ListChanges ==
  ASSUME NodesInv, list' \in [DOMAIN list -> Nodes!Profile],
         \A i \in DOMAIN list : list'[i].id = list[i].id
  PROVE  /\ list' \in Seq(Nodes!Profile) /\ DOMAIN list' = DOMAIN list
         /\ ListedOnce' /\ Nodes!Listed' = Nodes!Listed
<1>1. list' \in Seq(Nodes!Profile)
  BY ListIs, SeqDef
<1>2. DOMAIN list' = DOMAIN list
  OBVIOUS
<1>3. ListedOnce'
  BY <1>2 DEF NodesInv, ListedOnce
<1>4. Nodes!Listed' = Nodes!Listed
  BY <1>2 DEF Nodes!Listed
<1> QED BY <1>1, <1>2, <1>3, <1>4

(* The profile that is taken off: the others stay, each in a place.        *)
LEMMA ListShrinks ==
  ASSUME NodesInv, NEW n \in Node, list' = Nodes!Without(n)
  PROVE  /\ list' \in Seq(Nodes!Profile) /\ ListedOnce'
         /\ \A i \in DOMAIN list' : \E j \in DOMAIN list : list'[i] = list[j]
         /\ Nodes!Listed' = Nodes!Listed \ {n}
<1>1. CASE n \notin Nodes!Listed
  <2>1. list' = list
    BY <1>1 DEF Nodes!Without
  <2>2. Nodes!Listed' = Nodes!Listed
    BY <2>1 DEF Nodes!Listed
  <2> QED BY <1>1, <2>1, <2>2 DEF NodesInv, NodesShape, ListedOnce
<1>2. CASE n \in Nodes!Listed
  <2> DEFINE k == Nodes!Position(n)
             a == SubSeq(list, 1, k - 1)
             b == SubSeq(list, k + 1, Len(list))
  <2>1. list' = a \o b
    BY <1>2 DEF Nodes!Without
  <2>2. k \in 1 .. Len(list) /\ list[k].id = n /\ Len(list) \in Nat
    BY <1>2, PositionIs, ListIs
  <2>3. \A i \in 1 .. Len(list) : list[i] \in Nodes!Profile
    BY ListIs
  <2> HIDE DEF k
  <2>4. /\ a \in Seq(Nodes!Profile) /\ Len(a) = k - 1
        /\ \A i \in 1 .. k - 1 : a[i] = list[i]
    <3>1. 1 \in Int /\ k - 1 \in Int /\ \A i \in 1 .. k - 1 : list[i] \in Nodes!Profile
      BY <2>2, <2>3
    <3>2. /\ a \in Seq(Nodes!Profile) /\ Len(a) = IF 1 <= k - 1 THEN k - 1 - 1 + 1 ELSE 0
          /\ \A i \in 1 .. k - 1 - 1 + 1 : a[i] = list[1 + i - 1]
      BY <3>1, SubSeqProperties
    <3> HIDE DEF a
    <3> QED BY <2>2, <3>2
  <2>5. /\ b \in Seq(Nodes!Profile) /\ Len(b) = Len(list) - k
        /\ \A i \in 1 .. Len(list) - k : b[i] = list[k + i]
    <3>1. k + 1 \in Int /\ Len(list) \in Int /\ \A i \in k + 1 .. Len(list) : list[i] \in Nodes!Profile
      BY <2>2, <2>3
    <3> DEFINE m == k + 1
    <3> HIDE DEF m
    <3>2. /\ SubSeq(list, m, Len(list)) \in Seq(Nodes!Profile)
          /\ Len(SubSeq(list, m, Len(list))) = IF m <= Len(list) THEN Len(list) - m + 1 ELSE 0
          /\ \A i \in 1 .. Len(list) - m + 1 : SubSeq(list, m, Len(list))[i] = list[m + i - 1]
      BY <3>1, SubSeqProperties DEF m
    <3>3. /\ b \in Seq(Nodes!Profile)
          /\ Len(b) = IF m <= Len(list) THEN Len(list) - m + 1 ELSE 0
          /\ \A i \in 1 .. Len(list) - m + 1 : b[i] = list[m + i - 1]
      BY <3>2 DEF m
    <3> HIDE DEF b
    <3> QED BY <2>2, <3>3 DEF m
  <2> HIDE DEF a, b
  <2>6. /\ list' \in Seq(Nodes!Profile) /\ Len(list') = Len(list) - 1
        /\ \A i \in 1 .. Len(list) - 1 : list'[i] = IF i <= k - 1 THEN a[i] ELSE b[i - (k - 1)]
    <3>1. /\ a \o b \in Seq(Nodes!Profile) /\ Len(a \o b) = Len(a) + Len(b)
          /\ \A i \in 1 .. Len(a) + Len(b) : (a \o b)[i] =
               IF i <= Len(a) THEN a[i] ELSE b[i - Len(a)]
      BY <2>4, <2>5, ConcatProperties
    <3>2. Len(a) + Len(b) = Len(list) - 1
      BY <2>2, <2>4, <2>5
    <3> QED BY <2>1, <2>4, <3>1, <3>2
  <2>7. DOMAIN list' = 1 .. Len(list) - 1 /\ DOMAIN list = 1 .. Len(list)
    BY <2>6, ListIs, LenProperties
  <2>8. \A i \in 1 .. Len(list) - 1 :
          list'[i] = list[IF i < k THEN i ELSE i + 1]
    <3> SUFFICES ASSUME NEW i \in 1 .. Len(list) - 1
                 PROVE  list'[i] = list[IF i < k THEN i ELSE i + 1]
      OBVIOUS
    <3>1. CASE i < k
      BY <2>2, <2>4, <2>6, <3>1
    <3>2. CASE ~(i < k)
      <4>1. i - (k - 1) \in 1 .. Len(list) - k /\ k + (i - (k - 1)) = i + 1
        BY <2>2, <3>2
      <4> QED BY <2>2, <2>5, <2>6, <3>2, <4>1
    <3> QED BY <3>1, <3>2
  <2>9. ListedOnce'
    <3> SUFFICES ASSUME NEW i \in 1 .. Len(list) - 1, NEW j \in 1 .. Len(list) - 1,
                        list'[i].id = list'[j].id
                 PROVE  i = j
      BY <2>7 DEF ListedOnce
    <3> DEFINE x == IF i < k THEN i ELSE i + 1
               y == IF j < k THEN j ELSE j + 1
    <3>1. list'[i] = list[x] /\ list'[j] = list[y]
      BY <2>8
    <3>2. x \in DOMAIN list /\ y \in DOMAIN list
      BY <2>2, <2>7
    <3>3. x = y
      <4> HIDE DEF x, y
      <4> QED BY <3>1, <3>2 DEF NodesInv, ListedOnce
    <3> QED BY <2>2, <3>3
  <2>10. \A i \in DOMAIN list' : \E j \in DOMAIN list : j # k /\ list'[i] = list[j]
    BY <2>2, <2>7, <2>8
  <2>11. Nodes!Listed' \subseteq Nodes!Listed \ {n}
    BY <2>2, <2>7, <2>10 DEF NodesInv, ListedOnce, Nodes!Listed
  <2>12. ASSUME NEW x \in Nodes!Listed, x # n PROVE x \in Nodes!Listed'
    <3>1. PICK j \in DOMAIN list : list[j].id = x
      BY DEF Nodes!Listed
    <3>2. j # k /\ j \in 1 .. Len(list)
      BY <2>2, <2>7, <2>12, <3>1
    <3> DEFINE i == IF j < k THEN j ELSE j - 1
    <3>3. i \in 1 .. Len(list) - 1 /\ (IF i < k THEN i ELSE i + 1) = j
      BY <2>2, <3>2
    <3> HIDE DEF i
    <3>4. i \in DOMAIN list' /\ list'[i] = list[j]
      BY <2>7, <2>8, <3>3
    <3> QED BY <3>1, <3>4 DEF Nodes!Listed
  <2> QED BY <2>6, <2>9, <2>10, <2>11, <2>12
<1> QED BY <1>1, <1>2

-----------------------------------------------------------------------------
(* One lemma for what each part of the program does                        *)

(* A new job.                                                              *)
LEMMA JobIs ==
  ASSUME NEW o \in {"create", "import", "replace", "patch", "splice", "rm", "inspect"},
         NEW n \in Node, NEW h \in BOOLEAN
  PROVE  /\ Nodes!Job(o, n, h) \in Nodes!Work /\ Nodes!Job(o, n, h).op = o
         /\ Nodes!Job(o, n, h).id = n /\ Nodes!Job(o, n, h).at = 0
         /\ Nodes!Job(o, n, h) \in
              [op : {"create", "import", "replace", "patch", "splice", "rm", "inspect"},
               id : Node, at : Nat, keyed : BOOLEAN, box : BOOLEAN]
BY DEF Nodes!Job, Nodes!Work

(* The job of a request.                                                   *)
LEMMA WorkIs ==
  ASSUME NodesInv, NEW r \in HostRequest, work[r] # None
  PROVE  /\ work[r] \in Nodes!Work /\ work[r].id \in Node /\ work[r].keyed \in BOOLEAN
         /\ work[r].at \in Nat /\ work[r].box \in BOOLEAN
         /\ WorkFits(r, work[r])
BY DEF NodesInv, NodesShape, Jobs, Nodes!Work

(* A request for a node that is new.                                       *)
LEMMA NewKeeps ==
  ASSUME NodesInv, NEW r \in HostRequest, NEW n \in Node, NEW h \in BOOLEAN,
         Nodes!Create(r, n, h) \/ Nodes!Import(r, n, h)
  PROVE  NodesInv'
<1> USE DEF Nodes!Do, Nodes!Turn
<1>1. \A q \in HostRequest : work[q] # None => work[q].id \in used
  BY DEF NodesInv, WorkFits
<1>2. used \subseteq Node /\ queue \in HostRequest \cup {None}
  BY DEF NodesInv, NodesShape
<1>3. CASE Nodes!Create(r, n, h)
  <2> DEFINE w == Nodes!Job("create", n, h)
  <2>1. w \in Jobs /\ w.op = "create" /\ w.id = n
    BY JobIs DEF Jobs
  <2>2. /\ n \notin used /\ used' = used \cup {n} /\ work' = [work EXCEPT ![r] = w]
        /\ list' = list /\ keys' = keys /\ boxes' = boxes /\ queue' = queue
    BY <1>3 DEF Nodes!Create
  <2>3. boxes \subseteq Node /\ n \notin Nodes!Listed
    BY <2>2 DEF NodesInv, NodesShape
  <2> HIDE DEF w
  <2>4. \A q \in HostRequest : q # r /\ work[q] # None => Apart(w, work[q]) /\ Apart(work[q], w)
    BY <1>1, <2>1, <2>2 DEF Apart
  <2> QED BY <1>2, <2>1, <2>2, <2>3, <2>4, UnlistedStep
<1>4. CASE Nodes!Import(r, n, h)
  <2> DEFINE w == Nodes!Job("import", n, h)
  <2>1. w \in Jobs /\ w.op = "import" /\ w.id = n
    BY JobIs DEF Jobs
  <2>2. /\ n \notin Nodes!Listed /\ used' = used \cup {n} /\ work' = [work EXCEPT ![r] = w]
        /\ list' = list /\ keys' = keys /\ boxes' = boxes /\ queue' = r /\ queue = None
        /\ \A q \in HostRequest : work[q] # None /\ work[q].op = "create" => work[q].id # n
    BY <1>4 DEF Nodes!Import, Nodes!Now
  <2>3. boxes \subseteq Node
    BY DEF NodesInv, NodesShape
  <2> HIDE DEF w
  <2>4. \A q \in HostRequest : q # r /\ work[q] # None => Apart(w, work[q]) /\ Apart(work[q], w)
    BY <2>1, <2>2 DEF Apart
  <2> QED BY <1>2, <2>1, <2>2, <2>3, <2>4, UnlistedStep
<1> QED BY <1>3, <1>4

(* A request about a node that is listed.                                  *)
LEMMA ListedStep ==
  ASSUME NodesInv, NEW r \in HostRequest, NEW n \in Nodes!Listed, NEW w \in Nodes!Work,
         work' = [work EXCEPT ![r] = w], w.id = n,
         w.op \notin {"create", "import", "forget"},
         w.op = "replace" => w.at = Nodes!Position(n) /\ queue' = r,
         UNCHANGED <<list, keys, boxes, used>>,
         queue' \in HostRequest \cup {None}, queue' = queue \/ queue = None
  PROVE  NodesInv'
<1>1. n \in used /\ used \subseteq Node /\ boxes \subseteq Node
  BY EntryIs DEF NodesInv, NodesShape
<1>2. ASSUME NEW q \in HostRequest, q # r, work[q] # None
      PROVE  Apart(w, work[q]) /\ Apart(work[q], w)
  <2>1. work[q].op = "create" => work[q].id \notin Nodes!Listed
    BY <1>2 DEF NodesInv, WorkFits
  <2> QED BY <2>1 DEF Apart
<1>3. w \in Jobs
  BY DEF Jobs
<1>4. w.op = "replace" => w.at \in DOMAIN list /\ list[w.at].id = w.id
  BY PositionIs
<1> QED BY <1>1, <1>2, <1>3, <1>4, UnlistedStep

(* Requests about listed nodes.                                            *)
LEMMA AskedKeeps ==
  ASSUME NodesInv, NEW r \in HostRequest, NEW n \in Node, NEW h \in BOOLEAN,
         Nodes!Patch(r, n, h) \/ Nodes!Replace(r, n, h) \/ Nodes!Remove(r, n, h)
         \/ Nodes!Provision(r, n)
  PROVE  NodesInv'
<1> USE DEF Nodes!Do, Nodes!Turn
<1>1. n \in Nodes!Listed
  BY DEF Nodes!Patch, Nodes!Replace, Nodes!Remove, Nodes!Provision
<1>2. queue \in HostRequest \cup {None} /\ Nodes!Entry(n).box \in BOOLEAN /\ Nodes!Position(n) \in Nat
  BY <1>1, EntryIs DEF NodesInv, NodesShape, Nodes!Profile
<1>3. CASE Nodes!Patch(r, n, h)
  <2> DEFINE w == Nodes!Job("patch", n, h)
  <2>1. w \in Nodes!Work /\ w.op = "patch" /\ w.id = n
    BY JobIs
  <2>2. work' = [work EXCEPT ![r] = w] /\ UNCHANGED <<list, keys, boxes, queue, used>>
    BY <1>3 DEF Nodes!Patch
  <2> HIDE DEF w
  <2> QED BY <1>1, <1>2, <2>1, <2>2, ListedStep
<1>4. CASE Nodes!Replace(r, n, h)
  <2> DEFINE j == Nodes!Job("replace", n, h)
             w == [j EXCEPT !.at = Nodes!Position(n), !.box = Nodes!Entry(n).box]
  <2>1. j \in Nodes!Work /\ j.op = "replace" /\ j.id = n
    BY JobIs
  <2>2. /\ work' = [work EXCEPT ![r] = w] /\ UNCHANGED <<list, keys, boxes, used>>
        /\ queue = None /\ queue' = r
    BY <1>4 DEF Nodes!Replace
  <2> HIDE DEF j
  <2>3. w \in Nodes!Work /\ w.op = "replace" /\ w.id = n /\ w.at = Nodes!Position(n)
    BY <1>2, <2>1 DEF Nodes!Work
  <2> HIDE DEF w
  <2> QED BY <1>1, <1>2, <2>2, <2>3, ListedStep
<1>5. CASE Nodes!Remove(r, n, h)
  <2>1. PICK o \in {"rm", "splice"} :
          work' = [work EXCEPT ![r] = [Nodes!Job(o, n, h) EXCEPT !.box = Nodes!Entry(n).box]]
    BY <1>5 DEF Nodes!Remove
  <2> DEFINE j == Nodes!Job(o, n, h)
             w == [j EXCEPT !.box = Nodes!Entry(n).box]
  <2>2. j \in Nodes!Work /\ j.op = o /\ j.id = n
    BY JobIs
  <2>3. work' = [work EXCEPT ![r] = w] /\ UNCHANGED <<list, keys, boxes, queue, used>>
    BY <1>5, <2>1 DEF Nodes!Remove
  <2> HIDE DEF j
  <2>4. w \in Nodes!Work /\ w.op = o /\ w.id = n
    BY <1>2, <2>2 DEF Nodes!Work
  <2> HIDE DEF w
  <2> QED BY <1>1, <1>2, <2>3, <2>4, ListedStep
<1>6. CASE Nodes!Provision(r, n)
  <2> DEFINE j == Nodes!Job("inspect", n, FALSE)
             w == [j EXCEPT !.box = Nodes!Entry(n).box]
  <2>1. j \in Nodes!Work /\ j.op = "inspect" /\ j.id = n
    BY JobIs
  <2>2. work' = [work EXCEPT ![r] = w] /\ UNCHANGED <<list, keys, boxes, queue, used>>
    BY <1>6 DEF Nodes!Provision
  <2> HIDE DEF j
  <2>3. w \in Nodes!Work /\ w.op = "inspect" /\ w.id = n
    BY <1>2, <2>1 DEF Nodes!Work
  <2> HIDE DEF w
  <2> QED BY <1>1, <1>2, <2>2, <2>3, ListedStep
<1> QED BY <1>3, <1>4, <1>5, <1>6

(* Work with containers, and work that ends.                               *)
LEMMA BoxKeeps ==
  ASSUME NodesInv, NEW r \in HostRequest,
         Nodes!Refused(r) \/ Nodes!RemoveBox(r) \/ Nodes!Inspect(r) \/ Nodes!PullRun(r)
         \/ Nodes!Wait(r)
  PROVE  NodesInv'
<1> USE DEF Nodes!Do, Nodes!Then, Nodes!Turn, Nodes!Now
<1>1. work[r] # None
  BY DEF Nodes!Refused, Nodes!RemoveBox, Nodes!Inspect, Nodes!PullRun, Nodes!Wait
<1>2. work[r] \in Nodes!Work /\ work[r].id \in Node
  BY <1>1, WorkIs
<1> DEFINE Goes(w) == /\ work' = [work EXCEPT ![r] = w]
                      /\ w # None => /\ w.id = work[r].id
                                     /\ w.op \notin {"create", "import", "replace", "forget"}
           Goal == \E w \in Jobs : Goes(w)
<1>3. Goal
  <2>1. ASSUME NEW o \in {"splice", "name", "pull", "wait"},
               work' = [work EXCEPT ![r] = [work[r] EXCEPT !.op = o]]
        PROVE  Goal
    <3> DEFINE w == [work[r] EXCEPT !.op = o]
    <3>1. w \in Nodes!Work /\ w.id = work[r].id /\ w.op = o
      BY <1>2 DEF Nodes!Work
    <3> QED BY <2>1, <3>1 DEF Jobs
  <2>2. CASE work' = [work EXCEPT ![r] = None]
    <3>1. None \in Jobs
      BY DEF Jobs
    <3> QED BY <2>2, <3>1
  <2>3. \/ \E o \in {"splice", "name", "pull", "wait"} :
             work' = [work EXCEPT ![r] = [work[r] EXCEPT !.op = o]]
        \/ work' = [work EXCEPT ![r] = None]
    <3>1. CASE Nodes!Refused(r)
      BY <3>1 DEF Nodes!Refused
    <3>2. CASE Nodes!RemoveBox(r)
      BY <3>2 DEF Nodes!RemoveBox
    <3>3. CASE Nodes!Inspect(r)
      BY <3>3 DEF Nodes!Inspect
    <3>4. CASE Nodes!PullRun(r)
      BY <3>4 DEF Nodes!PullRun
    <3>5. CASE Nodes!Wait(r)
      BY <3>5 DEF Nodes!Wait
    <3> QED BY <3>1, <3>2, <3>3, <3>4, <3>5
  <2> HIDE DEF Goal
  <2> QED BY <2>1, <2>2, <2>3
<1>4. PICK w \in Jobs : Goes(w)
  BY <1>3
<1>5. list' = list /\ keys' = keys /\ used' = used
  BY DEF Nodes!Refused, Nodes!RemoveBox, Nodes!Inspect, Nodes!PullRun, Nodes!Wait
<1>6. boxes' \subseteq Node
  BY <1>2 DEF NodesInv, NodesShape, Nodes!Refused, Nodes!RemoveBox, Nodes!Inspect,
     Nodes!PullRun,
              Nodes!Wait
<1>7. queue' \in HostRequest \cup {None} /\ (queue' = queue \/ queue \in {None, r})
  BY DEF NodesInv, NodesShape, Nodes!Refused, Nodes!RemoveBox, Nodes!Inspect, Nodes!PullRun,
         Nodes!Wait
<1> QED BY <1>1, <1>4, <1>5, <1>6, <1>7, GoesOn

(* A node is listed, with the credentials that came with it.               *)
LEMMA CreatedKeeps ==
  ASSUME NodesInv, NEW r \in HostRequest, NEW d \in BOOLEAN, Nodes!Created(r, d)
  PROVE  NodesInv'
<1> DEFINE w == work[r]
           p == [id |-> w.id, keyed |-> w.keyed, box |-> FALSE]
           next == IF d /\ w.op = "create" THEN Nodes!Job("inspect", w.id, FALSE) ELSE None
<1>1. w # None /\ w.op \in {"create", "import"}
  BY DEF Nodes!Created, Nodes!Now
<1>2. /\ w.id \in Node /\ w.keyed \in BOOLEAN /\ w.id \in used /\ w.id \notin Nodes!Listed
      /\ w.op = "import" => queue = r
  BY <1>1, WorkIs DEF WorkFits
<1>3. /\ keys' = IF w.keyed THEN keys \cup {w.id} ELSE keys
      /\ list' = Append(list, p)
      /\ work' = [work EXCEPT ![r] = next]
      /\ queue' = IF queue = r THEN None ELSE queue
      /\ boxes' = boxes /\ used' = used
  BY <1>1 DEF Nodes!Created, Nodes!Do
<1>4. next \in Jobs /\ (next # None => next.op = "inspect" /\ next.id = w.id)
  BY <1>2, JobIs DEF Jobs
<1>5. p \in Nodes!Profile /\ p.id = w.id /\ (p.keyed => w.keyed)
  BY <1>2 DEF Nodes!Profile
<1> HIDE DEF p, next
<1>6. /\ list' \in Seq(Nodes!Profile) /\ DOMAIN list' = DOMAIN list \cup {Len(list) + 1}
      /\ \A i \in DOMAIN list : list'[i] = list[i]
      /\ list'[Len(list) + 1] = p
      /\ Nodes!Listed' = Nodes!Listed \cup {w.id}
  BY <1>3, <1>5, ListGrows
<1>7. ListedOnce' /\ ListedHaveKeys'
  <2>1. \A i \in DOMAIN list : list[i].id # w.id
    BY <1>2 DEF Nodes!Listed
  <2>2. ListedOnce'
    BY <1>5, <1>6, <2>1 DEF ListedOnce, NodesInv
  <2>3. ListedHaveKeys'
    BY <1>3, <1>5, <1>6 DEF ListedHaveKeys, NodesInv
  <2> QED BY <2>2, <2>3
<1>8. ASSUME NEW q \in HostRequest, q # r, work[q] # None
      PROVE  /\ work[q].op \in {"create", "import", "forget"} => work[q].id \notin Nodes!Listed'
             /\ work[q].op = "replace" => work[q].at \in DOMAIN list'
                                          /\ list'[work[q].at].id = work[q].id
             /\ Apart(next, work[q]) /\ Apart(work[q], next)
  <2>1. WorkFits(q, work[q]) /\ Apart(w, work[q]) /\ Apart(work[q], w)
    BY <1>8 DEF NodesInv
  <2>2. w.op = "import" => work[q].op \notin {"import", "forget"}
    BY <1>2, <1>8, <2>1 DEF WorkFits
  <2>3. work[q].op \in {"create", "import", "forget"} => work[q].id # w.id
    BY <1>1, <1>8, <2>1, <2>2 DEF Apart
  <2> QED BY <1>1, <1>4, <1>6, <1>8, <2>1, <2>3 DEF WorkFits, Apart
<1>9. /\ used \subseteq Node /\ boxes \subseteq Node /\ keys' \subseteq Node
      /\ queue' \in HostRequest \cup {None} /\ Nodes!Listed' \subseteq used
  BY <1>2, <1>3, <1>6 DEF NodesInv, NodesShape
<1> QED BY <1>2, <1>3, <1>4, <1>6, <1>7, <1>8, <1>9, RequestStep

(* A profile changes in its place.                                         *)
LEMMA PatchedKeeps ==
  ASSUME NodesInv, NEW r \in HostRequest,
         (\E d \in BOOLEAN : Nodes!Patched(r, d)) \/ Nodes!Replaced(r) \/ Nodes!Name(r)
  PROVE  /\ NodesInv' /\ Nodes!Listed' = Nodes!Listed
<1> DEFINE w == work[r]
<1>1. w # None /\ w.op \in {"patch", "replace", "name"} /\ used' = used /\ boxes' = boxes
  BY DEF Nodes!Patched, Nodes!Replaced, Nodes!Name, Nodes!Now
<1>2. /\ w.id \in Node /\ w.keyed \in BOOLEAN /\ w.box \in BOOLEAN /\ w.id \in used
      /\ w.op = "replace" => queue = r /\ w.at \in DOMAIN list /\ list[w.at].id = w.id
  BY <1>1, WorkIs DEF WorkFits
<1> DEFINE Goes(v) == /\ work' = [work EXCEPT ![r] = v]
                      /\ v # None => v.op = "inspect" /\ v.id = w.id
           Goal == \E v \in Jobs : Goes(v)
<1>3. Goal
  <2>1. CASE Nodes!Replaced(r) \/ Nodes!Name(r)
    <3>1. work' = [work EXCEPT ![r] = None] /\ None \in Jobs
      BY <2>1 DEF Nodes!Replaced, Nodes!Name, Nodes!Do, Jobs
    <3> QED BY <3>1
  <2>2. ASSUME NEW d \in BOOLEAN, Nodes!Patched(r, d)
        PROVE  Goal
    <3> DEFINE j == Nodes!Job("inspect", w.id, FALSE)
               v == [j EXCEPT !.box = Nodes!Entry(w.id).box]
    <3>1. work' = [work EXCEPT ![r] = IF d /\ w.id \in Nodes!Listed THEN v ELSE None]
      BY <2>2 DEF Nodes!Patched, Nodes!Do
    <3>2. CASE d /\ w.id \in Nodes!Listed
      <4>1. Nodes!Entry(w.id).box \in BOOLEAN
        BY <3>2, EntryIs DEF Nodes!Profile
      <4>2. j \in Nodes!Work /\ j.op = "inspect" /\ j.id = w.id
        BY <1>2, JobIs
      <4>3. work' = [work EXCEPT ![r] = v]
        BY <3>1, <3>2
      <4> HIDE DEF j
      <4>4. v \in Nodes!Work /\ v.op = "inspect" /\ v.id = w.id
        BY <4>1, <4>2 DEF Nodes!Work
      <4> QED BY <4>3, <4>4 DEF Jobs
    <3>3. CASE ~(d /\ w.id \in Nodes!Listed)
      <4>1. work' = [work EXCEPT ![r] = None] /\ None \in Jobs
        BY <3>1, <3>3 DEF Jobs
      <4> QED BY <4>1
    <3> QED BY <3>2, <3>3
  <2>3. Nodes!Replaced(r) \/ Nodes!Name(r) \/ \E d \in BOOLEAN : Nodes!Patched(r, d)
    OBVIOUS
  <2> HIDE DEF Goal
  <2> QED BY <2>1, <2>2, <2>3
<1>4. PICK next \in Jobs : Goes(next)
  BY <1>3
<1>5. keys \subseteq keys' /\ keys' \subseteq Node
  <2>1. keys' = keys \/ keys' = keys \cup {w.id}
    BY DEF Nodes!Patched, Nodes!Replaced, Nodes!Name
  <2> QED BY <1>2, <2>1 DEF NodesInv, NodesShape
<1>6. /\ list' \in [DOMAIN list -> Nodes!Profile]
      /\ \A i \in DOMAIN list : list'[i].id = list[i].id
      /\ \A i \in DOMAIN list : list'[i].keyed => list[i].keyed \/ list[i].id \in keys'
  <2>1. \A i \in DOMAIN list : list[i] \in Nodes!Profile
    BY ListIs
  <2>2. ASSUME NEW i \in DOMAIN list
        PROVE  /\ [list[i] EXCEPT !.keyed = TRUE] \in Nodes!Profile
               /\ [list[i] EXCEPT !.box = TRUE] \in Nodes!Profile
               /\ [list[i] EXCEPT !.keyed = TRUE].id = list[i].id
               /\ [list[i] EXCEPT !.box = TRUE].id = list[i].id
               /\ [list[i] EXCEPT !.box = TRUE].keyed = list[i].keyed
    BY <2>1 DEF Nodes!Profile
  <2>3. CASE \E d \in BOOLEAN : Nodes!Patched(r, d)
    <3>1. /\ list' = [i \in DOMAIN list |-> IF list[i].id = w.id /\ w.keyed
                                            THEN [list[i] EXCEPT !.keyed = TRUE] ELSE list[i]]
          /\ keys' = IF w.keyed THEN keys \cup {w.id} ELSE keys
      BY <2>3 DEF Nodes!Patched
    <3> QED BY <2>1, <2>2, <3>1
  <2>4. CASE Nodes!Name(r)
    <3>1. list' = [i \in DOMAIN list |-> IF list[i].id = w.id
                                         THEN [list[i] EXCEPT !.box = TRUE] ELSE list[i]]
      BY <2>4 DEF Nodes!Name
    <3> QED BY <2>1, <2>2, <3>1
  <2>5. CASE Nodes!Replaced(r)
    <3> DEFINE old == w.at \in DOMAIN list /\ list[w.at].keyed
               h == w.keyed \/ old
               new == [id |-> w.id, keyed |-> h, box |-> w.box]
    <3>1. w.op = "replace"
      BY <2>5 DEF Nodes!Replaced, Nodes!Now
    <3>2. w.at \in DOMAIN list /\ list[w.at].id = w.id
      BY <1>2, <3>1
    <3>3. /\ list' = [list EXCEPT ![w.at] = new]
          /\ keys' = IF w.keyed THEN keys \cup {w.id} ELSE keys
      BY <2>5, <3>2 DEF Nodes!Replaced
    <3>4. h \in BOOLEAN /\ (h => w.keyed \/ list[w.at].keyed)
      OBVIOUS
    <3> HIDE DEF h
    <3>5. new \in Nodes!Profile /\ new.id = w.id /\ new.keyed = h
      BY <1>2, <3>4 DEF Nodes!Profile
    <3> HIDE DEF new
    <3>6. list \in [DOMAIN list -> Nodes!Profile]
      BY <2>1, ListIs, LenProperties DEF NodesInv, NodesShape
    <3>7. list' \in [DOMAIN list -> Nodes!Profile]
      BY <3>2, <3>3, <3>5, <3>6
    <3>8. \A i \in DOMAIN list : list'[i] = IF i = w.at THEN new ELSE list[i]
      BY <3>2, <3>3, <3>6
    <3>9. \A i \in DOMAIN list : list'[i].id = list[i].id
      BY <3>2, <3>5, <3>8
    <3>10. h => list[w.at].keyed \/ list[w.at].id \in keys'
      BY <3>2, <3>3, <3>4
    <3> QED BY <3>5, <3>7, <3>8, <3>9, <3>10
  <2> QED BY <2>3, <2>4, <2>5
<1>7. /\ list' \in Seq(Nodes!Profile) /\ DOMAIN list' = DOMAIN list
      /\ ListedOnce' /\ Nodes!Listed' = Nodes!Listed
  BY <1>6, ListChanges
<1>8. ListedHaveKeys'
  BY <1>5, <1>6, <1>7 DEF NodesInv, ListedHaveKeys
<1>9. ASSUME NEW q \in HostRequest, q # r, work[q] # None
      PROVE  /\ work[q].op \in {"create", "import", "forget"} => work[q].id \notin Nodes!Listed'
             /\ work[q].op = "replace" => work[q].at \in DOMAIN list'
                                          /\ list'[work[q].at].id = work[q].id
             /\ Apart(next, work[q]) /\ Apart(work[q], next)
  <2>1. WorkFits(q, work[q]) /\ Apart(w, work[q]) /\ Apart(work[q], w)
    BY <1>9 DEF NodesInv
  <2> QED BY <1>1, <1>4, <1>6, <1>7, <1>9, <2>1 DEF WorkFits, Apart
<1>10. /\ used \subseteq Node /\ boxes \subseteq Node
      /\ queue' \in HostRequest \cup {None} /\ (queue' = queue \/ queue \in {None, r})
      /\ Nodes!Listed' \subseteq used
  <2>1. queue' = queue \/ (queue' = None /\ w.op = "replace")
    BY DEF Nodes!Patched, Nodes!Replaced, Nodes!Name, Nodes!Now
  <2> QED BY <1>2, <1>7, <2>1 DEF NodesInv, NodesShape
<1> QED BY <1>1, <1>2, <1>4, <1>5, <1>7, <1>8, <1>9, <1>10, RequestStep

(* A node is taken off the list.                                           *)
LEMMA SpliceKeeps ==
  ASSUME NodesInv, NEW r \in HostRequest, Nodes!Splice(r)
  PROVE  NodesInv' /\ Nodes!Listed' = Nodes!Listed \ {work[r].id}
<1> DEFINE w == work[r]
           more == [w EXCEPT !.op = "forget"]
<1>1. /\ w # None /\ w.op = "splice" /\ queue \in {None, r} /\ list' = Nodes!Without(w.id)
      /\ keys' = keys /\ boxes' = boxes /\ used' = used
  BY DEF Nodes!Splice, Nodes!Now, Nodes!Turn
<1>2. w \in Nodes!Work /\ w.id \in Node /\ w.id \in used
  BY <1>1, WorkIs DEF WorkFits
<1>3. /\ list' \in Seq(Nodes!Profile) /\ ListedOnce'
      /\ \A i \in DOMAIN list' : \E j \in DOMAIN list : list'[i] = list[j]
      /\ Nodes!Listed' = Nodes!Listed \ {w.id}
  BY <1>1, <1>2, ListShrinks
<1>4. more \in Nodes!Work /\ more.op = "forget" /\ more.id = w.id
  BY <1>2 DEF Nodes!Work
<1>5. \/ work' = [work EXCEPT ![r] = None] /\ queue' = None
      \/ work' = [work EXCEPT ![r] = more] /\ queue' = r
  BY DEF Nodes!Splice, Nodes!Then, Nodes!Do
<1> HIDE DEF more
<1>6. ListedHaveKeys'
  BY <1>1, <1>3 DEF NodesInv, ListedHaveKeys
<1>7. ASSUME NEW q \in HostRequest, q # r, work[q] # None
      PROVE  /\ work[q].op \notin {"import", "replace", "forget"}
             /\ work[q].op = "create" => work[q].id \notin Nodes!Listed'
             /\ Apart(more, work[q]) /\ Apart(work[q], more)
             /\ Apart(None, work[q]) /\ Apart(work[q], None)
  <2>1. WorkFits(q, work[q]) /\ Apart(w, work[q]) /\ Apart(work[q], w)
    BY <1>7 DEF NodesInv
  <2> QED BY <1>1, <1>3, <1>4, <1>7, <2>1, NodesAssumption DEF WorkFits, Apart
<1>8. /\ used \subseteq Node /\ boxes \subseteq Node /\ keys \subseteq Node
      /\ Nodes!Listed' \subseteq used
  BY <1>3 DEF NodesInv, NodesShape
<1>9. PICK next \in Jobs :
        /\ next \in {None, more} /\ work' = [work EXCEPT ![r] = next]
        /\ queue' \in HostRequest \cup {None} /\ (next # None => queue' = r)
  BY <1>4, <1>5 DEF Jobs
<1>10. NodesInv'
  BY <1>1, <1>2, <1>3, <1>4, <1>6, <1>7, <1>8, <1>9, RequestStep
<1> QED BY <1>3, <1>10

(* The credentials of a node that is off the list go.                      *)
LEMMA ForgetKeeps ==
  ASSUME NodesInv, NEW r \in HostRequest, Nodes!Forget(r)
  PROVE  NodesInv'
<1> DEFINE w == work[r]
<1>1. /\ w # None /\ w.op = "forget" /\ keys' \in {keys, keys \ {w.id}}
      /\ work' = [work EXCEPT ![r] = None] /\ queue' = IF queue = r THEN None ELSE queue
      /\ list' = list /\ boxes' = boxes /\ used' = used
  BY DEF Nodes!Forget, Nodes!Now, Nodes!Do
<1>2. w.id \notin Nodes!Listed
  BY <1>1, WorkIs DEF WorkFits
<1>3. Nodes!Listed' = Nodes!Listed /\ ListedOnce'
  BY <1>1 DEF Nodes!Listed, NodesInv, ListedOnce
<1>4. ListedHaveKeys'
  BY <1>1, <1>2 DEF NodesInv, ListedHaveKeys, Nodes!Listed
<1>5. /\ list' \in Seq(Nodes!Profile) /\ keys' \subseteq Node /\ boxes' \subseteq Node
      /\ used \subseteq used' /\ used' \subseteq Node /\ queue' \in HostRequest \cup {None}
      /\ queue' = queue \/ queue \in {None, r}
      /\ Nodes!Listed' \subseteq used' /\ None \in Jobs
  BY <1>1, <1>3 DEF NodesInv, NodesShape, Jobs
<1>6. \A q \in HostRequest : q # r /\ work[q] # None =>
           /\ work[q].op \in {"create", "import", "forget"} => work[q].id \notin Nodes!Listed'
           /\ work[q].op = "replace" => work[q].at \in DOMAIN list'
                                        /\ list'[work[q].at].id = work[q].id
           /\ Apart(None, work[q]) /\ Apart(work[q], None)
  BY <1>1, <1>3 DEF NodesInv, WorkFits, Apart
<1> QED BY <1>1, <1>3, <1>4, <1>5, <1>6, RequestStep

(* A container that goes leaves the list alone.                            *)
LEMMA DeleteBoxKeeps ==
  ASSUME NodesInv, NEW n \in Node, Nodes!DeleteBox(n)
  PROVE  NodesInv'
<1>1. UNCHANGED <<list, keys, work, queue, used>> /\ boxes' \subseteq boxes
  BY DEF Nodes!DeleteBox
<1>2. NodesShape' /\ Nodes!Listed' = Nodes!Listed
  BY <1>1 DEF NodesInv, NodesShape, Nodes!Listed
<1> QED BY <1>1, <1>2 DEF NodesInv, ListedOnce, ListedHaveKeys, WorkFits, Apart

(* The list and the work on it, in every state.                            *)
LEMMA NodesInvariance == MC_HostSpec => []NodesInv
<1>1. MC_Init => NodesInv
  <2>1. MC_Init => Nodes!Init
    BY DEF MC_Init
  <2>2. ASSUME Nodes!Init PROVE NodesInv
    <3>1. list = << >> /\ list \in Seq(Nodes!Profile) /\ DOMAIN list = {}
      BY <2>2, EmptySeq DEF Nodes!Init
    <3>2. Nodes!Listed = {}
      BY <3>1 DEF Nodes!Listed
    <3> QED BY <2>2, <3>1, <3>2 DEF Nodes!Init, NodesInv, NodesShape, Jobs, ListedOnce,
                                  ListedHaveKeys, WorkFits, Apart
  <2> QED BY <2>1, <2>2
<1>2. NodesInv /\ [MC_Next]_hostVars => NodesInv'
  <2> SUFFICES ASSUME NodesInv, [MC_Next]_hostVars PROVE NodesInv'
    OBVIOUS
  <2>1. Nodes!Next \/ UNCHANGED nodesVars
    BY DEF MC_Next, hostVars
  <2>2. CASE Nodes!Next
    BY <2>2, NewKeeps, AskedKeeps, BoxKeeps, CreatedKeeps, PatchedKeeps, SpliceKeeps,
       ForgetKeeps,
       DeleteBoxKeeps DEF Nodes!Next
  <2>3. CASE UNCHANGED nodesVars
    BY <2>3 DEF nodesVars, NodesInv, NodesShape, ListedOnce, ListedHaveKeys, WorkFits, Apart,
                Nodes!Listed
  <2> QED BY <2>1, <2>2, <2>3
<1> QED BY <1>1, <1>2, PTL DEF MC_HostSpec

(* A node is on the list once, and a node that was given credentials has   *)
(* them for as long as it is listed, whatever creations, imports, changes  *)
(* and removals overlap: what an await lets in between the two halves of a *)
(* request does not undo either.                                           *)
THEOREM ListedNodesKeepKeys == MC_HostSpec => []ListedKeepsKeys
<1>1. NodesInv => ListedKeepsKeys
  BY DEF NodesInv, ListedOnce, ListedHaveKeys, ListedKeepsKeys, Nodes!ListedKeepsKeys,
         Nodes!IsInjective
<1> QED BY <1>1, NodesInvariance, PTL

(* Whether a node is listed changes only by a creation, an import or a     *)
(* removal of that node: the position that updateImported() finds before   *)
(* its await is still that node's afterwards.                              *)
THEOREM OthersLeaveTheList == MC_HostSpec => OnlyItsOwn
<1> DEFINE Own(n) == \E r \in HostRequest : work[r] # None /\ work[r].id = n
                          /\ work[r].op \in {"create", "import", "splice"}
                          /\ work'[r] # work[r]
           A == \A n \in Node : (n \in Nodes!Listed) # (n \in Nodes!Listed') => Own(n)
<1>1. NodesInv /\ [MC_Next]_hostVars => [A]_(Nodes!vars)
  <2> SUFFICES ASSUME NodesInv, [MC_Next]_hostVars, Nodes!vars' # Nodes!vars PROVE A
    OBVIOUS
  <2>1. Nodes!Next
    BY DEF MC_Next, hostVars, nodesVars, Nodes!vars
  <2>2. ASSUME list' = list PROVE A
    BY <2>2 DEF Nodes!Listed
  <2>3. ASSUME NEW r \in HostRequest, NEW d \in BOOLEAN, Nodes!Created(r, d) PROVE A
    <3> DEFINE w == work[r]
               p == [id |-> w.id, keyed |-> w.keyed, box |-> FALSE]
               next == IF d /\ w.op = "create" THEN Nodes!Job("inspect", w.id, FALSE) ELSE None
    <3>1. w # None /\ w.op \in {"create", "import"} /\ w.id \in Node /\ w.keyed \in BOOLEAN
      BY <2>3, WorkIs DEF Nodes!Created, Nodes!Now
    <3>2. list' = Append(list, p) /\ work' = [work EXCEPT ![r] = next]
      BY <2>3 DEF Nodes!Created, Nodes!Do
    <3>3. p \in Nodes!Profile /\ p.id = w.id
      BY <3>1 DEF Nodes!Profile
    <3>4. next # w
      BY <3>1, JobIs
    <3> HIDE DEF next, p
    <3>5. Nodes!Listed' = Nodes!Listed \cup {w.id}
      BY <3>2, <3>3, ListGrows
    <3>6. work'[r] # work[r]
      BY <3>2, <3>4 DEF NodesInv, NodesShape
    <3>7. Own(w.id)
      BY <3>1, <3>6
    <3> QED BY <3>5, <3>7
  <2>4. ASSUME NEW r \in HostRequest,
               (\E d \in BOOLEAN : Nodes!Patched(r, d)) \/ Nodes!Replaced(r) \/ Nodes!Name(r)
        PROVE  A
    <3>1. Nodes!Listed' = Nodes!Listed
      BY <2>4, PatchedKeeps
    <3> QED BY <3>1
  <2>5. ASSUME NEW r \in HostRequest, Nodes!Splice(r) PROVE A
    <3> DEFINE w == work[r]
               more == [w EXCEPT !.op = "forget"]
    <3>1. w # None /\ w.op = "splice" /\ w \in Nodes!Work
      BY <2>5, WorkIs DEF Nodes!Splice, Nodes!Now
    <3>2. work' = [work EXCEPT ![r] = None] \/ work' = [work EXCEPT ![r] = more]
      BY <2>5 DEF Nodes!Splice, Nodes!Then, Nodes!Do
    <3>3. more.op = "forget"
      BY <3>1 DEF Nodes!Work
    <3> HIDE DEF more
    <3>4. work'[r] # work[r]
      BY <3>1, <3>2, <3>3 DEF NodesInv, NodesShape
    <3>5. Own(w.id)
      BY <3>1, <3>4
    <3>6. Nodes!Listed' = Nodes!Listed \ {w.id}
      BY <2>5, SpliceKeeps
    <3> QED BY <3>5, <3>6
  <2>6. ASSUME NEW r \in HostRequest, NEW n \in Node, NEW h \in BOOLEAN,
               Nodes!Create(r, n, h) \/ Nodes!Patch(r, n, h) \/ Nodes!Import(r, n, h)
               \/ Nodes!Replace(r, n, h) \/ Nodes!Remove(r, n, h) \/ Nodes!Provision(r, n)
        PROVE  list' = list
    BY <2>6 DEF Nodes!Create, Nodes!Patch, Nodes!Import, Nodes!Replace, Nodes!Remove,
       Nodes!Provision
  <2>7. ASSUME NEW r \in HostRequest,
               Nodes!Refused(r) \/ Nodes!RemoveBox(r) \/ Nodes!Forget(r) \/ Nodes!Inspect(r)
               \/ Nodes!PullRun(r) \/ Nodes!Wait(r)
        PROVE  list' = list
    BY <2>7 DEF Nodes!Refused, Nodes!RemoveBox, Nodes!Forget, Nodes!Inspect, Nodes!PullRun,
       Nodes!Wait
  <2>8. ASSUME NEW n \in Node, Nodes!DeleteBox(n) PROVE list' = list
    BY <2>8 DEF Nodes!DeleteBox
  <2> HIDE DEF A, Own
  <2> QED BY <2>1, <2>2, <2>3, <2>4, <2>5, <2>6, <2>7, <2>8 DEF Nodes!Next
<1>2. MC_HostSpec => [][A]_(Nodes!vars)
  BY <1>1, NodesInvariance, PTL DEF MC_HostSpec
<1> QED BY <1>2 DEF OnlyItsOwn, Nodes!OnlyItsOwn

-----------------------------------------------------------------------------
(* SshWorld                                                                *)

Waits == [at : {"idle", "connect", "use"}, file : BOOLEAN]

(* The attempt getClient() shares is the only one, until close(), and      *)
(* whoever waits waits for an attempt.                                     *)
WorldInv ==
  /\ World!TypeOK
  /\ \A c, d \in World!Attempts : c = d
  /\ ~closed => \A c \in World!Attempts : connecting = c
  /\ connecting # None => connecting \in World!Attempts
  /\ World!Waiting # {} => World!Attempts # {}

(* The network, and connections that end late.                             *)
LEMMA WorldNetworkKeeps ==
  ASSUME WorldInv,
         \/ \E h \in {"up", "down", "refuses"} : World!Change(h)
         \/ World!Notice \/ World!LateClose \/ World!Close
  PROVE  WorldInv'
BY DEF WorldInv, World!TypeOK, World!Change, World!Notice, World!LateClose, World!Close,
       World!Attempts, World!Waiting, World!Over

(* A caller that asks shares the attempt under way, or starts the only one.*)
LEMMA AskKeeps ==
  ASSUME WorldInv, NEW c \in Caller, NEW f \in BOOLEAN, World!Ask(c, f)
  PROVE  WorldInv'
<1> USE WorldAssumption DEF World!Over
<1>1. PICK a \in {"idle", "connect", "use"} :
        /\ call' = call \/ call' = [call EXCEPT ![c] = [at |-> a, file |-> f]]
        /\ a = "connect" => ~closed
        /\ \/ UNCHANGED <<connecting, tries>> /\ (a = "connect" => connecting # None)
           \/ /\ ~closed /\ connecting = None /\ tries[c] = World!Over
              /\ World!Start(c)
  BY DEF World!Ask
<1>2. UNCHANGED <<host, client, late, sftp, closed>>
  BY DEF World!Ask
<1>3. CASE UNCHANGED <<connecting, tries>> /\ (a = "connect" => connecting # None)
  BY <1>1, <1>2, <1>3 DEF WorldInv, World!TypeOK, World!Attempts, World!Waiting
<1>4. CASE ~closed /\ connecting = None /\ tries[c] = World!Over /\ World!Start(c)
  <2>1. World!Attempts = {}
    BY <1>4 DEF WorldInv, World!Attempts
  <2>2. connecting' = c /\ tries' = [tries EXCEPT ![c] = 0]
    BY <1>4 DEF World!Start
  <2>3. World!Attempts' = {c}
    BY <2>1, <2>2 DEF WorldInv, World!TypeOK, World!Attempts
  <2>4. World!TypeOK'
    BY <1>1, <1>2, <2>2 DEF WorldInv, World!TypeOK
  <2> QED BY <2>2, <2>3, <2>4 DEF WorldInv
<1> QED BY <1>1, <1>3, <1>4

(* An attempt that ends was the only one, and everyone who waited knows.   *)
LEMMA AttemptEnds ==
  ASSUME WorldInv, NEW c \in Caller, World!Connected(c) \/ World!GiveUp(c)
  PROVE  WorldInv'
<1> USE WorldAssumption DEF World!Over
<1>1. /\ c \in World!Attempts /\ connecting' = None /\ tries' = [tries EXCEPT ![c] = World!Over]
      /\ UNCHANGED <<host, late, sftp, closed>> /\ client' \in {client, "live"}
  BY DEF World!Connected, World!GiveUp
<1>2. World!Attempts' = {}
  BY <1>1 DEF WorldInv, World!TypeOK, World!Attempts
<1>3. \A w \in Caller : call'[w].at # "connect"
  BY DEF WorldInv, World!TypeOK, World!Connected, World!GiveUp, World!Answered, World!Idle
<1>4. call' \in [Caller -> Waits]
  <2>1. /\ call \in [Caller -> Waits] /\ World!Idle \in Waits
        /\ \A w \in Caller : [call[w] EXCEPT !.at = "use"] \in Waits
    BY DEF WorldInv, World!TypeOK, World!Idle, Waits
  <2> HIDE DEF World!Idle
  <2>2. CASE World!Connected(c)
    BY <2>1, <2>2 DEF World!Connected, World!Answered
  <2>3. CASE World!GiveUp(c)
    BY <2>1, <2>3 DEF World!GiveUp, World!Answered
  <2> QED BY <2>2, <2>3
<1>5. World!TypeOK'
  <2>1. tries' \in [Caller -> 0 .. World!Over]
    BY <1>1 DEF WorldInv, World!TypeOK
  <2>2. /\ host' = host /\ late' = late /\ sftp' = sftp /\ closed' = closed
        /\ client' \in {"none", "live", "lost"}
    BY <1>1 DEF WorldInv, World!TypeOK
  <2> QED BY <1>1, <1>4, <2>1, <2>2 DEF WorldInv, World!TypeOK, Waits
<1>6. World!Waiting' = {}
  BY <1>3 DEF World!Waiting
<1> QED BY <1>1, <1>2, <1>5, <1>6 DEF WorldInv

(* Attempts that are tried again, and clients in use.                      *)
LEMMA WorldUseKeeps ==
  ASSUME WorldInv, NEW c \in Caller, World!Again(c) \/ World!Exec(c) \/ World!File(c)
  PROVE  WorldInv'
<1> USE WorldAssumption DEF World!Over, World!Idle
<1>1. CASE World!Again(c)
  <2>1. World!Attempts' = World!Attempts
    BY <1>1 DEF WorldInv, World!TypeOK, World!Again, World!Attempts
  <2>2. World!TypeOK'
    BY <1>1 DEF WorldInv, World!TypeOK, World!Again
  <2> QED BY <1>1, <2>1, <2>2 DEF WorldInv, World!Again, World!Waiting
<1>2. CASE World!Exec(c) \/ World!File(c)
  <2>1. call' = [call EXCEPT ![c] = World!Idle] /\ UNCHANGED <<tries, connecting, closed>>
    BY <1>2 DEF World!Exec, World!File
  <2>2. World!Waiting' \subseteq World!Waiting /\ World!Attempts' = World!Attempts
    BY <2>1 DEF WorldInv, World!TypeOK, World!Waiting, World!Attempts
  <2>3. World!TypeOK'
    BY <1>2, <2>1 DEF WorldInv, World!TypeOK, World!Exec, World!File
  <2> QED BY <2>1, <2>2, <2>3 DEF WorldInv
<1> QED BY <1>1, <1>2

(* The shared attempt, in every state.                                     *)
LEMMA WorldInvariance == MC_HostSpec => []WorldInv
<1>1. MC_Init => WorldInv
  <2>1. MC_Init => World!Init
    BY DEF MC_Init
  <2>2. ASSUME World!Init PROVE WorldInv
    <3>1. World!Attempts = {} /\ World!Waiting = {}
      BY <2>2 DEF World!Init, World!Attempts, World!Waiting, World!Idle
    <3>2. tries \in [Caller -> 0 .. World!Over]
      BY <2>2, WorldAssumption DEF World!Init, World!Over
    <3>3. World!TypeOK
      BY <2>2, <3>2 DEF World!Init, World!TypeOK, World!Idle
    <3> QED BY <2>2, <3>1, <3>3 DEF World!Init, WorldInv
  <2> QED BY <2>1, <2>2
<1>2. WorldInv /\ [MC_Next]_hostVars => WorldInv'
  <2> SUFFICES ASSUME WorldInv, [MC_Next]_hostVars PROVE WorldInv'
    OBVIOUS
  <2>1. World!Next \/ UNCHANGED worldVars
    BY DEF MC_Next, hostVars
  <2>2. CASE World!Next
    BY <2>2, WorldNetworkKeeps, AskKeeps, AttemptEnds, WorldUseKeeps DEF World!Next
  <2>3. CASE UNCHANGED worldVars
    BY <2>3 DEF worldVars, WorldInv, World!TypeOK, World!Attempts, World!Waiting, World!Over
  <2> QED BY <2>1, <2>2, <2>3
<1> QED BY <1>1, <1>2, PTL DEF MC_HostSpec

(* However many callers ask a node for its connection while others give    *)
(* up, lose it or close it, one handshake at a time is under way, and      *)
(* nobody waits for an attempt that does not exist: getClient() shares the *)
(* attempt and forgets it only when it is over.                            *)
THEOREM SharedHandshake == MC_HostSpec => []OneHandshake
<1>1. WorldInv => OneHandshake
  <2> SUFFICES ASSUME WorldInv PROVE OneHandshake
    OBVIOUS
  <2>1. World!Attempts = {} \/ \E c \in Caller : World!Attempts = {c}
    BY DEF WorldInv, World!Attempts
  <2>2. Cardinality(World!Attempts) <= 1
    <3>1. CASE World!Attempts = {}
      BY <3>1, FS_EmptySet
    <3>2. CASE \E c \in Caller : World!Attempts = {c}
      <4>1. PICK c \in Caller : World!Attempts = {c}
        BY <3>2
      <4>2. Cardinality({c}) = 1
        BY FS_Singleton
      <4> QED BY <4>1, <4>2
    <3> QED BY <2>1, <3>1, <3>2
  <2>3. World!Cardinality(World!Attempts) = Cardinality(World!Attempts)
    BY DEF World!Cardinality, Cardinality
  <2> QED BY <2>2, <2>3 DEF WorldInv, OneHandshake, World!OneHandshake
<1> QED BY <1>1, WorldInvariance, PTL

-----------------------------------------------------------------------------
(* Router                                                                  *)

Calls == [node : RouterNode, container : BOOLEAN, goal : Routes!Binding \cup {None},
          step : {"secrets", "dir"}]

(* A mirror is bound once, and only a Docker node has a world among the    *)
(* containers.                                                             *)
RoutesInv ==
  /\ Routes!TypeOK
  /\ \A a, b \in bindings : a.root = b.root => a = b
  /\ \A n \in docker : Routes!IsDocker(n)
  /\ asked \in [HostRequest -> Calls \cup {None}]
  /\ \A c \in HostRequest : asked[c] # None /\ asked[c].container => Routes!IsDocker(asked[c].node)

-----------------------------------------------------------------------------
(* Paths *)

(* Separators are found in the first three pieces of a mirror only.        *)
IsRoot(r) == r \in Seq(Piece) /\ Len(r) >= 3 /\ \A i \in 4 .. Len(r) : r[i] # "/"

(* Pieces of the paths of mirrors.                                         *)
LEMMA PieceHas == "/" \in Piece /\ "f" \in Piece /\ RouterNode \subseteq Piece
BY DEF Piece

(* A mirror as a path: its pieces.                                         *)
LEMMA RootIs ==
  ASSUME NEW b \in Routes!Binding
  PROVE  IsRoot(b.root) /\ b.node \in RouterNode /\ b.remote \in Seq(Piece)
<1>1. PICK n \in RouterNode, s \in Slug : b.root = <<"/", n, "/">> \o s
  <2>1. b.root \in UNION {{Routes!Mirror(n, s) : s \in Slug} : n \in RouterNode}
    BY DEF Routes!Binding
  <2>2. PICK n \in RouterNode : b.root \in {Routes!Mirror(n, s) : s \in Slug}
    BY <2>1
  <2> QED BY <2>2 DEF Routes!Mirror
<1>2. /\ <<"/", n, "/">> \in Seq(Piece) /\ Len(<<"/", n, "/">>) = 3
      /\ s \in Seq(Piece) /\ Len(s) \in Nat
  BY PieceHas, RoutesAssumption
<1> DEFINE h == <<"/", n, "/">>
<1>3. h \in Seq(Piece) /\ Len(h) = 3
  BY <1>2
<1> HIDE DEF h
<1>4. /\ h \o s \in Seq(Piece) /\ Len(h \o s) = 3 + Len(s)
      /\ \A i \in 1 .. 3 + Len(s) : (h \o s)[i] = IF i <= 3 THEN h[i] ELSE s[i - 3]
  <2>1. /\ h \o s \in Seq(Piece) /\ Len(h \o s) = Len(h) + Len(s)
        /\ \A i \in 1 .. Len(h) + Len(s) : (h \o s)[i] = IF i <= Len(h) THEN h[i] ELSE s[i - Len(h)]
    BY <1>2, <1>3, ConcatProperties
  <2> QED BY <1>3, <2>1
<1>5. \A i \in 4 .. 3 + Len(s) : (h \o s)[i] # "/"
  <2> SUFFICES ASSUME NEW i \in 4 .. 3 + Len(s) PROVE (h \o s)[i] # "/"
    OBVIOUS
  <2>1. (h \o s)[i] = s[i - 3] /\ i - 3 \in 1 .. Len(s)
    BY <1>2, <1>4
  <2>2. DOMAIN s = 1 .. Len(s)
    BY <1>2
  <2> QED BY <2>1, <2>2, RoutesAssumption
<1>6. b.root = h \o s
  BY <1>1 DEF h
<1>7. b.node \in RouterNode /\ b.remote \in Seq(Piece)
  BY RoutesAssumption DEF Routes!Binding
<1> QED BY <1>2, <1>4, <1>5, <1>6, <1>7 DEF IsRoot

(* What follows a mirror: nothing, or a separator and more.                *)
IsRest(x) == x \in Seq(Piece) /\ (x = <<>> \/ (Len(x) >= 1 /\ x[1] = "/"))

(* A path below a mirror is below no other.                                *)
LEMMA OneMirror ==
  ASSUME NEW r, IsRoot(r), NEW x, IsRest(x), NEW a, IsRoot(a.root), Routes!Below(r \o x, a)
  PROVE  a.root = r
<1> DEFINE p == r \o x
           q == a.root
<1>1. /\ p \in Seq(Piece) /\ Len(p) = Len(r) + Len(x)
      /\ \A i \in 1 .. Len(r) + Len(x) : p[i] = IF i <= Len(r) THEN r[i] ELSE x[i - Len(r)]
      /\ Len(r) \in Nat /\ Len(x) \in Nat /\ Len(q) \in Nat /\ q \in Seq(Piece)
  BY ConcatProperties DEF IsRoot, IsRest
<1>2. Len(x) > 0 => p[Len(r) + 1] = "/"
  BY <1>1 DEF IsRest
<1>3. Len(x) = 0 => x = <<>> /\ p = r
  BY ConcatEmptySeq DEF IsRest, IsRoot
<1>4. Routes!Below(p, a)
  OBVIOUS
<1> HIDE DEF p, q
<1>5. CASE p = q
  <2>1. CASE Len(x) = 0
    BY <1>3, <1>5, <2>1 DEF q
  <2>2. CASE Len(x) > 0
    <3>1. q[Len(r) + 1] = "/" /\ Len(r) + 1 \in 4 .. Len(q)
      BY <1>1, <1>2, <1>5, <2>2 DEF IsRoot
    <3> QED BY <3>1 DEF IsRoot, q
  <2> QED BY <1>1, <2>1, <2>2
<1>6. CASE p # q
  <2>1. Len(p) > Len(q) /\ SubSeq(p, 1, Len(q) + 1) = Append(q, "/")
    BY <1>4, <1>6 DEF Routes!Below, q
  <2>2. \A i \in 1 .. Len(q) + 1 : p[i] \in Piece
    BY <1>1, <2>1, ElementOfSeq
  <2>3. \A i \in 1 .. Len(q) + 1 : SubSeq(p, 1, Len(q) + 1)[i] = p[i]
    <3>1. /\ 1 \in Int /\ Len(q) + 1 \in Int
          /\ \A i \in 1 .. Len(q) + 1 : p[i] \in Piece
      BY <1>1, <2>2
    <3>2. \A i \in 1 .. (Len(q) + 1) - 1 + 1 : SubSeq(p, 1, Len(q) + 1)[i] = p[1 + i - 1]
      BY <3>1, SubSeqProperties
    <3> QED BY <1>1, <3>2
  <2>4. "/" \in Piece
    BY PieceHas
  <2>5. Append(q, "/")[Len(q) + 1] = "/" /\ \A i \in 1 .. Len(q) : Append(q, "/")[i] = q[i]
    BY <1>1, <2>4, AppendProperties
  <2>6. p[Len(q) + 1] = "/" /\ \A i \in 1 .. Len(q) : p[i] = q[i]
    BY <1>1, <2>1, <2>3, <2>5
  <2>7. CASE Len(q) < Len(r)
    <3>1. r[Len(q) + 1] = "/" /\ Len(q) + 1 \in 4 .. Len(r)
      BY <1>1, <2>6, <2>7 DEF IsRoot, q
    <3> QED BY <3>1 DEF IsRoot
  <2>8. CASE Len(q) = Len(r)
    <3>1. \A i \in 1 .. Len(q) : q[i] = r[i]
      BY <1>1, <2>6, <2>8
    <3> QED BY <1>1, <2>8, <3>1, SeqEqual DEF IsRoot, q
  <2>9. CASE Len(q) > Len(r)
    <3>1. Len(x) > 0 /\ Len(r) + 1 \in 4 .. Len(q)
      BY <1>1, <2>1, <2>9 DEF IsRoot
    <3>2. q[Len(r) + 1] = "/"
      BY <1>1, <1>2, <2>6, <2>9, <3>1
    <3> QED BY <3>1, <3>2 DEF IsRoot, q
  <2> QED BY <1>1, <2>7, <2>8, <2>9
<1> QED BY <1>5, <1>6

(* It is below its own, and what follows is its place there.               *)
LEMMA OwnMirror ==
  ASSUME NEW r, IsRoot(r), NEW x, IsRest(x), NEW b, b.root = r
  PROVE  Routes!Below(r \o x, b) /\ SubSeq(r \o x, Len(r) + 1, Len(r \o x)) = x
<1> DEFINE p == r \o x
<1>1. /\ p \in Seq(Piece) /\ Len(p) = Len(r) + Len(x)
      /\ \A i \in 1 .. Len(r) + Len(x) : p[i] = IF i <= Len(r) THEN r[i] ELSE x[i - Len(r)]
      /\ Len(r) \in Nat /\ Len(x) \in Nat /\ r \in Seq(Piece) /\ x \in Seq(Piece)
  BY ConcatProperties DEF IsRoot, IsRest
<1>2. Len(x) > 0 => p[Len(r) + 1] = "/"
  BY <1>1 DEF IsRest
<1>3. Len(x) = 0 => p = r
  BY ConcatEmptySeq DEF IsRest, IsRoot
<1> HIDE DEF p
<1>4. Routes!Below(p, b)
  <2>1. CASE Len(x) = 0
    BY <1>3, <2>1 DEF Routes!Below
  <2>2. CASE Len(x) > 0
    <3> DEFINE n == Len(r) + 1
    <3>1. n \in Int /\ n \in Nat /\ n <= Len(p) /\ \A i \in 1 .. n : p[i] \in Piece
      BY <1>1, <2>2, ElementOfSeq
    <3>2. /\ SubSeq(p, 1, n) \in Seq(Piece)
          /\ Len(SubSeq(p, 1, n)) = IF 1 <= n THEN n - 1 + 1 ELSE 0
          /\ \A i \in 1 .. n - 1 + 1 : SubSeq(p, 1, n)[i] = p[1 + i - 1]
      BY <3>1, SubSeqProperties
    <3>3. "/" \in Piece
      BY PieceHas
    <3>4. /\ Append(r, "/") \in Seq(Piece) /\ Len(Append(r, "/")) = n
          /\ Append(r, "/")[n] = "/" /\ \A i \in 1 .. Len(r) : Append(r, "/")[i] = r[i]
      BY <1>1, <3>3, AppendProperties
    <3>5. Len(SubSeq(p, 1, n)) = n /\ \A i \in 1 .. n : SubSeq(p, 1, n)[i] = p[i]
      BY <1>1, <3>1, <3>2
    <3>6. \A i \in 1 .. n : SubSeq(p, 1, n)[i] = Append(r, "/")[i]
      BY <1>1, <1>2, <2>2, <3>4, <3>5
    <3>7. SubSeq(p, 1, n) = Append(r, "/")
      BY <3>2, <3>4, <3>5, <3>6, SeqEqual
    <3> QED BY <1>1, <2>2, <3>7 DEF Routes!Below
  <2> QED BY <1>1, <2>1, <2>2
<1>5. SubSeq(p, Len(r) + 1, Len(p)) = x
  <2> DEFINE m == Len(r) + 1
             n == Len(p)
  <2>1. m \in Int /\ n \in Int /\ m \in Nat /\ n \in Nat /\ \A i \in m .. n : p[i] \in Piece
    BY <1>1, ElementOfSeq
  <2>2. /\ SubSeq(p, m, n) \in Seq(Piece)
        /\ Len(SubSeq(p, m, n)) = IF m <= n THEN n - m + 1 ELSE 0
        /\ \A i \in 1 .. n - m + 1 : SubSeq(p, m, n)[i] = p[m + i - 1]
    BY <2>1, SubSeqProperties
  <2>3. Len(SubSeq(p, m, n)) = Len(x)
    BY <1>1, <2>2
  <2>4. \A i \in 1 .. Len(x) : SubSeq(p, m, n)[i] = x[i]
    BY <1>1, <2>2
  <2> HIDE DEF m, n
  <2>5. SubSeq(p, m, n) = x
    BY <1>1, <2>2, <2>3, <2>4, SeqEqual
  <2> QED BY <2>5 DEF m, n
<1> QED BY <1>4, <1>5 DEF p

(* What a lookup finds.                                                    *)
LEMMA HitIs ==
  ASSUME RoutesInv, NEW b \in bindings, NEW x, IsRest(x)
  PROVE  Routes!Hit(b.root \o x) = {[node |-> b.node, path |-> b.remote \o x]}
<1> DEFINE p == b.root \o x
<1>1. IsRoot(b.root) /\ \A a \in bindings : IsRoot(a.root)
  BY RootIs DEF RoutesInv, Routes!TypeOK
<1>2. Routes!Below(p, b) /\ SubSeq(p, Len(b.root) + 1, Len(p)) = x
  BY <1>1, OwnMirror
<1>3. \A a \in bindings : Routes!Below(p, a) => a = b
  BY <1>1, OneMirror DEF RoutesInv
<1> HIDE DEF p
<1>4. {a \in bindings : Routes!Below(p, a)} = {b}
  BY <1>2, <1>3
<1>5. (CHOOSE a \in {b} : \A y \in {b} : Len(y.root) <= Len(a.root)) = b
  <2>1. Len(b.root) \in Nat
    BY <1>1 DEF IsRoot
  <2> QED BY <2>1
<1>6. Routes!Hit(p) = {[node |-> b.node, path |-> b.remote \o SubSeq(p, Len(b.root) + 1, Len(p))]}
  BY <1>4, <1>5 DEF Routes!Hit
<1> QED BY <1>2, <1>6 DEF p

Right(where, b, rest) ==
  /\ where.at # "local"
  /\ where.at # "refused" =>
       /\ where.node = b.node /\ where.path = b.remote \o rest
       /\ b.node \in listed =>
            where.at = IF Routes!IsDocker(b.node) THEN "container" ELSE "host"

(* Where an operation is sent.                                             *)
LEMMA RouteIs ==
  ASSUME RoutesInv, NEW b \in bindings, NEW x, IsRest(x)
  PROVE  Right(Routes!Route(b.root \o x), b, x)
<1> DEFINE h == [node |-> b.node, path |-> b.remote \o x]
           p == b.root \o x
<1>1. Routes!Hit(p) = {h}
  BY HitIs
<1>2. (CHOOSE y \in {h} : TRUE) = h
  OBVIOUS
<1>3. h.node = b.node /\ h.path = b.remote \o x
  OBVIOUS
<1> HIDE DEF h, p
<1>4. Routes!Hit(p) # {} /\ (CHOOSE y \in Routes!Hit(p) : TRUE) = h
  BY <1>1, <1>2
<1>5. Routes!Route(p) = IF Routes!World(h.node) = "none" THEN [at |-> "refused", path |-> p]
                        ELSE [at |-> Routes!World(h.node), node |-> h.node, path |-> h.path]
  BY <1>4 DEF Routes!Route
<1>6. b.node \in listed /\ Routes!World(b.node) # "none" =>
        Routes!World(b.node) = IF Routes!IsDocker(b.node) THEN "container" ELSE "host"
  BY DEF Routes!World, Routes!SshWorld, RoutesInv
<1>7. Routes!World(b.node) \in {"host", "container", "none"}
  BY DEF Routes!World
<1>8. CASE Routes!World(b.node) = "none"
  BY <1>3, <1>5, <1>8 DEF Right, p
<1>9. CASE Routes!World(b.node) # "none"
  <2>1. Routes!Route(p) = [at |-> Routes!World(b.node), node |-> b.node, path |-> b.remote \o x]
    BY <1>3, <1>5, <1>9
  <2> QED BY <1>6, <1>7, <1>9, <2>1 DEF Right, p
<1> QED BY <1>8, <1>9

(* The route follows from the bindings.                                    *)
LEMMA RoutesAreRight == RoutesInv => RunsWhereBound
<1> SUFFICES ASSUME RoutesInv PROVE RunsWhereBound
  OBVIOUS
<1>1. IsRest(<<>>) /\ IsRest(<<"/", "f">>)
  <2>1. Len(<<"/", "f">>) = 2 /\ <<"/", "f">>[1] = "/" /\ <<"/", "f">> \in Seq(Piece)
    BY PieceHas
  <2> QED BY <2>1, EmptySeq DEF IsRest
<1>2. ASSUME NEW b \in bindings
      PROVE  /\ Right(Routes!FileAt(b.root), b, <<>>) /\ Right(Routes!CommandAt(b.root), b, <<>>)
             /\ Right(Routes!ListedAt(b.root, "f"), b, <<"/", "f">>)
  <2>1. IsRoot(b.root)
    BY RootIs DEF RoutesInv, Routes!TypeOK
  <2>2. b.root \o <<>> = b.root /\ b.root # None
    BY <2>1, ConcatEmptySeq, RoutesAssumption DEF IsRoot
  <2>3. Right(Routes!Route(b.root), b, <<>>)
    BY <1>1, <2>2, RouteIs
  <2>4. Right(Routes!Route(b.root \o <<"/", "f">>), b, <<"/", "f">>)
    BY <1>1, RouteIs
  <2> QED BY <2>2, <2>3, <2>4 DEF Routes!FileAt, Routes!CommandAt, Routes!ListedAt
<1>3. Routes!CommandAt(None).at = "local"
  <2>1. ASSUME NEW b \in bindings PROVE ~Routes!Below(<<"/">>, b)
    <3>1. IsRoot(b.root)
      BY RootIs DEF RoutesInv, Routes!TypeOK
    <3>2. Len(<<"/">>) = 1 /\ Len(b.root) >= 3 /\ Len(b.root) \in Nat
      BY <3>1 DEF IsRoot
    <3> DEFINE k == Len(b.root)
               m == Len(<<"/">>)
    <3>5. k \in Nat /\ k >= 3 /\ m = 1
      BY <3>2
    <3> HIDE DEF k, m
    <3>6. k # m /\ ~(m > k)
      BY <3>5
    <3>3. Len(b.root) # Len(<<"/">>) /\ ~(Len(<<"/">>) > Len(b.root))
      BY <3>6 DEF k, m
    <3>4. ASSUME <<"/">> = b.root PROVE FALSE
      <4>1. Len(<<"/">>) = Len(b.root)
        BY <3>4
      <4> QED BY <3>3, <4>1
    <3> QED BY <3>3, <3>4 DEF Routes!Below
  <2>2. Routes!Hit(<<"/">>) = {}
    BY <2>1 DEF Routes!Hit
  <2> QED BY <2>2 DEF Routes!CommandAt, Routes!Route
<1> QED BY <1>2, <1>3 DEF RunsWhereBound, Routes!RunsWhereBound, Right

-----------------------------------------------------------------------------
(* The worlds *)

(* Bindings that are added or removed.                                     *)
LEMMA BoundType ==
  ASSUME RoutesInv, NEW g \in Routes!Binding
  PROVE  /\ Routes!Bound(g) \subseteq Routes!Binding
         /\ \A a, b \in Routes!Bound(g) : a.root = b.root => a = b
BY DEF RoutesInv, Routes!TypeOK, Routes!Bound

(* A workspace is bound.                                                   *)
LEMMA EnsureKeeps ==
  ASSUME RoutesInv, NEW c \in HostRequest, NEW n, NEW ctr \in BOOLEAN,
         NEW g \in Routes!Binding \cup {None}, Routes!Ensure(c, n, ctr, g)
  PROVE  RoutesInv'
<1>1. n \in RouterNode /\ (ctr => Routes!IsDocker(n)) /\ UNCHANGED <<kind, listed, named, removing, bindings>>
  BY DEF Routes!Ensure, RoutesInv, Routes!TypeOK
<1>2. PICK s \in {"secrets", "dir"} : asked' = [asked EXCEPT ![c] = Routes!Call(n, ctr, g, s)]
  BY DEF Routes!Ensure
<1> DEFINE w == Routes!Call(n, ctr, g, s)
<1>3. w \in Calls /\ w.container = ctr /\ w.node = n
  BY <1>1 DEF Calls, Routes!Call
<1> HIDE DEF w
<1>4. /\ asked' \in [HostRequest -> Calls \cup {None}] /\ asked'[c] = w
      /\ \A d \in HostRequest : d # c => asked'[d] = asked[d]
  BY <1>2, <1>3 DEF RoutesInv, w
<1>5. ssh' \subseteq RouterNode /\ docker' \subseteq RouterNode /\ \A m \in docker' : Routes!IsDocker(m)
  <2>1. CASE UNCHANGED <<ssh, docker>>
    BY <2>1 DEF RoutesInv, Routes!TypeOK
  <2>2. CASE Routes!Registered(n, ctr)
    BY <1>1, <2>2 DEF RoutesInv, Routes!TypeOK, Routes!Registered
  <2> QED BY <2>1, <2>2 DEF Routes!Ensure
<1>6. \A m : Routes!IsDocker(m)' <=> Routes!IsDocker(m)
  BY <1>1 DEF Routes!IsDocker
<1>7. \A d \in HostRequest : asked'[d] # None /\ asked'[d].container => Routes!IsDocker(asked'[d].node)
  BY <1>1, <1>3, <1>4 DEF RoutesInv
<1>8. \A d \in HostRequest : asked'[d] = None \/ asked'[d].node \in RouterNode
  BY <1>4 DEF Calls
<1>9. Routes!TypeOK'
  BY <1>1, <1>5, <1>8 DEF RoutesInv, Routes!TypeOK
<1> QED BY <1>1, <1>4, <1>5, <1>6, <1>7, <1>9 DEF RoutesInv

(* A world is asked for.                                                   *)
LEMMA AskWorldKeeps ==
  ASSUME RoutesInv, NEW c \in HostRequest,
         \/ \E n \in RouterNode, s \in Slug, r \in Remote : Routes!Bind(c, n, s, r)
         \/ \E b \in bindings : Routes!Warmup(c, b) \/ Routes!Download(c, b)
         \/ \E n \in RouterNode : Routes!HostRunner(c, n)
  PROVE  RoutesInv'
<1>1. \A n : Routes!IsDocker(n) \in BOOLEAN
  BY DEF Routes!IsDocker
<1>2. ASSUME NEW n \in RouterNode, NEW s \in Slug, NEW r \in Remote, Routes!Bind(c, n, s, r)
      PROVE  RoutesInv'
  <2>1. [root |-> Routes!Mirror(n, s), node |-> n, remote |-> r] \in Routes!Binding
    BY DEF Routes!Mirror, Routes!Binding
  <2> QED BY <1>1, <1>2, <2>1, EnsureKeeps DEF Routes!Bind
<1>3. ASSUME NEW b \in bindings, Routes!Warmup(c, b) \/ Routes!Download(c, b)
      PROVE  RoutesInv'
  BY <1>1, <1>3, EnsureKeeps DEF Routes!Warmup, Routes!Download
<1>4. ASSUME NEW n \in RouterNode, Routes!HostRunner(c, n) PROVE RoutesInv'
  BY <1>4, EnsureKeeps DEF Routes!HostRunner
<1> QED BY <1>2, <1>3, <1>4

(* An operation is routed.                                                 *)
LEMMA CallKeeps ==
  ASSUME RoutesInv, NEW c \in HostRequest,
         Routes!Secrets(c) \/ Routes!Finish(c) \/ Routes!Fail(c)
  PROVE  RoutesInv'
<1>1. asked[c] \in Calls /\ asked[c] # None /\ (asked[c].container => Routes!IsDocker(asked[c].node))
  BY DEF RoutesInv, Routes!Secrets, Routes!Finish, Routes!Fail
<1>2. UNCHANGED <<kind, listed, named, removing>>
  BY DEF Routes!Secrets, Routes!Finish, Routes!Fail
<1>3. \A m : Routes!IsDocker(m)' <=> Routes!IsDocker(m)
  BY <1>2 DEF Routes!IsDocker
<1>4. /\ asked' \in [HostRequest -> Calls \cup {None}]
      /\ \A d \in HostRequest : d # c => asked'[d] = asked[d]
      /\ asked'[c] # None => asked'[c].container = asked[c].container /\ asked'[c].node = asked[c].node
  <2>1. CASE Routes!Secrets(c)
    <3>1. [asked[c] EXCEPT !.step = "dir"] \in Calls
      BY <1>1 DEF Calls
    <3>2. /\ [asked[c] EXCEPT !.step = "dir"].container = asked[c].container
          /\ [asked[c] EXCEPT !.step = "dir"].node = asked[c].node
      BY <1>1 DEF Calls
    <3>3. asked' = [asked EXCEPT ![c] = [asked[c] EXCEPT !.step = "dir"]]
      BY <2>1 DEF Routes!Secrets
    <3> QED BY <3>1, <3>2, <3>3 DEF RoutesInv
  <2>2. CASE Routes!Finish(c) \/ Routes!Fail(c)
    BY <2>2 DEF Routes!Finish, Routes!Fail, RoutesInv
  <2> QED BY <2>1, <2>2
<1>5. bindings' \subseteq Routes!Binding /\ \A a, b \in bindings' : a.root = b.root => a = b
  <2>1. CASE bindings' = bindings
    BY <2>1 DEF RoutesInv, Routes!TypeOK
  <2>2. CASE bindings' # bindings
    <3>1. asked[c].goal \in Routes!Binding /\ bindings' = Routes!Bound(asked[c].goal)
      BY <1>1, <2>2 DEF Routes!Secrets, Routes!Finish, Routes!Fail, Calls
    <3> QED BY <3>1, BoundType
  <2> QED BY <2>1, <2>2
<1>6. ssh' \subseteq RouterNode /\ docker' \subseteq RouterNode /\ \A m \in docker' : Routes!IsDocker(m)
  <2>1. CASE UNCHANGED <<ssh, docker>>
    BY <2>1 DEF RoutesInv, Routes!TypeOK
  <2>2. CASE Routes!Registered(asked[c].node, asked[c].container)
    BY <1>1, <2>2 DEF RoutesInv, Routes!TypeOK, Routes!Registered, Calls
  <2> QED BY <2>1, <2>2 DEF Routes!Secrets, Routes!Finish, Routes!Fail
<1>7. \A d \in HostRequest : asked'[d] # None /\ asked'[d].container => Routes!IsDocker(asked'[d].node)
  BY <1>1, <1>4 DEF RoutesInv
<1>8. \A d \in HostRequest : asked'[d] = None \/ asked'[d].node \in RouterNode
  BY <1>4 DEF Calls
<1>9. Routes!TypeOK'
  BY <1>2, <1>5, <1>6, <1>8 DEF RoutesInv, Routes!TypeOK
<1> QED BY <1>3, <1>4, <1>5, <1>6, <1>7, <1>9 DEF RoutesInv

(* Nodes are listed and removed.                                           *)
LEMMA RegistryKeeps ==
  ASSUME RoutesInv,
         \/ Routes!Restart
         \/ \E n \in RouterNode :
              \/ Routes!Add(n) \/ Routes!Name(n) \/ Routes!StartRemove(n) \/ Routes!GiveUp(n)
              \/ Routes!Unlist(n) \/ Routes!Drop(n)
  PROVE  RoutesInv'
<1> USE DEF Routes!Restart, Routes!Add, Routes!Name, Routes!StartRemove, Routes!GiveUp,
            Routes!Unlist, Routes!Drop
<1>1. kind' = kind /\ bindings' \subseteq bindings /\ docker' \subseteq docker /\ ssh' \subseteq ssh
  OBVIOUS
<1>2. listed' \subseteq RouterNode /\ named' \subseteq RouterNode /\ removing' \subseteq RouterNode
  BY DEF RoutesInv, Routes!TypeOK
<1>3. asked' = asked \/ asked' = [c \in HostRequest |-> None]
  OBVIOUS
<1>4. /\ asked' \in [HostRequest -> Calls \cup {None}]
      /\ \A c \in HostRequest : asked'[c] = None \/ asked'[c] = asked[c]
  BY <1>3 DEF RoutesInv
<1>5. \A m : Routes!IsDocker(m)' <=> Routes!IsDocker(m)
  BY <1>1 DEF Routes!IsDocker
<1>6. Routes!TypeOK'
  BY <1>1, <1>2, <1>4 DEF RoutesInv, Routes!TypeOK
<1> QED BY <1>1, <1>4, <1>5, <1>6 DEF RoutesInv

(* The bindings and the worlds, in every state.                            *)
LEMMA RoutesInvariance == MC_HostSpec => []RoutesInv
<1>1. MC_Init => RoutesInv
  <2>1. MC_Init => Routes!Init
    BY DEF MC_Init
  <2>2. Routes!Init => RoutesInv
    BY DEF Routes!Init, RoutesInv, Routes!TypeOK
  <2> QED BY <2>1, <2>2
<1>2. RoutesInv /\ [MC_Next]_hostVars => RoutesInv'
  <2> SUFFICES ASSUME RoutesInv, [MC_Next]_hostVars PROVE RoutesInv'
    OBVIOUS
  <2>1. Routes!Next \/ UNCHANGED routesVars
    BY DEF MC_Next, hostVars
  <2>2. CASE UNCHANGED routesVars
    BY <2>2 DEF routesVars, RoutesInv, Routes!TypeOK, Routes!IsDocker
  <2>3. CASE Routes!Next
    BY <2>3, AskWorldKeeps, CallKeeps, RegistryKeeps DEF Routes!Next
  <2> QED BY <2>1, <2>2, <2>3
<1> QED BY <1>1, <1>2, PTL DEF MC_HostSpec

(* An operation on a path below a mirror never runs on this machine: it is *)
(* refused, or runs on the node of its binding at the same place of the    *)
(* remote directory, and in the container if the node is listed as one of  *)
(* Docker; whatever nodes, names and directories there are.                *)
THEOREM OperationsRunWhereBound == MC_HostSpec => []RunsWhereBound
BY RoutesInvariance, RoutesAreRight, PTL

-----------------------------------------------------------------------------
(* RemoteFiles                                                             *)

Disk == [text : Seq(Word), writers : SUBSET Writer]
Ops == [step : {"idle"}]
       \cup [step : {"write", "pipe"}, text : Seq(Word)]
       \cup [step : {"fill", "rename"}, text : Seq(Word), at : 0 .. MaxMs]

FilesShape ==
  /\ target \in Disk /\ temp \in [0 .. MaxMs -> Disk \cup {Files!NoFile}]
  /\ now \in 0 .. MaxMs /\ op \in [Writer -> Ops] /\ clash \in BOOLEAN

(* While no two writes have shared a temporary file, each is filled by the *)
(* one that opened it, and has its whole text when it gets the file's name.*)
Busy(c) == op[c].step \in {"fill", "rename"}
Mine(c) ==
  /\ op[c].step # "idle" => op[c].text # <<>>
  /\ op[c].step # "pipe"
  /\ op[c].step = "fill" => temp[op[c].at].text = <<>> /\ temp[op[c].at].writers = {c}
  /\ op[c].step = "rename" => temp[op[c].at].text # <<>> /\ temp[op[c].at].writers = {}

Tidy ==
  /\ target.text # <<>> /\ target.writers = {}
  /\ \A c \in Writer : Mine(c)
  /\ \A c, d \in Writer : Busy(c) /\ Busy(d) /\ op[c].at = op[d].at => c = d

FilesInv == FilesShape /\ (world = "ssh" /\ ~clash => Tidy)

-----------------------------------------------------------------------------
(* What an operation is, by its step.                                      *)
LEMMA OpShape ==
  ASSUME FilesShape, NEW c \in Writer
  PROVE  /\ op[c].step \in {"idle", "write", "pipe", "fill", "rename"}
         /\ op[c].step # "idle" => op[c].text \in Seq(Word)
         /\ Busy(c) => op[c].at \in 0 .. MaxMs
BY DEF FilesShape, Ops, Busy

(* An operation that becomes another one.                                  *)
LEMMA OpBecomes ==
  ASSUME FilesShape, NEW c \in Writer, NEW o \in Ops, op' = [op EXCEPT ![c] = o]
  PROVE  op' \in [Writer -> Ops] /\ op'[c] = o /\ \A d \in Writer : d # c => op'[d] = op[d]
BY DEF FilesShape

(* An operation that moves on.                                             *)
LEMMA StepBecomes ==
  ASSUME FilesShape, NEW c \in Writer, NEW s,
         \/ op[c].step = "write" /\ s = "pipe"
         \/ op[c].step = "fill" /\ s = "rename"
  PROVE  /\ [op[c] EXCEPT !.step = s] \in Ops
         /\ [op[c] EXCEPT !.step = s].step = s
         /\ [op[c] EXCEPT !.step = s].text = op[c].text
         /\ s = "rename" => [op[c] EXCEPT !.step = s].at = op[c].at
<1>1. CASE op[c].step = "write" /\ s = "pipe"
  <2>1. op[c] \in [step : {"write", "pipe"}, text : Seq(Word)]
    BY <1>1 DEF FilesShape, Ops
  <2> QED BY <1>1, <2>1 DEF Ops
<1>2. CASE op[c].step = "fill" /\ s = "rename"
  <2>1. op[c] \in [step : {"fill", "rename"}, text : Seq(Word), at : 0 .. MaxMs]
    BY <1>2 DEF FilesShape, Ops
  <2> QED BY <1>2, <2>1 DEF Ops
<1> QED BY <1>1, <1>2

(* The text an edit writes is as long as the one it read.                  *)
LEMMA EditedType ==
  ASSUME NEW t \in Seq(Word), NEW e \in Files!Edit, Files!Matches(t, e.old) # {}
  PROVE  Files!Edited(t, e) \in Seq(Word) /\ Files!Edited(t, e) # <<>>
<1>1. e.new \in Word /\ DOMAIN t = 1 .. Len(t) /\ Len(t) \in Nat
  BY DEF Files!Edit
<1>2. Files!Edited(t, e) = [i \in 1 .. Len(t) |-> IF t[i] = e.old THEN e.new ELSE t[i]]
  BY <1>1 DEF Files!Edited
<1>3. \A i \in 1 .. Len(t) : t[i] \in Word
  BY <1>1, ElementOfSeq
<1>4. Files!Edited(t, e) \in Seq(Word) /\ Len(Files!Edited(t, e)) = Len(t)
  BY <1>1, <1>2, <1>3
<1>5. Len(t) # 0
  BY <1>1 DEF Files!Matches
<1> QED BY <1>4, <1>5

(* An operation is not disturbed by a step on another file.                *)
LEMMA OtherMine ==
  ASSUME NEW d \in Writer, Mine(d), op'[d] = op[d],
         Busy(d) => temp'[op[d].at] = temp[op[d].at]
  PROVE  Mine(d)'
BY DEF Mine, Busy

(* A write that begins has something to write.                             *)
LEMMA WriteKeeps ==
  ASSUME FilesInv, NEW c \in Writer, NEW t \in Seq(Word), t # <<>>,
         op[c].step = "idle", op' = [op EXCEPT ![c] = [step |-> "write", text |-> t]],
         UNCHANGED <<world, now, target, temp, clash>>
  PROVE  FilesInv'
<1>1. [step |-> "write", text |-> t] \in Ops
  BY DEF Ops
<1>2. /\ op' \in [Writer -> Ops] /\ op'[c].step = "write" /\ op'[c].text = t
      /\ \A d \in Writer : d # c => op'[d] = op[d]
  BY <1>1, OpBecomes DEF FilesInv
<1>3. Tidy => Tidy'
  BY <1>2 DEF Tidy, Mine, Busy
<1> QED BY <1>2, <1>3 DEF FilesInv, FilesShape

(* Operations begin.                                                       *)
LEMMA BeginKeeps ==
  ASSUME FilesInv, NEW c \in Writer,
         \/ \E t \in Given : Files!WriteText(c, t)
         \/ \E e \in Files!Edit : Files!EditText(c, e)
  PROVE  FilesInv'
<1>1. ASSUME NEW t \in Given, Files!WriteText(c, t) PROVE FilesInv'
  <2>1. t \in Seq(Word) /\ t # <<>>
    BY FilesAssumption
  <2> QED BY <1>1, <2>1, WriteKeeps DEF Files!WriteText, Files!Is, Files!Becomes, Files!Still
<1>2. ASSUME NEW e \in Files!Edit, Files!EditText(c, e) PROVE FilesInv'
  <2>1. target.text \in Seq(Word)
    BY DEF FilesInv, FilesShape, Disk
  <2>2. Files!Edited(target.text, e) \in Seq(Word) /\ Files!Edited(target.text, e) # <<>>
    BY <1>2, <2>1, EditedType DEF Files!EditText
  <2> QED BY <1>2, <2>2, WriteKeeps DEF Files!EditText, Files!Is, Files!Becomes, Files!Still
<1> QED BY <1>1, <1>2

(* No file is not a file.                                                  *)
LEMMA NoFileIs ==
  /\ Files!NoFile.text = <<>> /\ Files!NoFile.writers = {"none"}
  /\ Files!NoFile = [text |-> <<>>, writers |-> {"none"}]
BY DEF Files!NoFile, Files!Part

(* A temporary file is opened, perhaps one that another write has open.    *)
LEMMA OpenKeeps == ASSUME FilesInv, NEW c \in Writer, Files!Open(c) PROVE FilesInv'
<1> DEFINE others == IF temp[now] = Files!NoFile THEN {} ELSE temp[now].writers
           new == [text |-> <<>>, writers |-> others \cup {c}]
           o == [step |-> "fill", text |-> op[c].text, at |-> now]
<1>1. /\ temp' = [temp EXCEPT ![now] = new] /\ op' = [op EXCEPT ![c] = o]
      /\ UNCHANGED <<world, now, target>> /\ op[c].step = "write"
  BY DEF Files!Open, Files!Becomes, Files!Still, Files!Is, Files!Part
<1>2. new \in Disk /\ now \in 0 .. MaxMs
  BY DEF FilesInv, FilesShape, Disk
<1>3. o \in Ops /\ op[c].text \in Seq(Word)
  BY <1>1, <1>2, OpShape DEF Ops, FilesInv
<1>4. /\ op' \in [Writer -> Ops] /\ op'[c] = o
      /\ \A d \in Writer : d # c => op'[d] = op[d]
  BY <1>1, <1>3, OpBecomes DEF FilesInv
<1>5. /\ temp' \in [0 .. MaxMs -> Disk \cup {Files!NoFile}] /\ temp'[now] = new
      /\ \A t \in 0 .. MaxMs : t # now => temp'[t] = temp[t]
  <2> HIDE DEF new
  <2> QED BY <1>1, <1>2 DEF FilesInv, FilesShape
<1>6. /\ clash' \in BOOLEAN /\ (clash => clash')
      /\ ~clash' => temp[now] = Files!NoFile
  BY DEF Files!Open, FilesInv, FilesShape
<1>7. ASSUME world = "ssh", ~clash' PROVE Tidy'
  <2>1. Tidy /\ temp[now] = Files!NoFile
    BY <1>6, <1>7 DEF FilesInv
  <2>2. \A d \in Writer : Busy(d) => op[d].at # now /\ op[d].at \in 0 .. MaxMs
    <3> SUFFICES ASSUME NEW d \in Writer, Busy(d) PROVE op[d].at # now /\ op[d].at \in 0 .. MaxMs
      OBVIOUS
    <3>1. op[d].at \in 0 .. MaxMs
      BY OpShape DEF FilesInv
    <3>2. Mine(d)
      BY <2>1 DEF Tidy
    <3>3. Files!NoFile.text = <<>> /\ Files!NoFile.writers # {d}
      BY NoFileIs, FilesAssumption
    <3> QED BY <2>1, <3>1, <3>2, <3>3 DEF Mine, Busy
  <2>3. new = [text |-> <<>>, writers |-> {c}]
    BY <2>1
  <2>4. /\ op'[c].step = "fill" /\ op'[c].text = op[c].text /\ op'[c].at = now
        /\ temp'[now].text = <<>> /\ temp'[now].writers = {c} /\ op[c].text # <<>>
    BY <1>1, <1>4, <1>5, <2>1, <2>3 DEF Tidy, Mine
  <2> HIDE DEF o, new
  <2>5. \A d \in Writer : Mine(d)'
    <3> SUFFICES ASSUME NEW d \in Writer PROVE Mine(d)'
      OBVIOUS
    <3>1. CASE d = c
      BY <1>1, <2>4, <3>1 DEF Mine
    <3>2. CASE d # c
      BY <1>4, <1>5, <2>1, <2>2, <3>2, OtherMine DEF Tidy
    <3> QED BY <3>1, <3>2
  <2>6. \A a, d \in Writer : Busy(a)' /\ Busy(d)' /\ op'[a].at = op'[d].at => a = d
    BY <1>4, <2>1, <2>2, <2>4 DEF Tidy, Busy
  <2> QED BY <1>1, <2>1, <2>5, <2>6 DEF Tidy
<1> QED BY <1>1, <1>4, <1>5, <1>6, <1>7 DEF FilesInv, FilesShape

(* What a file that is filled becomes.                                     *)
LEMMA FilledType ==
  ASSUME FilesShape, NEW c \in Writer, op[c].text \in Seq(Word), NEW f \in Disk \cup {Files!NoFile},
         NEW g \in Files!Filled(f, c)
  PROVE  /\ g \in Disk \cup {Files!NoFile} /\ (f \in Disk => g \in Disk)
         /\ c \notin f.writers => g = f
         /\ f.writers = {c} => g.text = op[c].text /\ g.writers = {}
<1>1. CASE c \notin f.writers
  <2>1. g = f
    BY <1>1 DEF Files!Filled
  <2> QED BY <1>1, <2>1
<1>2. CASE c \in f.writers
  <2>1. f \in Disk
    BY <1>2, NoFileIs, FilesAssumption
  <2>2. PICK t \in {<<>>, op[c].text} :
          /\ g = [text |-> t, writers |-> f.writers \ {c}]
          /\ f.writers = {c} => t = op[c].text
    BY <1>2 DEF Files!Filled, Files!Part
  <2>3. t \in Seq(Word)
    BY <2>2, EmptySeq
  <2> QED BY <1>2, <2>1, <2>2, <2>3 DEF Disk
<1> QED BY <1>1, <1>2

(* A writer fills its file.                                                *)
LEMMA FillKeeps == ASSUME FilesInv, NEW c \in Writer, Files!Fill(c) PROVE FilesInv'
<1> DEFINE t == op[c].at
           o == [op[c] EXCEPT !.step = "rename"]
<1>1. /\ op[c].step = "fill" /\ target' \in Files!Filled(target, c)
      /\ op' = [op EXCEPT ![c] = o] /\ UNCHANGED <<world, now, clash>>
  BY DEF Files!Fill, Files!Becomes, Files!Still, Files!Is
<1>2. t \in 0 .. MaxMs /\ op[c].text \in Seq(Word) /\ FilesShape
  BY <1>1, OpShape DEF FilesInv, Busy
<1>3. o \in Ops /\ o.step = "rename" /\ o.text = op[c].text /\ o.at = t
  BY <1>1, <1>2, StepBecomes
<1>4. PICK f \in Files!Filled(temp[t], c) : temp' = [temp EXCEPT ![t] = f]
  BY DEF Files!Fill
<1> HIDE DEF o, t
<1>5. /\ op' \in [Writer -> Ops] /\ op'[c] = o
      /\ \A d \in Writer : d # c => op'[d] = op[d]
  BY <1>1, <1>2, <1>3, OpBecomes
<1>6. /\ f \in Disk \cup {Files!NoFile}
      /\ temp[t].writers = {c} => f.text = op[c].text /\ f.writers = {}
  BY <1>2, <1>4, FilledType DEF FilesShape
<1>7. /\ temp' \in [0 .. MaxMs -> Disk \cup {Files!NoFile}] /\ temp'[t] = f
      /\ \A x \in 0 .. MaxMs : x # t => temp'[x] = temp[x]
  BY <1>2, <1>4, <1>6 DEF FilesShape
<1>8. target' \in Disk /\ (c \notin target.writers => target' = target)
  BY <1>1, <1>2, FilledType DEF FilesShape
<1>9. ASSUME world = "ssh", ~clash PROVE Tidy'
  <2>1. Tidy /\ Mine(c) /\ Busy(c)
    BY <1>1, <1>9 DEF FilesInv, Tidy, Busy
  <2>2. target' = target
    BY <1>8, <2>1 DEF Tidy
  <2>3. f.text = op[c].text /\ f.writers = {} /\ op[c].text # <<>>
    BY <1>1, <1>6, <2>1 DEF Mine, t
  <2>4. \A d \in Writer : Busy(d) /\ d # c => op[d].at # t /\ op[d].at \in 0 .. MaxMs
    BY <1>2, <2>1, OpShape DEF Tidy, t
  <2>5. \A d \in Writer : Mine(d)'
    <3> SUFFICES ASSUME NEW d \in Writer PROVE Mine(d)'
      OBVIOUS
    <3>1. CASE d = c
      BY <1>3, <1>5, <1>7, <2>3, <3>1 DEF Mine
    <3>2. CASE d # c
      BY <1>5, <1>7, <2>1, <2>4, <3>2, OtherMine DEF Tidy
    <3> QED BY <3>1, <3>2
  <2>6. \A a, d \in Writer : Busy(a)' /\ Busy(d)' /\ op'[a].at = op'[d].at => a = d
    BY <1>3, <1>5, <2>1, <2>4 DEF Tidy, Busy, t
  <2> QED BY <2>1, <2>2, <2>5, <2>6 DEF Tidy
<1> QED BY <1>1, <1>2, <1>5, <1>7, <1>8, <1>9 DEF FilesInv, FilesShape

(* A temporary file becomes the file.                                      *)
LEMMA RenameKeeps == ASSUME FilesInv, NEW c \in Writer, Files!Rename(c) PROVE FilesInv'
<1> DEFINE t == op[c].at
<1>1. /\ op[c].step = "rename" /\ op' = [op EXCEPT ![c] = [step |-> "idle"]]
      /\ UNCHANGED <<world, now, clash>>
  BY DEF Files!Rename, Files!Becomes, Files!Still, Files!Is, Files!Idle
<1>2. t \in 0 .. MaxMs /\ FilesShape
  BY <1>1, OpShape DEF FilesInv, Busy
<1>3. \/ temp[t] = Files!NoFile /\ UNCHANGED <<target, temp>>
      \/ temp[t] # Files!NoFile /\ target' = temp[t] /\ temp' = [temp EXCEPT ![t] = Files!NoFile]
  BY DEF Files!Rename
<1>4. [step |-> "idle"] \in Ops
  BY DEF Ops
<1>5. /\ op' \in [Writer -> Ops] /\ op'[c].step = "idle"
      /\ \A d \in Writer : d # c => op'[d] = op[d]
  BY <1>1, <1>2, <1>4, OpBecomes
<1> HIDE DEF t
<1>6. /\ temp' \in [0 .. MaxMs -> Disk \cup {Files!NoFile}] /\ target' \in Disk
      /\ \A x \in 0 .. MaxMs : x # t => temp'[x] = temp[x]
      /\ target' \in {target, temp[t]}
  BY <1>2, <1>3 DEF FilesShape
<1>7. ASSUME world = "ssh", ~clash PROVE Tidy'
  <2>1. Tidy /\ Mine(c) /\ Busy(c)
    BY <1>1, <1>7 DEF FilesInv, Tidy, Busy
  <2>2. target'.text # <<>> /\ target'.writers = {}
    BY <1>1, <1>6, <2>1 DEF Tidy, Mine, t
  <2>3. \A d \in Writer : Busy(d) /\ d # c => op[d].at # t /\ op[d].at \in 0 .. MaxMs
    BY <1>2, <2>1, OpShape DEF Tidy, t
  <2>4. \A d \in Writer : Mine(d)'
    <3> SUFFICES ASSUME NEW d \in Writer PROVE Mine(d)'
      OBVIOUS
    <3>1. CASE d = c
      BY <1>5, <3>1 DEF Mine
    <3>2. CASE d # c
      BY <1>5, <1>6, <2>1, <2>3, <3>2, OtherMine DEF Tidy
    <3> QED BY <3>1, <3>2
  <2>5. \A a, d \in Writer : Busy(a)' /\ Busy(d)' /\ op'[a].at = op'[d].at => a = d
    BY <1>5, <2>1 DEF Tidy, Busy
  <2> QED BY <2>2, <2>4, <2>5 DEF Tidy
<1> QED BY <1>1, <1>2, <1>5, <1>6, <1>7 DEF FilesInv, FilesShape

(* A file that loses a writer keeps its text.                              *)
LEMMA WithoutWriter ==
  ASSUME NEW c \in Writer, NEW f \in Disk \cup {Files!NoFile}
  PROVE  /\ [f EXCEPT !.writers = @ \ {c}] \in Disk \cup {Files!NoFile}
         /\ f \in Disk => [f EXCEPT !.writers = @ \ {c}] \in Disk
         /\ f \in Disk /\ f.writers = {} => [f EXCEPT !.writers = @ \ {c}] = f
<1>1. CASE f \in Disk
  BY <1>1 DEF Disk
<1>2. CASE f = Files!NoFile
  <2>1. f.writers = {"none"} /\ {"none"} \ {c} = {"none"}
    BY <1>2, NoFileIs, FilesAssumption
  <2>2. f = [text |-> <<>>, writers |-> {"none"}]
    BY <1>2, NoFileIs
  <2>3. [f EXCEPT !.writers = {"none"}] = f
    <3>1. f \in [text : {<<>>}, writers : {{"none"}}]
      BY <2>2
    <3>2. [f EXCEPT !.writers = {"none"}] \in [text : {<<>>}, writers : {{"none"}}]
      BY <3>1
    <3> QED BY <3>1, <3>2
  <2> QED BY <1>2, <2>1, <2>3
<1> QED BY <1>1, <1>2

(* A write breaks off.                                                     *)
LEMMA BreakKeeps == ASSUME FilesInv, NEW c \in Writer, Files!Break(c) PROVE FilesInv'
<1> DEFINE t == op[c].at
<1>1. /\ Busy(c) /\ op' = [op EXCEPT ![c] = [step |-> "idle"]]
      /\ UNCHANGED <<world, now, clash>>
      /\ target' = [target EXCEPT !.writers = @ \ {c}]
      /\ temp' = [temp EXCEPT ![t].writers = @ \ {c}]
  BY DEF Files!Break, Files!Becomes, Files!Still, Files!Idle, Busy
<1>2. t \in 0 .. MaxMs /\ FilesShape
  BY <1>1, OpShape DEF FilesInv
<1>3. [step |-> "idle"] \in Ops
  BY DEF Ops
<1>4. /\ op' \in [Writer -> Ops] /\ op'[c].step = "idle"
      /\ \A d \in Writer : d # c => op'[d] = op[d]
  BY <1>1, <1>2, <1>3, OpBecomes
<1> HIDE DEF t
<1>5. target' \in Disk /\ (target.writers = {} => target' = target)
  BY <1>1, <1>2, WithoutWriter DEF FilesShape
<1>6. temp' = [temp EXCEPT ![t] = [temp[t] EXCEPT !.writers = @ \ {c}]]
  BY <1>1
<1>7. [temp[t] EXCEPT !.writers = @ \ {c}] \in Disk \cup {Files!NoFile}
  BY <1>2, WithoutWriter DEF FilesShape
<1>8. /\ temp' \in [0 .. MaxMs -> Disk \cup {Files!NoFile}]
      /\ \A x \in 0 .. MaxMs : x # t => temp'[x] = temp[x]
  <2> DEFINE g == [temp[t] EXCEPT !.writers = @ \ {c}]
  <2>1. temp' = [temp EXCEPT ![t] = g] /\ g \in Disk \cup {Files!NoFile}
    BY <1>6, <1>7
  <2> HIDE DEF g
  <2> QED BY <1>2, <2>1 DEF FilesShape
<1>9. ASSUME world = "ssh", ~clash PROVE Tidy'
  <2>1. Tidy
    BY <1>9 DEF FilesInv
  <2>2. target' = target
    BY <1>5, <2>1 DEF Tidy
  <2>3. \A d \in Writer : Busy(d) /\ d # c => op[d].at # t /\ op[d].at \in 0 .. MaxMs
    BY <1>1, <1>2, <2>1, OpShape DEF Tidy, t
  <2>4. \A d \in Writer : Mine(d)'
    <3> SUFFICES ASSUME NEW d \in Writer PROVE Mine(d)'
      OBVIOUS
    <3>1. CASE d = c
      BY <1>4, <3>1 DEF Mine
    <3>2. CASE d # c
      BY <1>4, <1>8, <2>1, <2>3, <3>2, OtherMine DEF Tidy
    <3> QED BY <3>1, <3>2
  <2>5. \A a, d \in Writer : Busy(a)' /\ Busy(d)' /\ op'[a].at = op'[d].at => a = d
    BY <1>4, <2>1 DEF Tidy, Busy
  <2> QED BY <2>1, <2>2, <2>4, <2>5 DEF Tidy
<1> QED BY <1>1, <1>2, <1>4, <1>5, <1>8, <1>9 DEF FilesInv, FilesShape

(* A container's file: nothing is claimed of it but its type.              *)
LEMMA DockerKeeps ==
  ASSUME FilesInv, NEW c \in Writer, Files!Truncate(c) \/ Files!Piped(c)
  PROVE  FilesInv'
<1>1. FilesShape
  BY DEF FilesInv
<1>2. CASE Files!Truncate(c)
  <2> DEFINE o == [op[c] EXCEPT !.step = "pipe"]
  <2>1. /\ world = "docker" /\ op[c].step = "write" /\ op' = [op EXCEPT ![c] = o]
        /\ UNCHANGED <<world, now, temp, clash>>
        /\ target' = [text |-> <<>>, writers |-> target.writers \cup {c}]
    BY <1>2 DEF Files!Truncate, Files!Is, Files!Becomes, Files!Still, Files!Part
  <2>2. o \in Ops
    BY <1>1, <2>1, StepBecomes
  <2> HIDE DEF o
  <2>3. op' \in [Writer -> Ops]
    BY <1>1, <2>1, <2>2, OpBecomes
  <2>4. target' \in Disk
    BY <1>1, <2>1 DEF FilesShape, Disk
  <2> QED BY <1>1, <2>1, <2>3, <2>4 DEF FilesInv, FilesShape
<1>3. CASE Files!Piped(c)
  <2>1. /\ op[c].step = "pipe" /\ op' = [op EXCEPT ![c] = [step |-> "idle"]]
        /\ UNCHANGED <<world, now, temp, clash>>
        /\ target' \in Files!Filled(target, c) \cup {[target EXCEPT !.writers = @ \ {c}]}
    BY <1>3 DEF Files!Piped, Files!Is, Files!Becomes, Files!Still, Files!Idle
  <2>2. [step |-> "idle"] \in Ops
    BY DEF Ops
  <2>3. op' \in [Writer -> Ops]
    BY <1>1, <2>1, <2>2, OpBecomes
  <2>4. op[c].text \in Seq(Word) /\ target \in Disk
    BY <1>1, <2>1, OpShape DEF FilesShape
  <2>5. target' \in Disk
    BY <1>1, <2>1, <2>4, FilledType, WithoutWriter
  <2>6. ~(world = "ssh" /\ ~clash)
    BY <2>1 DEF FilesInv, Tidy, Mine
  <2> QED BY <1>1, <2>1, <2>3, <2>5, <2>6 DEF FilesInv, FilesShape
<1> QED BY <1>2, <1>3

(* The file and the writes to it, in every state.                          *)
LEMMA FilesInvariance == MC_HostSpec => []FilesInv
<1>1. MC_Init => FilesInv
  <2>1. MC_Init => Files!Init
    BY DEF MC_Init
  <2>2. ASSUME Files!Init PROVE FilesInv
    <3>1. target \in [text : Given, writers : {{}}] /\ clash = FALSE /\ now = 0
      BY <2>2 DEF Files!Init
    <3>2. target \in Disk /\ target.text # <<>> /\ target.writers = {}
      BY <3>1, FilesAssumption DEF Disk
    <3>3. temp \in [0 .. MaxMs -> {Files!NoFile}] /\ op = [c \in Writer |-> [step |-> "idle"]]
      BY <2>2 DEF Files!Init, Files!Idle
    <3>4. op \in [Writer -> Ops] /\ \A c \in Writer : op[c].step = "idle"
      BY <3>3 DEF Ops
    <3> QED BY <3>1, <3>2, <3>3, <3>4, FilesAssumption DEF FilesInv, FilesShape, Tidy, Mine,
       Busy
  <2> QED BY <2>1, <2>2
<1>2. FilesInv /\ [MC_Next]_hostVars => FilesInv'
  <2> SUFFICES ASSUME FilesInv, [MC_Next]_hostVars PROVE FilesInv'
    OBVIOUS
  <2>1. Files!Next \/ UNCHANGED filesVars
    BY DEF MC_Next, hostVars
  <2>2. CASE UNCHANGED filesVars
    BY <2>2 DEF filesVars, FilesInv, FilesShape, Tidy, Mine, Busy
  <2>3. ASSUME Files!Tick PROVE FilesInv'
    BY <2>3, FilesAssumption DEF Files!Tick, FilesInv, FilesShape, Tidy, Mine, Busy
  <2>4. ASSUME Files!Next PROVE FilesInv'
    BY <2>3, <2>4, BeginKeeps, OpenKeeps, FillKeeps, RenameKeeps, BreakKeeps, DockerKeeps
       DEF Files!Next
  <2> QED BY <2>1, <2>2, <2>4
<1> QED BY <1>1, <1>2, PTL DEF MC_HostSpec

(* A file written over SSH is never seen in part, while others write it    *)
(* and when connections break, as long as no two writes have begun in one  *)
(* millisecond and shared a temporary name.                                *)
THEOREM FilesAreWhole == MC_HostSpec => []WholeOverSsh
<1>1. FilesInv => WholeOverSsh
  BY DEF FilesInv, Tidy, WholeOverSsh, Files!WholeOverSsh, Files!Part
<1> QED BY <1>1, FilesInvariance, PTL
=============================================================================
