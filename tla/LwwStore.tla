------------------------------ MODULE LwwStore ------------------------------
(***************************************************************************)
(* What node synchronisation promises, with nothing of how it is done: a   *)
(* replicated store in which every instance holds at most one version per  *)
(* key, a version is written once with a revision nobody has used for that *)
(* key, and an instance moves only forward, to a version it wrote itself   *)
(* or to one that was shared.                                              *)
(***************************************************************************)
EXTENDS Hlc

CONSTANTS Key, None

VARIABLES version,  \* version[i][k]: what i holds for k, or None
          shared    \* the versions given to others

lwwVars == <<version, shared>>

LwwInit ==
  /\ version = [i \in Instance |-> [k \in Key |-> None]]
  /\ shared = {}

Supersedes(new, old) == IF old = None THEN TRUE ELSE Before(old.rev, new.rev)

Unused(k, rev) ==
  /\ \A e \in shared : e.origin = k => e.rev # rev
  /\ \A i \in Instance : version[i][k] = None \/ version[i][k].rev # rev

(* i writes some of its keys and shares some of what it holds. *)
Write(i) ==
  /\ \A j \in Instance \ {i} : version'[j] = version[j]
  /\ \A k \in Key : version'[i][k] # version[i][k] =>
       LET new == version'[i][k]
       IN  /\ new # None
           /\ Supersedes(new, version[i][k])
           /\ new.rev.w = i
           /\ Unused(k, new.rev)
  /\ shared \subseteq shared'
  /\ shared' \subseteq shared \cup {version'[i][k] : k \in Key}

(* i takes over a shared version that is newer than its own. *)
Adopt(i) ==
  \E e \in shared :
    /\ Supersedes(e, version[i][e.origin])
    /\ version' = [version EXCEPT ![i][e.origin] = e]
    /\ UNCHANGED shared

LwwNext == \E i \in Instance : Write(i) \/ Adopt(i)

LwwSpec == LwwInit /\ [][LwwNext]_lwwVars
=============================================================================
