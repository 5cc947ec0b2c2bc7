------------------------ MODULE SessionSyncRefinement ------------------------
(* SessionSync implements the last-writer-wins store that NodeSync         *)
(* implements: the version of a session is what its record says.           *)
EXTENDS SessionSync

Version(s, e) ==
  [origin |-> s, rev |-> e.rev, digest |-> e.digest, hidden |-> e.hidden]

HeldVersion ==
  [i \in Instance |-> [s \in Session |->
     IF Recorded(i, s)
     THEN Version(s, IF record[i][s].deleted THEN Tombstone(s, record[i][s].rev) ELSE record[i][s])
     ELSE None]]

SharedVersions ==
  {Version(e.session, e) : e \in {x \in UNION {published[i] : i \in Instance} : x.kind # "branch"}}

Lww == INSTANCE LwwStore WITH Key <- Session, None <- None,
                              version <- HeldVersion, shared <- SharedVersions

(* An export or a restored archive writes a version with an unused and     *)
(* newer revision, an import adopts a newer one, and nothing else changes  *)
(* which version an instance holds, whatever becomes of logs and archives. *)
ImplementsLwwStore == Lww!LwwSpec
=============================================================================
