------------------------- MODULE NodeSyncRefinement -------------------------
(* NodeSync implements the last-writer-wins store: the version of a node   *)
(* is what its record says, pending removals included.                     *)
EXTENDS NodeSync

HeldVersion ==
  [i \in Instance |-> [o \in Origin |->
     IF Recorded(i, o) THEN EntryOf(o, record[i][o]) ELSE NoRecord]]

Lww == INSTANCE LwwStore WITH Key <- Origin, None <- NoRecord,
                              version <- HeldVersion, shared <- published

(* Every operation of the service that is not interrupted is a step of the *)
(* last-writer-wins store or leaves it alone: an export or a deletion      *)
(* writes a version with an unused and newer revision, an import adopts a  *)
(* newer one, and nothing else changes what an instance holds.             *)
ImplementsLwwStore == Lww!LwwSpec
=============================================================================
