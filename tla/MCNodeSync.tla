----------------------------- MODULE MCNodeSync -----------------------------
(* Small instances of NodeSync for TLC: instances 1 and 2 (and 3), nodes   *)
(* n1 created at 1 and n2 created at 2.                                    *)
EXTENDS NodeSyncRefinement

CONSTANTS n1, n2

MC_Home1 == [o \in {n1} |-> 1]
MC_Home2 == [o \in {n1, n2} |-> IF o = n1 THEN 1 ELSE 2]
=============================================================================
