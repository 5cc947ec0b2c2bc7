---------------------------- MODULE MCSessionSync ----------------------------
(* Small instances of SessionSync for TLC. *)
EXTENDS SessionSyncRefinement

CONSTANTS s1

MC_Home == [s \in Session |-> 0]
MC_Both == {<<0, 1>>, <<1, 0>>}
MC_Line == {<<0, 1>>, <<1, 0>>, <<1, 2>>, <<2, 1>>}
=============================================================================
