------------------------- MODULE MCWorkspaceBinding -------------------------
(* Small instances of WorkspaceBinding for TLC: nodes, slugs, remote       *)
(* directories and requests are model values.                              *)
EXTENDS WorkspaceBinding, TLC

(* Nodes, names, directories and requests are interchangeable. *)
MC_Symmetry ==
  Permutations(Node) \cup Permutations(Slug) \cup Permutations(Remote)
    \cup Permutations(Request)
=============================================================================
