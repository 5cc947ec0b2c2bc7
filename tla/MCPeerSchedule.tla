--------------------------- MODULE MCPeerSchedule ---------------------------
(* Small instances of PeerSchedule for TLC: peers, secrets and requests    *)
(* are model values.                                                       *)
EXTENDS PeerSchedule, TLC

(* Peers, secrets and requests are interchangeable. *)
MC_Symmetry ==
  Permutations(Peer) \cup Permutations(Secret) \cup Permutations(Request)

VARIABLE calm  \* the credentials service always answers

MC_Spec ==
  /\ Init /\ calm \in BOOLEAN
  /\ [][(Calm \/ (~calm /\ Fault)) /\ UNCHANGED calm]_<<vars, calm>>

(* While the credentials service answers, a peer nobody is working on has  *)
(* credentials: no interleaving of creations, rotations, restored records  *)
(* and removals leaves one that cannot connect.                            *)
MC_LivePeerHasSecret == calm => LivePeerHasSecret
=============================================================================
