------------------------------ MODULE MCSyncRun ------------------------------
(* Small instances of SyncRun and of Transport for TLC.  The run has a     *)
(* session e1 that is edited at the peer and a session e2 that is not.  A  *)
(* behaviour is one of the run or one of a request of the link; the other  *)
(* part of the state stays as it is.  Runs have restarts, pushes and stops  *)
(* and one registered batch at a time, or more batches and none of these.  *)
EXTENDS SyncRun

CONSTANTS e1, e2, Window, MaxData

VARIABLES part, op, phase, out, up, down, helper, answer, got, fault

Link == INSTANCE Transport

linkVars == <<op, phase, out, up, down, helper, answer, got, fault>>

MC_MaxVersion == [e \in {e1, e2} |-> IF e = e1 THEN 2 ELSE 1]

NoLink ==
  /\ op = 0 /\ phase = "failed" /\ out = 0 /\ up = 0 /\ down = 0
  /\ helper = 0 /\ answer = 0 /\ got = 0 /\ fault = 0

IsRun == part \in {"restarts", "batches"}

(* The bounds of a step of a run. *)
Within ==
  /\ part = "restarts" => Cardinality(journal') <= 1
  /\ part = "batches" => crashes' = 0 /\ (run' # None => run'.pushes = 0 /\ ~run'.aborted)

MC_Init == Init /\ ((IsRun /\ NoLink) \/ (part = "link" /\ Link!Init))

MC_Next ==
  \/ IsRun /\ Next /\ Within /\ UNCHANGED <<part, linkVars>>
  \/ part = "link" /\ Link!Next /\ UNCHANGED <<part, vars>>
  \/ part = "link" /\ phase \in Link!Settled /\ UNCHANGED <<part, vars, linkVars>>

(* What is fair of each part is what its module says. *)
MC_Spec ==
  /\ MC_Init /\ [][MC_Next]_<<part, vars, linkVars>>
  /\ \A c \in Client : WF_vars(IsRun /\ Progress(c) /\ Within)
  /\ WF_linkVars(part = "link" /\ Link!Here)
  /\ WF_linkVars(part = "link" /\ Link!There)

(* The answer of a request is never cut short unnoticed, and every request *)
(* is settled.                                                             *)
NoTruncatedAnswer == Link!NoTruncatedAnswer
RequestSettles == Link!RequestSettles
=============================================================================
