---------------------------- MODULE OfflineImport ---------------------------
(***************************************************************************)
(* Importing an offline archive: nodes first, then perhaps sessions, with  *)
(* a journal that lets a stopped import be finished later; and exporting   *)
(* one.                                                                    *)
(*                                                                         *)
(* SyncOfflineArchiveService does one thing at a time.  An import first    *)
(* finishes the one the journal names, then stages the archive in a        *)
(* directory of its own, decrypts and checks it, writes the journal, and   *)
(* applies.  The process may stop between any two steps; at its start it   *)
(* removes the directories no journal names and finishes what is pending.  *)
(* An upload is announced with its password, for which a token is given    *)
(* that is good for one upload; uploads then wait for their turn.          *)
(*                                                                         *)
(* An archive is what it contains: nodes, and sessions or not.  What       *)
(* applying does to nodes and sessions is NodeSync's and SessionSync's.    *)
(***************************************************************************)
EXTENDS Naturals

CONSTANTS Archive,       \* archives a user uploads
          WithSessions,  \* those that include sessions
          MaxExports,    \* bound on exports that are being downloaded
          None           \* no journal, nothing under way

VARIABLES
  dirs,      \* staging directories on disk
  payload,   \* those of them that hold a decrypted payload
  journal,   \* sync-offline-journal.json, or None
  nodes,     \* nodes[a]: no, part or all of a's nodes were applied
  sessions,  \* sessions[a]: likewise its sessions
  tokens,    \* uploads that are announced
  waiting,   \* uploads that wait for their turn
  exports,   \* directories of exports
  task,      \* what the service is doing, or None
  running    \* the process is up

disk == <<dirs, payload, journal>>
door == <<tokens, waiting, exports>>
vars == <<disk, nodes, sessions, door, task, running>>

Progress == {"no", "part", "all"}
Entry(a) == [archive |-> a, nodes |-> FALSE, sessions |-> a \notin WithSessions]

(* A task is at a step of an archive; import is the archive whose upload   *)
(* waits until a pending one is finished, or None.                         *)
At(step) == task # None /\ task.step = step
Go(step) == task' = [task EXCEPT !.step = step]
Task(step, a, import) == [step |-> step, archive |-> a, import |-> import]
This == task.archive

Inside == UNCHANGED <<running, door>>
Untouched == UNCHANGED <<nodes, sessions>> /\ Inside

-----------------------------------------------------------------------------
(* The routes *)

(* Every upload has a directory of its own. *)
Fresh ==
  {a \in Archive : nodes[a] = "no" /\ a \notin dirs \cup tokens \cup waiting
                    /\ ~(task # None /\ a \in {task.archive, task.import})}

(* POST import: the password is good, a token is given.                    *)
Announce(a) ==
  /\ running /\ a \in Fresh /\ tokens' = tokens \cup {a}
  /\ UNCHANGED <<disk, nodes, sessions, waiting, exports, task, running>>

(* Five minutes later the token is worth nothing.                          *)
Expire(a) ==
  /\ a \in tokens /\ tokens' = tokens \ {a}
  /\ UNCHANGED <<disk, nodes, sessions, waiting, exports, task, running>>

(* PUT import: the token is spent, even when the body is not an archive or *)
(* too long.                                                               *)
Upload(a) ==
  /\ a \in tokens /\ tokens' = tokens \ {a}
  /\ waiting' \in {waiting, waiting \cup {a}}
  /\ UNCHANGED <<disk, nodes, sessions, exports, task, running>>

(* POST export, up to where the archive is written; it may not fit, or     *)
(* fail, and then its directory is gone again.                             *)
Export ==
  /\ running /\ task = None /\ exports < MaxExports
  /\ exports' \in {exports, exports + 1}
  /\ UNCHANGED <<disk, nodes, sessions, tokens, waiting, task, running>>

(* The archive has been sent, or the browser has gone.                     *)
Sent ==
  /\ running /\ exports > 0 /\ exports' = exports - 1
  /\ UNCHANGED <<disk, nodes, sessions, tokens, waiting, task, running>>

-----------------------------------------------------------------------------
(* Starting *)

(* recoverPending(), or importArchive(), which does that first.  A pending *)
(* payload is read, checked against the journal and goes through preflight *)
(* again; what fails here leaves the journal, and the import is refused.   *)
Start(import) ==
  /\ running /\ task = None /\ (journal # None \/ import # None)
  /\ task' = IF journal = None THEN Task("stage", import, None)
             ELSE Task("replay", journal.archive, import)
  /\ waiting' = waiting \ {import}
  /\ UNCHANGED <<disk, nodes, sessions, tokens, exports, running>>

Replay ==
  /\ At("replay")
  /\ \/ task' = None
     \/ This \in payload /\ Go(IF ~journal.nodes THEN "nodes"
                                ELSE IF ~journal.sessions THEN "sessions" ELSE "complete")
  /\ UNCHANGED disk /\ Untouched

-----------------------------------------------------------------------------
(* importArchiveNow() *)

(* A new directory takes the upload. *)
Stage ==
  /\ At("stage") /\ dirs' = dirs \cup {This} /\ Go("decrypt")
  /\ UNCHANGED <<payload, journal>> /\ Untouched

(* The payload is decrypted, decoded and checked, or the import ends.      *)
Decrypt ==
  /\ At("decrypt")
  /\ \/ payload' = payload \cup {This} /\ Go("begin")
     \/ Go("leave") /\ UNCHANGED payload
  /\ UNCHANGED <<dirs, journal>> /\ Untouched

(* Preflight; then the journal is begun, which one pending would refuse.   *)
Begin ==
  /\ At("begin")
  /\ \/ journal = None /\ journal' = Entry(This) /\ Go("nodes")
     \/ Go("leave") /\ UNCHANGED journal
  /\ UNCHANGED <<dirs, payload>> /\ Untouched

(* finally: the directory goes unless the journal names it.                *)
Leave ==
  /\ At("leave") /\ task' = None
  /\ IF journal # None /\ journal.archive = This THEN UNCHANGED <<dirs, payload>>
     ELSE dirs' = dirs \ {This} /\ payload' = payload \ {This}
  /\ UNCHANGED journal /\ Untouched

-----------------------------------------------------------------------------
(* applyJournaledPayloads() *)

(* applyManifest() fails half way, or applies all.                         *)
ApplyNodes ==
  /\ At("nodes")
  /\ \/ nodes' = [nodes EXCEPT ![This] = IF @ = "no" THEN "part" ELSE @] /\ Go("leave")
     \/ nodes' = [nodes EXCEPT ![This] = "all"] /\ Go("nodesDone")
  /\ UNCHANGED <<disk, sessions>> /\ Inside

(* Wrong on purpose: an archive counts as done when its nodes are.         *)
NodesDoneAll ==
  /\ At("nodesDone") /\ journal' = [journal EXCEPT !.nodes = TRUE]
  /\ Go("complete")
  /\ UNCHANGED <<dirs, payload>> /\ Untouched

(* The journal learns that the nodes are there.                            *)
NodesDone ==
  /\ At("nodesDone") /\ journal' = [journal EXCEPT !.nodes = TRUE]
  /\ Go(IF journal.sessions THEN "complete" ELSE "sessions")
  /\ UNCHANGED <<dirs, payload>> /\ Untouched

(* applyBundle(); its own journal finishes a part of it.                   *)
ApplySessions ==
  /\ At("sessions")
  /\ \/ sessions' = [sessions EXCEPT ![This] = IF @ = "no" THEN "part" ELSE @] /\ Go("leave")
     \/ sessions' = [sessions EXCEPT ![This] = "all"] /\ Go("sessionsDone")
  /\ UNCHANGED <<disk, nodes>> /\ Inside

SessionsDone ==
  /\ At("sessionsDone") /\ journal' = [journal EXCEPT !.sessions = TRUE] /\ Go("complete")
  /\ UNCHANGED <<dirs, payload>> /\ Untouched

(* The journal is removed, then the directory; a waiting import follows.   *)
Complete ==
  /\ At("complete") /\ journal' = None /\ Go("clear")
  /\ UNCHANGED <<dirs, payload>> /\ Untouched

Clear ==
  /\ At("clear") /\ dirs' = dirs \ {This} /\ payload' = payload \ {This}
  /\ task' = IF task.import = None THEN None ELSE Task("stage", task.import, None)
  /\ UNCHANGED journal /\ Untouched

-----------------------------------------------------------------------------
(* The process *)

Crash ==
  /\ running /\ running' = FALSE /\ task' = None /\ tokens' = {} /\ waiting' = {}
  /\ UNCHANGED <<disk, nodes, sessions, exports>>

(* cleanupStagingDirectories(); recovery is a Start of its own.            *)
Boot ==
  /\ ~running /\ running' = TRUE
  /\ LET kept == IF journal = None THEN {} ELSE {journal.archive} IN
     dirs' = dirs \cap kept /\ payload' = payload \cap kept
  /\ exports' = 0
  /\ UNCHANGED <<journal, nodes, sessions, tokens, waiting, task>>

-----------------------------------------------------------------------------
Init ==
  /\ dirs = {} /\ payload = {} /\ journal = None
  /\ nodes = [a \in Archive |-> "no"] /\ sessions = [a \in Archive |-> "no"]
  /\ tokens = {} /\ waiting = {} /\ exports = 0
  /\ task = None /\ running = TRUE

Next ==
  \/ \E a \in Archive : Announce(a) \/ Expire(a) \/ Upload(a)
  \/ Export \/ Sent
  \/ \E import \in waiting \cup {None} : Start(import)
  \/ Replay \/ Stage \/ Decrypt \/ Begin \/ Leave
  \/ ApplyNodes \/ NodesDone \/ ApplySessions \/ SessionsDone
  \/ Complete \/ Clear \/ Crash \/ Boot

Spec == Init /\ [][Next]_vars

-----------------------------------------------------------------------------
TypeOK ==
  /\ dirs \subseteq Archive /\ payload \subseteq dirs /\ running \in BOOLEAN
  /\ journal = None \/ journal \in [archive : Archive, nodes : BOOLEAN, sessions : BOOLEAN]
  /\ tokens \subseteq Archive /\ waiting \subseteq Archive /\ exports \in 0 .. MaxExports
  /\ nodes \in [Archive -> Progress] /\ sessions \in [Archive -> Progress]

(* An archive of which only a part was applied can be finished: the        *)
(* journal names it and its decrypted payload is on disk, through          *)
(* failures, restarts, clean-ups and attempts at another import.  And      *)
(* sessions are not touched before all nodes are there.                    *)
HalfAppliedIsJournalled ==
  \A a \in Archive :
    /\ \/ nodes[a] = "part" \/ sessions[a] = "part"
       \/ a \in WithSessions /\ nodes[a] # sessions[a]
       => journal # None /\ journal.archive = a /\ a \in payload
    /\ sessions[a] # "no" => nodes[a] = "all"
=============================================================================
