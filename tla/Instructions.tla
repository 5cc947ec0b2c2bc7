---------------------------- MODULE Instructions ----------------------------
(***************************************************************************)
(* The instructions of a workspace, and the copy each session keeps.       *)
(*                                                                         *)
(* Users edit the text in a dialog that loads it with its revision and     *)
(* saves it against that revision.  A session takes a snapshot when its    *)
(* first message is sent, after the workspace was looked up, and enters it *)
(* into its log as one message.  An imported session brings a snapshot,    *)
(* which may also be the workspace's newer text.                           *)
(***************************************************************************)
EXTENDS Naturals, Sequences

CONSTANTS Text,         \* instructions; None is the empty text
          Session,      \* sessions of the workspace
          Editor,       \* dialogs that may be open
          MaxRevision,  \* revisions (bound)
          None          \* no text, no record, no snapshot, nothing open

VARIABLES
  record,    \* workspace-instructions.json: the text and its revision, or None
  dialog,    \* dialog[e]: what it loaded, and whether it was cleared since
  snapshot,  \* session-instruction-snapshots.json: per session, or None
  step,      \* step[s]: where the pre-step of s is, or None
  entered,   \* entered[s]: texts in its instruction messages
  gone       \* deleted sessions

vars == <<record, dialog, snapshot, step, entered, gone>>

Revision == 1 .. MaxRevision
Stored(t, r) == [text |-> t, revision |-> r]
Current == IF record = None THEN Stored(None, 0) ELSE record

-----------------------------------------------------------------------------
(* WorkspaceInstructionStore, its route and the dialog *)

(* GET: the text and its revision, or an empty text and revision 0.        *)
Load(e) ==
  /\ dialog[e] = None
  /\ dialog' = [dialog EXCEPT ![e] = [stored |-> Current, cleared |-> FALSE]]
  /\ UNCHANGED <<record, snapshot, step, entered, gone>>

(* A record of another revision refuses; no record accepts any revision.   *)
Agrees(e) == record = None \/ Current.revision = dialog[e].stored.revision

(* PUT of a text: update(), and the dialog closes.                         *)
Save(e, t) ==
  /\ dialog[e] # None /\ Agrees(e) /\ Current.revision < MaxRevision
  /\ record' = Stored(t, Current.revision + 1)
  /\ dialog' = [dialog EXCEPT ![e] = None]
  /\ UNCHANGED <<snapshot, step, entered, gone>>

(* PUT of the empty text: clear(), which forgets the revision.             *)
Clear(e) ==
  /\ dialog[e] # None /\ Agrees(e)
  /\ record' = None
  /\ dialog' = [d \in Editor |->
                  IF d = e \/ dialog[d] = None THEN None
                  ELSE [dialog[d] EXCEPT !.cleared = @ \/ record # None]]
  /\ UNCHANGED <<snapshot, step, entered, gone>>

(* A conflict leaves the dialog as it was; the user may close it.          *)
Cancel(e) ==
  /\ dialog[e] # None /\ dialog' = [dialog EXCEPT ![e] = None]
  /\ UNCHANGED <<record, snapshot, step, entered, gone>>

-----------------------------------------------------------------------------
(* resolveSnapshotForSession() and the injector *)

At(s, at) == step[s] = at

(* agent/pre-step: a session with a snapshot goes on with it, one that     *)
(* sends its first message waits for its workspace to be looked up.        *)
Begin(s) ==
  /\ s \notin gone /\ step[s] = None
  /\ \/ snapshot[s] # None /\ step' = [step EXCEPT ![s] = "enter"]
     \/ /\ snapshot[s] = None /\ entered[s] = << >>
        /\ step' = [step EXCEPT ![s] = "resolve"]
  /\ UNCHANGED <<record, dialog, snapshot, entered, gone>>

(* Wrong on purpose: what was absent before the await is absent after it.  *)
CreateAnyway(s, stored) == snapshot' = [snapshot EXCEPT ![s] = stored]

(* createIfAbsent() *)
CreateIfAbsent(s, stored) ==
  snapshot' = IF snapshot[s] = None THEN [snapshot EXCEPT ![s] = stored] ELSE snapshot

(* The workspace's text of now is taken, or an empty one if the path has   *)
(* no workspace.                                                           *)
Resolve(s) ==
  /\ At(s, "resolve") /\ step' = [step EXCEPT ![s] = "enter"]
  /\ \E stored \in {Current, Stored(None, 0)} : CreateIfAbsent(s, stored)
  /\ UNCHANGED <<record, dialog, entered, gone>>

(* The message enters once, and not at all for an empty snapshot.          *)
Enter(s) ==
  /\ At(s, "enter") /\ step' = [step EXCEPT ![s] = None]
  /\ entered' = IF snapshot[s] # None /\ snapshot[s].text # None /\ entered[s] = << >>
                THEN [entered EXCEPT ![s] = <<snapshot[s].text>>] ELSE entered
  /\ UNCHANGED <<record, dialog, snapshot, gone>>

(* The signal aborts the step. *)
Abort(s) ==
  /\ step[s] # None /\ step' = [step EXCEPT ![s] = None]
  /\ UNCHANGED <<record, dialog, snapshot, entered, gone>>

(* session/deleted *)
Delete(s) ==
  /\ s \notin gone /\ gone' = gone \cup {s}
  /\ snapshot' = [snapshot EXCEPT ![s] = None]
  /\ UNCHANGED <<record, dialog, step, entered>>

-----------------------------------------------------------------------------
(* Imports *)

(* Wrong on purpose: the peer's text wins over one of the same revision.   *)
RestoreSame(t, r) ==
  record' = IF Current.revision > r THEN record ELSE Stored(t, r)

(* restoreWorkspace(): a newer revision is taken over. *)
RestoreWorkspace(t, r) ==
  record' = IF Current.revision >= r THEN record ELSE Stored(t, r)

(* applyPrepared(): a session that has another snapshot is refused.        *)
Import(s, t, r) ==
  /\ s \notin gone
  /\ snapshot[s] \in {None, Stored(t, r)}
  /\ snapshot' = [snapshot EXCEPT ![s] = Stored(t, r)]
  /\ RestoreWorkspace(t, r)
  /\ UNCHANGED <<dialog, step, entered, gone>>

-----------------------------------------------------------------------------
Init ==
  /\ record = None /\ dialog = [e \in Editor |-> None]
  /\ snapshot = [s \in Session |-> None] /\ step = [s \in Session |-> None]
  /\ entered = [s \in Session |-> << >>] /\ gone = {}

Next ==
  \/ \E e \in Editor : Load(e) \/ (\E t \in Text : Save(e, t)) \/ Clear(e) \/ Cancel(e)
  \/ \E s \in Session :
       \/ Begin(s) \/ Resolve(s) \/ Enter(s) \/ Abort(s) \/ Delete(s)
       \/ \E t \in Text, r \in Revision : Import(s, t, r)

Spec == Init /\ [][Next]_vars

-----------------------------------------------------------------------------
Value == [text : Text \cup {None}, revision : 0 .. MaxRevision]
TypeOK ==
  /\ record = None \/ record \in Value
  /\ \A e \in Editor : dialog[e] = None \/ dialog[e] \in [stored : Value, cleared : BOOLEAN]
  /\ \A s \in Session : snapshot[s] = None \/ snapshot[s] \in Value
  /\ \A s \in Session : Len(entered[s]) <= 1 /\ step[s] \in {None, "resolve", "enter"}
  /\ gone \subseteq Session

(* The dialog promises that a conversation goes on with the instructions   *)
(* it began with: a session's snapshot does not change until the session   *)
(* is deleted, whatever is edited or imported while its workspace is being *)
(* looked up.                                                              *)
FrozenSnapshot ==
  [][\A s \in Session : snapshot[s] # None =>
       snapshot'[s] = snapshot[s] \/ s \in gone']_vars

(* A save that replaces a text replaces the one its editor was looking at, *)
(* although revisions also come from peers; only clear() breaks this.      *)
EditsSeen ==
  [][\A e \in Editor :
       dialog[e] # None /\ dialog'[e] = None /\ record # None /\ record' # record
         => dialog[e].stored = record \/ dialog[e].cleared]_vars
=============================================================================
