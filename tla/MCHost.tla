------------------------------- MODULE MCHost -------------------------------
(***************************************************************************)
(* Small instances, for TLC, of parts of the program that have no state in *)
(* common: PeerSchedule, NodeHost, SshWorld, OfflineImport, Instructions,  *)
(* Auth, ObjectInbox, SessionTransfer, Router, RemoteFiles and             *)
(* ArchiveFormat.  A behaviour is one of one part.                         *)
(***************************************************************************)
EXTENDS MCPeerSchedule, Integers, Sequences

CONSTANTS Node, HostRequest, Caller, MaxRetries, Archive, WithSessions, MaxExports,
          Text, Session, Editor, MaxRevision,
          Ip, User, Password, MaxFailures, MaxEntries, MaxSecrets,
          o1, o2, o3, b1, b2, MaxEvents,
          Object, Batch, Needs, FirstLogs,
          RouterNode, Slug, Remote, Writer, Word, Given, MaxMs,
          Collation, Size, MaxBytes, MaxRecords

VARIABLES
  part,  \* the part this behaviour is of
  list, keys, boxes, work, queue, used,
  host, client, late, connecting, tries, call, sftp, closed,
  dirs, payload, journal, nodes, sessions,
  tokens, waiting, exports, task, running,
  record, dialog, snapshot, step, entered, gone,
  file, cache, seen, cookies, limiter, reset, served, guesses,
  inbox, stage, sent, writer, pending, prepared, read, finished, lost,
  log, events, at, reader, manifest, kept, whole, bundle, imported,
  kind, listed, named, removing, bindings, ssh, docker, asked,
  world, target, temp, now, op, clash,
  package, origin, outcome

(* Two batches that share an object.                                       *)
MC_Needs == b1 :> {o1, o2} @@ b2 :> {o2, o3}

(* The target has nothing, or all of the log, a part of it, another log,   *)
(* or more than the source.                                                *)
MC_FirstLogs == {<< <<11>>, <<>> >>, << <<11>>, <<11>> >>, << <<11, 12>>, <<11>> >>,
                 << <<11, 12>>, <<13>> >>, << <<11>>, <<11, 13>> >>}

(* Two workspaces of a node, one's name the beginning of the other's.      *)
MC_Slug == {<<"web">>, <<"web", "-2">>}

(* Texts with a word once and twice.                                       *)
MC_Given == {<<"x", "x">>, <<"y">>}

(* A directory of a node.                                                  *)
MC_Remote == {<<"/", "srv">>}

(* Two hosts that sort the same records differently.                       *)
MC_Collation == {<<"k1", "k2">>, <<"k2", "k1">>}

-----------------------------------------------------------------------------
(* What the proofs rely on.                                                *)

(* A handshake's retries are counted, and a caller is somebody.            *)
ASSUME WorldAssumption == MaxRetries \in Nat /\ None \notin Caller

(* At least one wrong password is let through before the limiter closes;   *)
(* neither a credentials file, nor a cookie, nor a count is None.          *)
ASSUME LoginAssumption ==
  /\ MaxFailures \in Nat \ {0} /\ MaxSecrets \in Nat
  /\ None \notin [user : User, password : Password, secret : 1..MaxSecrets]
  /\ None \notin [user : User, secret : 1..MaxSecrets]
  /\ None \notin [failures : 0..MaxFailures, lock : {"off", "on", "over"}]

(* What paths are made of.                                                 *)
Piece ==
  {"/", "f"} \cup RouterNode
             \cup UNION {{s[i] : i \in DOMAIN s} : s \in Slug \cup Remote}

(* A path is a sequence of pieces, and the name that slugify() gives a     *)
(* workspace has no separator in it.                                       *)
ASSUME RoutesAssumption ==
  /\ Slug \subseteq Seq(Piece) /\ Remote \subseteq Seq(Piece) /\ None \notin Seq(Piece)
  /\ \A s \in Slug : \A i \in DOMAIN s : s[i] # "/"

(* Logs are sequences of events, and an absent one is none of them.        *)
ASSUME TransferAssumption ==
  /\ \A p \in FirstLogs : p[1] \in Seq(Nat) /\ p[2] \in Seq(Nat)
  /\ MaxEvents \in Nat /\ None \notin Seq(Nat)

(* No text is empty: an empty one cannot be told from a file that was      *)
(* opened and of which nothing is written yet.                             *)
ASSUME FilesAssumption ==
  /\ Given \subseteq Seq(Word) \ {<<>>} /\ "none" \notin Writer /\ MaxMs \in Nat

(* Neither a text with its revision nor a dialog with one is None.         *)
ASSUME TextsAssumption ==
  /\ MaxRevision \in Nat
  /\ None \notin [text : Text \cup {None}, revision : 0 .. MaxRevision]
  /\ None \notin [stored : [text : Text \cup {None}, revision : 0 .. MaxRevision],
                   cleared : BOOLEAN]

(* Neither an archive nor an import's task is None.                        *)
ASSUME ArchivesAssumption ==
  /\ MaxExports \in Nat /\ None \notin Archive
  /\ None \notin [archive : Archive, nodes : BOOLEAN, sessions : BOOLEAN]

(* A request is not nobody, and work to do is not none.                    *)
ASSUME NodesAssumption ==
  /\ None \notin HostRequest
  /\ None \notin [op : {"create", "import", "replace", "patch", "rm", "splice", "forget",
                       "inspect", "pull", "run", "wait", "name"},
                  id : Node, at : Nat, keyed : BOOLEAN, box : BOOLEAN]

-----------------------------------------------------------------------------
Nodes == INSTANCE NodeHost WITH Request <- HostRequest
World == INSTANCE SshWorld WITH Nobody <- None
Archives == INSTANCE OfflineImport
Texts == INSTANCE Instructions
Login == INSTANCE Auth
Inbox == INSTANCE ObjectInbox
Transfer == INSTANCE SessionTransfer
Routes == INSTANCE Router WITH Node <- RouterNode, Caller <- HostRequest
Files == INSTANCE RemoteFiles WITH Caller <- Writer
Format == INSTANCE ArchiveFormat

(* Sizes and the limit are numbers of bytes, and neither records nor a     *)
(* file of them is None.                                                   *)
ASSUME FormatAssumption ==
  /\ Size \subseteq Nat /\ MaxBytes \in Nat /\ MaxRecords \in Nat
  /\ \A records \in SUBSET Format!Record : records # None
  /\ None \notin [name : {"sessions.json"}, bytes : Size, data : SUBSET Format!Record]

-----------------------------------------------------------------------------
peersVars == <<vars, calm>>
nodesVars == <<list, keys, boxes, work, queue, used>>
worldVars == <<host, client, late, connecting, tries, call, sftp, closed>>
archivesVars == <<dirs, payload, journal, nodes, sessions, tokens, waiting, exports,
                  task, running>>
textsVars == <<record, dialog, snapshot, step, entered, gone>>
loginVars == <<file, cache, seen, cookies, limiter, reset, served, guesses>>
inboxVars == <<inbox, stage, sent, writer, pending, prepared, read, finished, lost>>
transferVars == <<log, events, at, reader, manifest, kept, whole, bundle, imported>>
routesVars == <<kind, listed, named, removing, bindings, ssh, docker, asked>>
filesVars == <<world, target, temp, now, op, clash>>
formatVars == <<package, origin, outcome>>

(* Every part is in an initial state, where all but one of them remain.    *)
MC_Init ==
  /\ part \in {"peers", "nodes", "world", "archives", "texts", "login", "inbox", "transfer",
              "routes", "files", "format"}
  /\ Init /\ calm \in BOOLEAN /\ (part # "peers" => calm)
  /\ Nodes!Init /\ World!Init /\ Archives!Init /\ Texts!Init /\ Login!Init /\ Inbox!Init
  /\ Transfer!Init /\ Routes!Init /\ Files!Init /\ Format!Init
  /\ part # "peers" => peer = [p \in Peer |-> "unused"]
  /\ part # "world" => host = "up"
  /\ part # "transfer" => log = [source |-> <<11>>, target |-> <<>>]
  /\ part # "routes" => kind = [n \in RouterNode |-> "remote-ssh"]
  /\ part # "files" => world = "ssh" /\ target.text = <<"y">>

MC_Next ==
  \/ /\ part = "peers" /\ (Calm \/ (~calm /\ Fault)) /\ UNCHANGED calm
     /\ UNCHANGED <<part, nodesVars, worldVars, archivesVars, textsVars, loginVars,
                      inboxVars, transferVars, routesVars, filesVars, formatVars>>
  \/ /\ part = "nodes" /\ Nodes!Next
     /\ UNCHANGED <<part, peersVars, worldVars, archivesVars, textsVars, loginVars,
                      inboxVars, transferVars, routesVars, filesVars, formatVars>>
  \/ /\ part = "world" /\ World!Next
     /\ UNCHANGED <<part, peersVars, nodesVars, archivesVars, textsVars, loginVars,
                      inboxVars, transferVars, routesVars, filesVars, formatVars>>
  \/ /\ part = "archives" /\ Archives!Next
     /\ UNCHANGED <<part, peersVars, nodesVars, worldVars, textsVars, loginVars,
                      inboxVars, transferVars, routesVars, filesVars, formatVars>>
  \/ /\ part = "texts" /\ Texts!Next
     /\ UNCHANGED <<part, peersVars, nodesVars, worldVars, archivesVars, loginVars,
                      inboxVars, transferVars, routesVars, filesVars, formatVars>>
  \/ /\ part = "login" /\ Login!Next
     /\ UNCHANGED <<part, peersVars, nodesVars, worldVars, archivesVars, textsVars,
                      inboxVars, transferVars, routesVars, filesVars, formatVars>>
  \/ /\ part = "inbox" /\ Inbox!Next
     /\ UNCHANGED <<part, peersVars, nodesVars, worldVars, archivesVars, textsVars,
                      loginVars, transferVars, routesVars, filesVars, formatVars>>
  \/ /\ part = "transfer" /\ Transfer!Next
     /\ UNCHANGED <<part, peersVars, nodesVars, worldVars, archivesVars, textsVars,
                      loginVars, inboxVars, routesVars, filesVars, formatVars>>
  \/ /\ part = "routes" /\ Routes!Next
     /\ UNCHANGED <<part, peersVars, nodesVars, worldVars, archivesVars, textsVars,
                      loginVars, inboxVars, transferVars, filesVars, formatVars>>
  \/ /\ part = "files" /\ Files!Next
     /\ UNCHANGED <<part, peersVars, nodesVars, worldVars, archivesVars, textsVars,
                      loginVars, inboxVars, transferVars, routesVars, formatVars>>
  \/ /\ part = "format" /\ Format!Next
     /\ UNCHANGED <<part, peersVars, nodesVars, worldVars, archivesVars, textsVars,
                      loginVars, inboxVars, transferVars, routesVars, filesVars>>

hostVars == <<part, peersVars, nodesVars, worldVars, archivesVars, textsVars,
              loginVars, inboxVars, transferVars, routesVars, filesVars,
              formatVars>>

MC_HostSpec == MC_Init /\ [][MC_Next]_hostVars

-----------------------------------------------------------------------------
(* Every part's variables have the types its module says.                  *)
HostTypeOK ==
  /\ TypeOK /\ Nodes!TypeOK /\ World!TypeOK /\ Archives!TypeOK /\ Texts!TypeOK
  /\ Login!TypeOK /\ Inbox!TypeOK /\ Transfer!TypeOK
  /\ Routes!TypeOK /\ Files!TypeOK

(* A listed node has the credentials it was given, and only a creation or  *)
(* a removal of a node changes whether it is listed.                       *)
ListedKeepsKeys == Nodes!ListedKeepsKeys
OnlyItsOwn == Nodes!OnlyItsOwn

(* One handshake at a time, and nobody waits for none.                     *)
OneHandshake == World!OneHandshake

(* A half-applied archive can be finished.                                 *)
HalfAppliedIsJournalled == Archives!HalfAppliedIsJournalled

(* A session keeps the instructions it began with, and no editor replaces  *)
(* a text it has not seen.                                                 *)
FrozenSnapshot == Texts!FrozenSnapshot
EditsSeen == Texts!EditsSeen

(* Wrong passwords are bounded, and a rotation ends all earlier sessions.  *)
GuessesBounded == Login!GuessesBounded
RotationRevokes == Login!RotationRevokes

(* The inbox holds what a pending batch needs.                             *)
PendingHasObjects == Inbox!PendingHasObjects

(* What is imported is what the manifest spoke of, and deltas expand.      *)
AppliedAsPlanned == Transfer!AppliedAsPlanned

(* Below a mirror an operation runs on the binding's node, a container's   *)
(* in the container, or is refused.                                        *)
RunsWhereBound == Routes!RunsWhereBound

(* A file written over SSH is whole at every moment.                       *)
WholeOverSsh == Files!WholeOverSsh

(* What is exported can be imported, but for too many sessions, and        *)
(* nothing else is.                                                        *)
ExportsImport == Format!ExportsImport
=============================================================================
