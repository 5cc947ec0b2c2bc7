---------------------------- MODULE ObjectInbox -----------------------------
(***************************************************************************)
(* Large attachments travel beside a session bundle: a stream of frames    *)
(* first fills an inbox on the receiver's disk, a file for each digest,    *)
(* then the import of the bundle reads them from there and, when all is    *)
(* applied, removes them.                                                  *)
(*                                                                         *)
(* Imports hold the service's mutation queue; streams do not, so one batch *)
(* may be sent while another is applied, and two may share an object.  A   *)
(* batch is a bundle with one session and the objects that session needs.  *)
(* Temporary files are left out: nothing reads them.                       *)
(***************************************************************************)
EXTENDS FiniteSets

CONSTANTS Object,  \* objects, by their digest
          Batch,   \* bundles a peer delivers
          Needs,   \* Needs[b]: the deferred objects of b
          None     \* no writer, no batch

VARIABLES
  inbox,     \* inbox[o]: what the inbox holds under o's digest
  stage,     \* stage[b]: what is being done with b
  sent,      \* sent[b]: the objects of b this stream has delivered
  writer,    \* writer[b]: the object being written and what has come of it
  pending,   \* batches the journal holds
  prepared,  \* those whose session is prepared, objects and all
  read,      \* read[b]: the objects this import of b has read
  finished,  \* batches that were applied
  lost       \* objects that were removed because they were a day old

disk == <<inbox, pending, prepared, finished, lost>>
stream == <<sent, writer>>
vars == <<disk, stage, stream, read>>

Stage == {"idle", "sending", "applying", "clearing"}
Content == {"none", "whole", "bad"}

Go(b, s) == stage' = [stage EXCEPT ![b] = s]

(* The mutation queue is free.                                             *)
QueueFree == \A b \in Batch : stage[b] \notin {"applying", "clearing"}

-----------------------------------------------------------------------------
(* ingestObjectStream() *)

(* A run sends all objects of a batch, again if it was tried before.       *)
Send(b) ==
  /\ stage[b] = "idle" /\ b \notin finished /\ Go(b, "sending")
  /\ sent' = [sent EXCEPT ![b] = {}] /\ UNCHANGED <<disk, writer, read>>

(* A header: writerFor() opens a temporary file.                           *)
Header(b, o) ==
  /\ stage[b] = "sending" /\ writer[b] = None /\ o \in Needs[b] \ sent[b]
  /\ writer' = [writer EXCEPT ![b] = [object |-> o, got |-> "none"]]
  /\ UNCHANGED <<disk, stage, sent, read>>

(* The payload: as many bytes as were declared, the right ones or not.     *)
Payload(b, got) ==
  /\ stage[b] = "sending" /\ writer[b] # None /\ writer[b].got = "none"
  /\ writer' = [writer EXCEPT ![b].got = got]
  /\ UNCHANGED <<disk, stage, sent, read>>

(* commit(): the file gets its name, or the stream is refused.             *)
Commit(b) ==
  /\ stage[b] = "sending" /\ writer[b] # None /\ writer[b].got # "none"
  /\ writer' = [writer EXCEPT ![b] = None]
  /\ IF writer[b].got = "whole"
     THEN /\ inbox' = [inbox EXCEPT ![writer[b].object] = "whole"]
          /\ lost' = lost \ {writer[b].object}
          /\ sent' = [sent EXCEPT ![b] = @ \cup {writer[b].object}]
          /\ UNCHANGED stage
     ELSE Go(b, "idle") /\ UNCHANGED <<inbox, lost, sent>>
  /\ UNCHANGED <<pending, prepared, finished, read>>

(* The stream ends inside a frame, or exceeds it: abort().                 *)
Cut(b) ==
  /\ stage[b] = "sending" /\ Go(b, "idle") /\ writer' = [writer EXCEPT ![b] = None]
  /\ UNCHANGED <<disk, sent, read>>

-----------------------------------------------------------------------------
(* applyBundleNow(), importObjects() *)

(* The bundle follows its objects; a batch found in the journal goes on.   *)
Apply(b) ==
  /\ stage[b] = "sending" /\ writer[b] = None /\ sent[b] = Needs[b] /\ QueueFree
  /\ Go(b, "applying") /\ pending' = pending \cup {b}
  /\ UNCHANGED <<inbox, prepared, finished, lost, stream, read>>

(* recoverPending() *)
Replay(b) ==
  /\ stage[b] = "idle" /\ b \in pending /\ QueueFree /\ Go(b, "applying")
  /\ UNCHANGED <<disk, stream, read>>

(* read() and its verified stream; without the object the import fails.    *)
Read(b, o) ==
  /\ stage[b] = "applying" /\ b \notin prepared /\ o \in Needs[b] \ read[b]
  /\ inbox[o] = "whole" /\ read' = [read EXCEPT ![b] = @ \cup {o}]
  /\ UNCHANGED <<disk, stage, stream>>

(* All objects are in: writePrepared().                                    *)
Prepare(b) ==
  /\ stage[b] = "applying" /\ b \notin prepared /\ read[b] = Needs[b]
  /\ prepared' = prepared \cup {b}
  /\ UNCHANGED <<inbox, pending, finished, lost, stage, stream, read>>

(* Wrong on purpose: a failed import removes what it has read.             *)
FailAndForget(b) ==
  /\ stage[b] = "applying" /\ Go(b, "idle") /\ read' = [read EXCEPT ![b] = {}]
  /\ inbox' = [o \in Object |-> IF o \in read[b] THEN "none" ELSE inbox[o]]
  /\ UNCHANGED <<pending, prepared, finished, lost, stream>>

(* The import fails, for an object that is missing or for another reason.  *)
(* The inbox stays as it is.                                               *)
Fail(b) ==
  /\ stage[b] = "applying" /\ Go(b, "idle") /\ read' = [read EXCEPT ![b] = {}]
  /\ UNCHANGED <<disk, stream>>

(* The journal's batch is complete.                                        *)
Complete(b) ==
  /\ stage[b] = "applying" /\ b \in prepared /\ Go(b, "clearing")
  /\ pending' = pending \ {b} /\ finished' = finished \cup {b}
  /\ UNCHANGED <<inbox, prepared, lost, stream, read>>

(* deleteInboxedObjects(): one file after the other, those read this time. *)
Delete(b, o) ==
  /\ stage[b] = "clearing" /\ o \in read[b]
  /\ inbox' = [inbox EXCEPT ![o] = "none"] /\ read' = [read EXCEPT ![b] = @ \ {o}]
  /\ UNCHANGED <<pending, prepared, finished, lost, stage, stream>>

Cleared(b) ==
  /\ stage[b] = "clearing" /\ read[b] = {} /\ Go(b, "idle")
  /\ UNCHANGED <<disk, stream, read>>

-----------------------------------------------------------------------------
(* The process stops, and starts with a sweep of what is old.              *)
Restart(old) ==
  /\ stage' = [b \in Batch |-> "idle"] /\ sent' = [b \in Batch |-> {}]
  /\ writer' = [b \in Batch |-> None] /\ read' = [b \in Batch |-> {}]
  /\ inbox' = [o \in Object |-> IF o \in old THEN "none" ELSE inbox[o]]
  /\ lost' = lost \cup old
  /\ UNCHANGED <<pending, prepared, finished>>

Init ==
  /\ inbox = [o \in Object |-> "none"] /\ stage = [b \in Batch |-> "idle"]
  /\ sent = [b \in Batch |-> {}] /\ writer = [b \in Batch |-> None]
  /\ pending = {} /\ prepared = {} /\ finished = {} /\ lost = {}
  /\ read = [b \in Batch |-> {}]

Next ==
  \/ \E b \in Batch :
       \/ Send(b) \/ Commit(b) \/ Cut(b) \/ Apply(b) \/ Replay(b)
       \/ Prepare(b) \/ Fail(b) \/ Complete(b) \/ Cleared(b)
       \/ \E o \in Object : Header(b, o) \/ Read(b, o) \/ Delete(b, o)
       \/ \E got \in {"whole", "bad"} : Payload(b, got)
  \/ \E old \in SUBSET {o \in Object : inbox[o] # "none"} : Restart(old)

Spec == Init /\ [][Next]_vars

-----------------------------------------------------------------------------
TypeOK ==
  /\ inbox \in [Object -> Content] /\ stage \in [Batch -> Stage]
  /\ sent \in [Batch -> SUBSET Object] /\ read \in [Batch -> SUBSET Object]
  /\ writer \in [Batch -> {None} \cup [object : Object, got : Content]]
  /\ pending \subseteq Batch /\ prepared \subseteq Batch /\ finished \subseteq Batch
  /\ lost \subseteq Object

(* What a stopped import needs to be replayed is in the inbox, whole,      *)
(* through streams that are cut or damaged, failures and restarts, unless  *)
(* an applied batch took a shared object with it or the object lay there   *)
(* for a day.                                                              *)
PendingHasObjects ==
  \A b \in pending \ prepared : \A o \in Needs[b] :
    inbox[o] = "whole" \/ o \in lost \/ \E c \in finished : o \in Needs[c]
=============================================================================
