----------------------------- MODULE Transport ------------------------------
(***************************************************************************)
(* One request to a peer: an SSH session, the helper it runs there, and    *)
(* the web server the helper asks.                                         *)
(*                                                                         *)
(* SyncSshTransport opens a session, writes a request and perhaps a body   *)
(* as frames, ends its input, and reads frames until the channel ends.     *)
(* The helper reads the request, fetches from the peer's own web server,   *)
(* and writes the answer: one control frame, or a response, its data and   *)
(* response-end.  A pushed object is passed on as it comes, everything     *)
(* else only when it is complete.                                          *)
(*                                                                         *)
(* A frame is a control frame of some kind, a response with its status, or *)
(* data with its sequence number.  The channel keeps frames in order,      *)
(* takes Window of them before the writer waits for 'drain', and may be    *)
(* cut or freeze.                                                          *)
(***************************************************************************)
EXTENDS Naturals, Sequences

CONSTANTS Window,  \* frames the channel takes before its writer waits
          MaxData  \* data frames of a body or of an answer

Control(kind) == [kind |-> kind, seq |-> 0]
Data(n) == [i \in 1 .. n |-> [kind |-> "data", seq |-> i]]

-----------------------------------------------------------------------------
(* What the peer's web server answers a helper: it reaches an endpoint only *)
(* through the loopback, by the method and path of the operation, so the    *)
(* refusals left are those of the request's body and of the service.        *)

(* Without an identity there is no handshake; "other" is a good answer of   *)
(* another version of the protocol.                                         *)
HandshakeAnswers == {"200", "other", "503"}

(* A manifest the node service rejects is a bad request.                    *)
NodeAnswers == {"200", "400", "500"}

(* 409 asks for the session in full; 413 says the bundle is too large.      *)
SessionAnswers == {"200", "400", "409", "413", "500"}

(* Descriptors, or frames, that do not fit the objects.                     *)
ObjectAnswers == {"200", "400", "422"}

Status == HandshakeAnswers \cup NodeAnswers \cup SessionAnswers \cup ObjectAnswers

-----------------------------------------------------------------------------
(* The operations: whether the request has a body, whether the answer comes *)
(* as a stream, whether the body is passed on as it comes, and the answers. *)
(* A session bundle is asked for as a session manifest is.                  *)

Handshake == [body |-> FALSE, stream |-> FALSE, push |-> FALSE, answers |-> HandshakeAnswers]
NodeManifest == [Handshake EXCEPT !.stream = TRUE, !.answers = NodeAnswers]
NodeApply == [Handshake EXCEPT !.body = TRUE, !.answers = NodeAnswers]
SessionManifest == [NodeManifest EXCEPT !.answers = SessionAnswers]
SessionEntries == [SessionManifest EXCEPT !.body = TRUE]
SessionApply == [NodeApply EXCEPT !.answers = SessionAnswers]
SessionObjects == [SessionEntries EXCEPT !.answers = ObjectAnswers]
ObjectsPush == [Handshake EXCEPT !.body = TRUE, !.push = TRUE, !.answers = ObjectAnswers]

Operation == {Handshake, NodeManifest, NodeApply, SessionManifest, SessionEntries,
              SessionApply, SessionObjects, ObjectsPush}

VARIABLES
  op,      \* the operation
  phase,   \* the request here: opening, sending, reading, ok, refetch or failed
  out,     \* frames still to be written
  up,      \* frames on their way to the helper
  down,    \* frames on their way back
  helper,  \* what the helper does
  answer,  \* data frames of the peer's answer
  got,     \* what was read of it: the status, the data, and the end
  fault    \* nothing yet, "frozen" for a minute, or another fault

vars == <<op, phase, out, up, down, helper, answer, got, fault>>

Settled == {"ok", "refetch", "failed"}
Frames == <<Control("request")>>
          \o (IF op.body THEN Data(MaxData) \o <<Control("end")>> ELSE << >>)
Answer(status) ==
  <<Control(status)>> \o (IF op.stream THEN Data(answer) \o <<Control("end")>> ELSE << >>)
Nothing == [status |-> "none", data |-> << >>, end |-> FALSE]

-----------------------------------------------------------------------------
(* Here: openSession() *)

(* A client, a channel, and the session is tracked. *)
Open ==
  /\ phase = "opening" /\ phase' = "sending"
  /\ helper' = "request"
  /\ UNCHANGED <<op, out, up, down, answer, got, fault>>

(* A deadline passes, the login or the host key is refused. *)
OpenFails ==
  /\ phase = "opening" /\ phase' = "failed"
  /\ fault' = "refused"
  /\ UNCHANGED <<op, out, up, down, helper, answer, got>>

-----------------------------------------------------------------------------
(* Here: SyncSshSession *)

(* write() *)
Send ==
  /\ phase = "sending" /\ out # << >> /\ Len(up) < Window /\ helper # "exited"
  /\ up' = Append(up, Head(out)) /\ out' = Tail(out)
  /\ UNCHANGED <<op, phase, down, helper, answer, got, fault>>

(* endInput() *)
EndInput ==
  /\ phase = "sending" /\ out = << >> /\ phase' = "reading"
  /\ UNCHANGED <<op, out, up, down, helper, answer, got, fault>>

(* The channel closed before a write could drain. *)
WriteFails ==
  /\ phase = "sending" /\ out # << >> /\ helper = "exited" /\ phase' = "failed"
  /\ UNCHANGED <<op, out, up, down, helper, answer, got, fault>>

Stuck == fault = "frozen" \/ helper = "drain"

(* Wrong on purpose: only reading has a deadline. *)
DeadlineReading ==
  /\ Stuck
  /\ phase = "reading" /\ down = << >>
  /\ phase' = "failed"
  /\ UNCHANGED <<op, out, up, down, helper, answer, got, fault>>

(* The idle deadline of readFrames(), the drain deadline of write(). *)
Deadline ==
  /\ Stuck
  /\ \/ phase = "reading" /\ down = << >>
     \/ phase = "sending" /\ out # << >> /\ Len(up) = Window
  /\ phase' = "failed"
  /\ UNCHANGED <<op, out, up, down, helper, answer, got, fault>>

(* stopActiveSessions() closes a session that is tracked. *)
StopSession ==
  /\ phase \in {"sending", "reading"} /\ phase' = "failed" /\ fault' = "stopped"
  /\ UNCHANGED <<op, out, up, down, helper, answer, got>>

(* Whether a frame may come now, as each operation's loop checks it. *)
Expected(f) ==
  \/ f.kind \in Status /\ got.status = "none"
  \/ f.kind \in {"data", "end"} /\ op.stream /\ got.status # "none" /\ ~got.end

Took(f) == CASE f.kind \in Status -> [got EXCEPT !.status = f.kind]
             [] f.kind = "end" -> [got EXCEPT !.end = TRUE]
             [] OTHER -> [got EXCEPT !.data = Append(@, f)]

Read ==
  /\ phase = "reading" /\ down # << >>
  /\ down' = Tail(down)
  /\ \/ Expected(Head(down)) /\ got' = Took(Head(down)) /\ UNCHANGED phase
     \/ ~Expected(Head(down)) /\ phase' = "failed" /\ UNCHANGED got
  /\ UNCHANGED <<op, out, up, helper, answer, fault>>

Ended == phase = "reading" /\ down = << >> /\ helper = "exited"

(* Wrong on purpose: an answer counts without its response-end.            *)
CompleteUnended == got.status = "200"

(* An answer counts if it is complete.                                     *)
Complete == got.status = "200" /\ (op.stream => got.end)

(* The peer has another log than the delta continues: an outcome of its    *)
(* own, for which the helper does not exit with an error.                  *)
Conflict == op = SessionApply /\ got.status = "409"

(* The channel has ended.                                                  *)
Finish ==
  /\ Ended
  /\ phase' = IF Complete THEN "ok" ELSE IF Conflict THEN "refetch" ELSE "failed"
  /\ UNCHANGED <<op, out, up, down, helper, answer, got, fault>>

-----------------------------------------------------------------------------
(* There: the helper *)

HelperReads(next) == helper' = next /\ UNCHANGED <<op, phase, out, answer, got, fault>>

(* The request is read; a pushed body is asked for while it comes. *)
TakeRequest ==
  /\ helper = "request" /\ up # << >> /\ Head(up).kind = "request" /\ up' = Tail(up)
  /\ HelperReads(IF op.push THEN "pump" ELSE IF op.body THEN "body" ELSE "fetch")
  /\ UNCHANGED down

(* A body is collected until request-end. *)
TakeBody ==
  /\ helper = "body" /\ up # << >> /\ up' = Tail(up)
  /\ HelperReads(IF Head(up).kind = "end" THEN "fetch" ELSE "body")
  /\ UNCHANGED down

(* pump(): a chunk that fills the stream, as any chunk of an object does,  *)
(* makes it wait for the stream's 'drain', an event of writable streams    *)
(* that a Readable does not have.                                          *)
Pump ==
  /\ helper = "pump" /\ up # << >> /\ up' = Tail(up)
  /\ HelperReads(IF Head(up).kind = "end" THEN "fetch" ELSE "drain")
  /\ UNCHANGED down

(* The peer's server answers; a streamed answer ends with response-end.    *)
Fetch ==
  /\ helper = "fetch" /\ helper' = "exited"
  /\ \E status \in op.answers :
       /\ down' = down \o Answer(status)
       /\ fault' = IF status = "200" THEN fault ELSE "refused"
  /\ UNCHANGED <<op, phase, out, up, answer, got>>

-----------------------------------------------------------------------------
(* Faults *)

(* The helper or the connection ends, and the last frames with it.         *)
Cut ==
  /\ fault = "none" /\ phase \in {"sending", "reading"} /\ fault' = "cut"
  /\ \E n \in 0 .. Len(down) : down' = SubSeq(down, 1, n)
  /\ helper' = "exited" /\ up' = << >>
  /\ UNCHANGED <<op, phase, out, answer, got>>

(* The peer's stream breaks off: the helper reports it and exits.          *)
Break ==
  /\ fault = "none" /\ helper = "fetch" /\ fault' = "cut" /\ helper' = "exited"
  /\ \E n \in 0 .. answer :
       down' = IF op.stream THEN <<Control("200")>> \o Data(n) \o <<Control("error")>>
               ELSE <<Control("error")>>
  /\ UNCHANGED <<op, phase, out, up, answer, got>>

(* Nothing moves for more than a minute. *)
Freeze ==
  /\ fault = "none" /\ phase \in {"sending", "reading"} /\ fault' = "frozen"
  /\ UNCHANGED <<op, phase, out, up, down, helper, answer, got>>

-----------------------------------------------------------------------------
Init ==
  /\ op \in Operation /\ answer \in 0 .. MaxData
  /\ phase = "opening" /\ out = Frames
  /\ up = << >> /\ down = << >> /\ helper = "none" /\ got = Nothing /\ fault = "none"

Here == Open \/ Send \/ EndInput \/ WriteFails \/ Deadline \/ Read \/ Finish
There == fault # "frozen" /\ (TakeRequest \/ TakeBody \/ Pump \/ Fetch)
Fault == OpenFails \/ StopSession \/ Cut \/ Break \/ Freeze

Next == Here \/ There \/ Fault

Spec == Init /\ [][Next]_vars

(* Deadlines pass, and both sides go on while nothing is in their way.     *)
FairSpec == Spec /\ WF_vars(Here) /\ WF_vars(There)

-----------------------------------------------------------------------------
TypeOK ==
  /\ op \in Operation /\ answer \in 0 .. MaxData
  /\ phase \in {"opening", "sending", "reading"} \cup Settled
  /\ helper \in {"none", "request", "body", "pump", "drain", "fetch", "exited"}
  /\ Len(up) <= Window /\ got.status \in {"none"} \cup Status

(* An answer that counts is all there, in order, however the channel ended *)
(* and wherever the peer's stream broke off.                               *)
NoTruncatedAnswer ==
  phase = "ok" /\ op.stream => got.data = Data(answer)

(* Every request ends, with an answer or an error, although the channel    *)
(* may freeze while it is written or read.                                 *)
RequestSettles == <>(phase \in Settled)

(* The comment above pushSessionObjects(): the peer writes what it gets to *)
(* its inbox as it comes and then answers.  So a push that meets no fault  *)
(* succeeds.                                                               *)
PushCompletes == (op.push /\ phase = "opening") ~> (phase = "ok" \/ fault # "none")
=============================================================================
