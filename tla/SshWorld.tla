------------------------------ MODULE SshWorld ------------------------------
(***************************************************************************)
(* The SSH connection of a node, shared by everyone who runs commands or   *)
(* reads files there.                                                      *)
(*                                                                         *)
(* SshConnection connects on demand.  Who asks while a client is being     *)
(* connected waits for the same attempt; an attempt is made again, up to   *)
(* MaxRetries times, unless the host refuses the login or its key.  A lost *)
(* connection is noticed when an event of its client arrives, which may be *)
(* long after: no keepalive is sent, and 'close' may follow 'error' late.  *)
(* SshExecutor keeps the SFTP channel it opened first for ever.            *)
(***************************************************************************)
EXTENDS Naturals, FiniteSets

CONSTANTS Caller,      \* concurrent commands and file operations
          MaxRetries,  \* MAX_RETRIES
          Nobody       \* no caller

VARIABLES
  host,        \* the node: "up", "down", or "refuses" the login
  client,      \* SshConnection.client: none, live, or lost unnoticed
  late,        \* an old client still has to report 'close'
  connecting,  \* SshConnection.connecting: who made the attempt, or Nobody
  tries,       \* tries[c]: failures of c's attempt so far, or over
  call,        \* call[c]: what a caller waits for
  sftp,        \* SshExecutor.sftpCache
  closed       \* SshConnection.closed

vars == <<host, client, late, connecting, tries, call, sftp, closed>>

Over == MaxRetries + 1
Attempts == {c \in Caller : tries[c] # Over}
Waiting == {c \in Caller : call[c].at = "connect"}
Idle == [at |-> "idle", file |-> FALSE]
Answered(f) == [c \in Caller |-> IF call[c].at = "connect" THEN f[c] ELSE call[c]]

-----------------------------------------------------------------------------
(* The node and its network. *)

Change(h) ==
  /\ h # host /\ host' = h
  /\ client' = IF h = "down" /\ client = "live" THEN "lost" ELSE client
  /\ UNCHANGED <<late, connecting, tries, call, sftp, closed>>

(* 'error' of the lost client, and its 'close' at once or later. *)
Notice ==
  /\ client = "lost" /\ client' = "none"
  /\ late' \in {late, TRUE}
  /\ UNCHANGED <<host, connecting, tries, call, sftp, closed>>

(* A late 'close' takes whatever client there is now. *)
LateClose ==
  /\ late /\ late' = FALSE /\ client' = "none"
  /\ UNCHANGED <<host, connecting, tries, call, sftp, closed>>

-----------------------------------------------------------------------------
(* getClient() *)

(* Wrong on purpose: an attempt under way is not remembered. *)
StartForgotten(c) ==
  /\ tries' = [tries EXCEPT ![c] = 0] /\ UNCHANGED connecting

(* connectWithRetry() is started and remembered. *)
Start(c) ==
  /\ tries' = [tries EXCEPT ![c] = 0] /\ connecting' = c

(* A caller with a client goes on, others wait for the attempt under way   *)
(* or start one.  A file operation with a channel asks for no client.      *)
Ask(c, file) ==
  /\ call[c].at = "idle"
  /\ LET Then(at) == call' = [call EXCEPT ![c] = [at |-> at, file |-> file]] IN
     IF file /\ sftp # "none" THEN Then("use") /\ UNCHANGED <<connecting, tries>>
     ELSE \/ closed /\ UNCHANGED <<call, connecting, tries>>
          \/ /\ ~closed /\ client # "none" /\ Then("use")
             /\ UNCHANGED <<connecting, tries>>
          \/ /\ ~closed /\ client = "none" /\ connecting # Nobody
             /\ Then("connect") /\ UNCHANGED <<connecting, tries>>
          \/ /\ ~closed /\ client = "none" /\ connecting = Nobody
             /\ tries[c] = Over /\ Then("connect") /\ Start(c)
  /\ UNCHANGED <<host, client, late, sftp, closed>>

(* connectOnce() succeeds: everyone who waited has a client.  close() may   *)
(* have come while it was under way.                                       *)
Connected(c) ==
  /\ c \in Attempts /\ host = "up"
  /\ client' = "live" /\ connecting' = Nobody
  /\ tries' = [tries EXCEPT ![c] = Over]
  /\ call' = Answered([w \in Caller |-> [call[w] EXCEPT !.at = "use"]])
  /\ UNCHANGED <<host, late, sftp, closed>>

(* It fails, and is made again after a while. *)
Again(c) ==
  /\ c \in Attempts /\ host = "down" /\ ~closed /\ tries[c] < MaxRetries
  /\ tries' = [tries EXCEPT ![c] = @ + 1]
  /\ UNCHANGED <<host, client, late, connecting, call, sftp, closed>>

(* The last attempt fails, the login is refused, or close() came first:    *)
(* everyone who waited is told.                                            *)
GiveUp(c) ==
  /\ c \in Attempts
  /\ closed \/ host = "refuses" \/ (host = "down" /\ tries[c] = MaxRetries)
  /\ tries' = [tries EXCEPT ![c] = Over] /\ connecting' = Nobody
  /\ call' = Answered([w \in Caller |-> Idle])
  /\ UNCHANGED <<host, client, late, sftp, closed>>

-----------------------------------------------------------------------------
(* SshExecutor *)

(* exec(): a command on a live client ends; on a lost one it fails when    *)
(* the loss is noticed.                                                    *)
Exec(c) ==
  /\ call[c].at = "use" /\ ~call[c].file /\ client # "lost"
  /\ call' = [call EXCEPT ![c] = Idle]
  /\ UNCHANGED <<host, client, late, connecting, tries, sftp, closed>>

(* sftp(): the channel of the client there was first, or its refusal, is   *)
(* used from then on.                                                      *)
File(c) ==
  /\ call[c].at = "use" /\ call[c].file
  /\ sftp' = IF sftp # "none" THEN sftp ELSE IF client = "live" THEN "open" ELSE "failed"
  /\ call' = [call EXCEPT ![c] = Idle]
  /\ UNCHANGED <<host, client, late, connecting, tries, closed>>

(* SshConnectionPool.release(): an attempt under way runs on until it      *)
(* looks at closed.                                                        *)
Close ==
  /\ ~closed /\ closed' = TRUE /\ connecting' = Nobody /\ client' = "none"
  /\ UNCHANGED <<host, late, tries, call, sftp>>

-----------------------------------------------------------------------------
Init ==
  /\ host \in {"up", "down", "refuses"}
  /\ client = "none" /\ late = FALSE /\ connecting = Nobody
  /\ tries = [c \in Caller |-> Over] /\ call = [c \in Caller |-> Idle]
  /\ sftp = "none" /\ closed = FALSE

Next ==
  \/ \E h \in {"up", "down", "refuses"} : Change(h)
  \/ Notice \/ LateClose \/ Close
  \/ \E c \in Caller :
       \/ \E file \in BOOLEAN : Ask(c, file)
       \/ Connected(c) \/ Again(c) \/ GiveUp(c) \/ Exec(c) \/ File(c)

Spec == Init /\ [][Next]_vars

-----------------------------------------------------------------------------
TypeOK ==
  /\ host \in {"up", "down", "refuses"} /\ client \in {"none", "live", "lost"}
  /\ sftp \in {"none", "open", "failed"} /\ late \in BOOLEAN /\ closed \in BOOLEAN
  /\ connecting \in Caller \cup {Nobody} /\ tries \in [Caller -> 0 .. Over]
  /\ call \in [Caller -> [at : {"idle", "connect", "use"}, file : BOOLEAN]]

(* However many ask at once, one handshake is under way, and nobody waits  *)
(* when there is none: the attempt getClient() shares is always running,   *)
(* also after close() or the loss of the client.                           *)
OneHandshake ==
  /\ Cardinality(Attempts) <= 1
  /\ Waiting # {} => Attempts # {}
=============================================================================
