----------------------------- MODULE RemoteFiles ----------------------------
(***************************************************************************)
(* Reading, writing and editing one file of a node, by several callers at  *)
(* once, through an SSH world or a container's.                            *)
(*                                                                         *)
(* Over SSH a file is written to a temporary name and renamed; the name is *)
(* made of the process and the millisecond, so two writes that begin in    *)
(* one millisecond share it.  In a container the shell truncates the file  *)
(* and fills it, and nobody looks at its exit code.  Neither looks at the  *)
(* version a caller expects: an edit replaces what it has just read.       *)
(*                                                                         *)
(* A text is a sequence of words; Part is a file that is partly written.   *)
(* A file carries the callers that have it open for writing, so that one   *)
(* that was renamed is still filled by its writers.                        *)
(***************************************************************************)
EXTENDS Naturals, Sequences, FiniteSets

CONSTANTS Caller,   \* concurrent operations
          Word,     \* words a text is made of
          Given,    \* texts to begin with and to write
          MaxMs     \* bound on the clock

VARIABLES
  world,  \* "ssh" or "docker"
  target, \* the file
  temp,   \* temp[t]: the temporary file of millisecond t, or NoFile
  now,    \* the clock
  op,     \* op[c]: the operation of c
  clash   \* two writes have shared a temporary file

vars == <<world, target, temp, now, op, clash>>

Part == <<>>
NoFile == [text |-> Part, writers |-> {"none"}]
Edit == [old : Word, new : Word, all : BOOLEAN]
Idle == [step |-> "idle"]

Is(c, step) == op[c].step = step
Becomes(c, o) == op' = [op EXCEPT ![c] = o]
Still == UNCHANGED <<world, now>>

-----------------------------------------------------------------------------
(* The same in both worlds *)

(* writeText() looks at the file and writes what it is given.              *)
WriteText(c, text) ==
  /\ Is(c, "idle")
  /\ Becomes(c, [step |-> "write", text |-> text])
  /\ Still /\ UNCHANGED <<target, temp, clash>>

Matches(text, old) == {i \in DOMAIN text : text[i] = old}

Edited(text, e) == [i \in DOMAIN text |-> IF text[i] = e.old THEN e.new ELSE text[i]]

(* editText() reads the file; the words to replace must be there, and only *)
(* once unless all of them are meant.  Then it writes.                     *)
EditText(c, e) ==
  /\ Is(c, "idle")
  /\ Matches(target.text, e.old) # {}
  /\ e.all \/ Cardinality(Matches(target.text, e.old)) = 1
  /\ Becomes(c, [step |-> "write", text |-> Edited(target.text, e)])
  /\ Still /\ UNCHANGED <<target, temp, clash>>

-----------------------------------------------------------------------------
(* SshExecutor.writeFile() *)

(* Wrong on purpose: the file itself is opened.                            *)
OpenInPlace(c) ==
  /\ world = "ssh" /\ Is(c, "write")
  /\ target' = [text |-> Part, writers |-> target.writers \cup {c}]
  /\ temp' = [temp EXCEPT ![now] = target']
  /\ Becomes(c, [step |-> "fill", text |-> op[c].text, at |-> now])
  /\ Still /\ UNCHANGED clash

(* The temporary file of this millisecond is created, or truncated.        *)
Open(c) ==
  /\ world = "ssh" /\ Is(c, "write")
  /\ LET others == IF temp[now] = NoFile THEN {} ELSE temp[now].writers IN
     temp' = [temp EXCEPT ![now] = [text |-> Part, writers |-> others \cup {c}]]
  /\ clash' = (clash \/ temp[now] # NoFile)
  /\ Becomes(c, [step |-> "fill", text |-> op[c].text, at |-> now])
  /\ Still /\ UNCHANGED target

(* What a file that c fills holds once c closes it.                        *)
Filled(f, c) ==
  IF c \notin f.writers THEN {f}
  ELSE {[text |-> t, writers |-> f.writers \ {c}] :
          t \in IF f.writers = {c} THEN {op[c].text} ELSE {Part, op[c].text}}

(* The writer fills the file it opened, under whatever name that is now.   *)
Fill(c) ==
  /\ Is(c, "fill")
  /\ target' \in Filled(target, c)
  /\ \E f \in Filled(temp[op[c].at], c) : temp' = [temp EXCEPT ![op[c].at] = f]
  /\ Becomes(c, [op[c] EXCEPT !.step = "rename"])
  /\ Still /\ UNCHANGED clash

(* The temporary file takes the file's name, if it is still there.         *)
Rename(c) ==
  /\ Is(c, "rename")
  /\ IF temp[op[c].at] = NoFile THEN UNCHANGED <<target, temp>>
     ELSE target' = temp[op[c].at] /\ temp' = [temp EXCEPT ![op[c].at] = NoFile]
  /\ Becomes(c, Idle)
  /\ Still /\ UNCHANGED clash

(* The connection or the node's disk fails; the temporary file stays.      *)
Break(c) ==
  /\ op[c].step \in {"fill", "rename"}
  /\ temp' = [temp EXCEPT ![op[c].at].writers = @ \ {c}]
  /\ target' = [target EXCEPT !.writers = @ \ {c}]
  /\ Becomes(c, Idle)
  /\ Still /\ UNCHANGED clash

-----------------------------------------------------------------------------
(* DockerClient.writeFile(), RemoteDockerCli.writeFile() *)

(* The shell opens the file, and so truncates it.                          *)
Truncate(c) ==
  /\ world = "docker" /\ Is(c, "write")
  /\ target' = [text |-> Part, writers |-> target.writers \cup {c}]
  /\ Becomes(c, [op[c] EXCEPT !.step = "pipe"])
  /\ Still /\ UNCHANGED <<temp, clash>>

(* It ends, having written everything or not: the caller hears of success. *)
Piped(c) ==
  /\ Is(c, "pipe")
  /\ target' \in Filled(target, c) \cup {[target EXCEPT !.writers = @ \ {c}]}
  /\ Becomes(c, Idle)
  /\ Still /\ UNCHANGED <<temp, clash>>

-----------------------------------------------------------------------------
Tick ==
  /\ now < MaxMs /\ now' = now + 1
  /\ UNCHANGED <<world, target, temp, op, clash>>

Init ==
  /\ world \in {"ssh", "docker"}
  /\ target \in [text : Given, writers : {{}}]
  /\ temp = [t \in 0 .. MaxMs |-> NoFile] /\ now = 0
  /\ op = [c \in Caller |-> Idle] /\ clash = FALSE

Next ==
  \/ \E c \in Caller :
       \/ \E text \in Given : WriteText(c, text)
       \/ \E e \in Edit : EditText(c, e)
       \/ Open(c) \/ Fill(c) \/ Rename(c) \/ Break(c) \/ Truncate(c) \/ Piped(c)
  \/ Tick

Spec == Init /\ [][Next]_vars

-----------------------------------------------------------------------------
TypeOK ==
  /\ target.text \in Seq(Word) /\ target.writers \subseteq Caller
  /\ now \in 0 .. MaxMs /\ clash \in BOOLEAN
  /\ \A t \in 0 .. MaxMs :
       \/ temp[t] = NoFile
       \/ temp[t].text \in Seq(Word) /\ temp[t].writers \subseteq Caller

(* Over SSH the file is whole at every moment, while others write it and   *)
(* when the connection breaks in the middle of a write ("atomic write",    *)
(* docs/spec/design.md, line 142), unless two writes began in the same     *)
(* millisecond.                                                            *)
WholeOverSsh == world = "ssh" /\ ~clash => target.text # Part
=============================================================================
