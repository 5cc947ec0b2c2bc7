--------------------------- MODULE SessionTransfer --------------------------
(***************************************************************************)
(* How one session's log gets from a source to a target while users of     *)
(* both go on appending to it: the coordinator compares manifests, fetches *)
(* the entry, if it can only the events the target has not got, and the    *)
(* target puts the two parts together before it imports the result.        *)
(*                                                                         *)
(* A log is read in pages between two looks at its revision, and read once *)
(* more when that has changed.  Logs only grow, so a log stands for its    *)
(* revision, its events for their digest.  What an import then does is     *)
(* SessionSync's; the side with the newer revision is called the source.   *)
(***************************************************************************)
EXTENDS Integers, Sequences

CONSTANTS FirstLogs,  \* pairs <<source, target>> of logs a run may begin with
          MaxEvents,  \* bound: events users append
          None        \* nothing yet

VARIABLES
  log,       \* log[side]: the committed events
  events,    \* events appended so far (bound); they are numbered
  at,        \* where the run is
  reader,    \* readStableSession() under way, or None
  manifest,  \* the logs the manifests speak of
  kept,      \* the source's log as kept with its manifest, or None
  whole,     \* the entry is fetched without a prefix
  bundle,    \* the fetched entry: [base, tail, full]; base None for all of it
  imported   \* the log that was imported, or None

vars == <<log, events, at, reader, manifest, kept, whole, bundle, imported>>

Side == {"source", "target"}
Step == {"list", "compare", "fetch", "expand", "applied", "skipped",
         "changing", "stale", "invalid"}

Prefix(a, b) == Len(a) <= Len(b) /\ SubSeq(b, 1, Len(a)) = a

UserAppends(side) ==
  /\ events < MaxEvents /\ events' = events + 1
  /\ log' = [log EXCEPT ![side] = Append(@, events + 1)]
  /\ UNCHANGED <<at, reader, manifest, kept, whole, bundle, imported>>

-----------------------------------------------------------------------------
(* readStableSession(): the log of a side, in two attempts *)

ReaderOf(side, attempt) ==
  [side |-> side, first |-> log[side], got |-> <<>>, ended |-> FALSE, attempt |-> attempt]

(* The side that the present step has to read.                             *)
Reads(side) ==
  /\ reader = None
  /\ \/ side = "source" /\ (at = "list" \/ (at = "fetch" /\ kept = None))
     \/ side = "target" /\ (at = "compare" \/ (at = "expand" /\ bundle.base # None))

Open(side) ==
  /\ Reads(side) /\ reader' = ReaderOf(side, 1)
  /\ UNCHANGED <<log, events, at, manifest, kept, whole, bundle, imported>>

(* The next page; a short one is the last.                                 *)
Page ==
  /\ reader # None /\ ~reader.ended
  /\ LET now == log[reader.side] IN
     reader' = IF Len(reader.got) < Len(now)
               THEN [reader EXCEPT !.got = Append(@, now[Len(@) + 1])]
               ELSE [reader EXCEPT !.ended = TRUE]
  /\ UNCHANGED <<log, events, at, manifest, kept, whole, bundle, imported>>

(* The revision has changed: once more, or 'session-changing'.             *)
Unstable ==
  /\ reader # None /\ reader.ended /\ log[reader.side] # reader.first
  /\ IF reader.attempt < 2 THEN reader' = ReaderOf(reader.side, 2) /\ UNCHANGED at
     ELSE reader' = None /\ at' = "changing"
  /\ UNCHANGED <<log, events, manifest, kept, whole, bundle, imported>>

Stable(side) == reader # None /\ reader.side = side /\ reader.ended /\ log[side] = reader.first

-----------------------------------------------------------------------------
(* The manifests *)

(* exportManifest() of the source; the entry's payload is kept with it,    *)
(* unless it is too large, or the manifest entry came from a cache.        *)
List ==
  /\ at = "list" /\ Stable("source")
  /\ manifest' = [manifest EXCEPT !.source = reader.got]
  /\ kept' \in {None, reader.got} /\ at' = "compare" /\ reader' = None
  /\ UNCHANGED <<log, events, whole, bundle, imported>>

(* exportManifest() of the target, then planSessionTransfers().            *)
Compare ==
  /\ at = "compare" /\ Stable("target")
  /\ manifest' = [manifest EXCEPT !.target = reader.got]
  /\ at' = IF reader.got = manifest.source THEN "skipped" ELSE "fetch"
  /\ reader' = None /\ UNCHANGED <<log, events, kept, whole, bundle, imported>>

-----------------------------------------------------------------------------
(* The entry *)

(* Wrong on purpose: the target's events are taken for the source's first. *)
WithEventTailUnchecked(entry, prefix) ==
  IF prefix # <<>> /\ Len(prefix) <= Len(entry)
  THEN [base |-> prefix, tail |-> SubSeq(entry, Len(prefix) + 1, Len(entry)), full |-> entry]
  ELSE [base |-> None, tail |-> entry, full |-> entry]

(* withEventTail(): without what the target has, if it has the same.       *)
WithEventTail(entry, prefix) ==
  IF prefix # <<>> /\ Prefix(prefix, entry)
  THEN [base |-> prefix, tail |-> SubSeq(entry, Len(prefix) + 1, Len(entry)), full |-> entry]
  ELSE [base |-> None, tail |-> entry, full |-> entry]

(* assertSelectedSessionEntries(): the entry is what the manifest said.    *)
Selected(entry) == entry = manifest.source

(* exportEntries(): from the manifest's payloads, even if the log has gone *)
(* on since, or read again.                                                *)
Fetched(entry) ==
  /\ bundle' = WithEventTail(entry, IF whole THEN <<>> ELSE manifest.target)
  /\ at' = IF Selected(entry) THEN "expand" ELSE "stale"
  /\ reader' = None /\ UNCHANGED <<log, events, manifest, whole, imported>>

FetchCached == at = "fetch" /\ kept # None /\ Fetched(kept) /\ UNCHANGED kept
FetchRead == at = "fetch" /\ Stable("source") /\ Fetched(reader.got) /\ UNCHANGED kept

(* The source evicts the payloads for those of later manifests.            *)
Evict ==
  /\ kept # None /\ kept' = None
  /\ UNCHANGED <<log, events, at, reader, manifest, whole, bundle, imported>>

-----------------------------------------------------------------------------
(* expandEventDeltas() and the import *)

Import(entry) == imported' = entry /\ at' = "applied"

ApplyWhole ==
  /\ at = "expand" /\ bundle.base = None /\ Import(bundle.tail)
  /\ UNCHANGED <<log, events, reader, manifest, kept, whole, bundle>>

(* On the base as it was, the tail must give the entry; on another base    *)
(* the entry is fetched again as a whole.                                  *)
ApplyDelta ==
  /\ at = "expand" /\ bundle.base # None /\ Stable("target") /\ reader' = None
  /\ IF reader.got # bundle.base THEN at' = "fetch" /\ whole' = TRUE /\ UNCHANGED imported
     ELSE /\ UNCHANGED whole
          /\ IF reader.got \o bundle.tail = bundle.full THEN Import(bundle.full)
             ELSE at' = "invalid" /\ UNCHANGED imported
  /\ UNCHANGED <<log, events, manifest, kept, bundle>>

-----------------------------------------------------------------------------
Init ==
  /\ \E p \in FirstLogs : log = [source |-> p[1], target |-> p[2]]
  /\ events = 0 /\ at = "list" /\ reader = None
  /\ manifest = [source |-> <<>>, target |-> <<>>]
  /\ kept = None /\ whole = FALSE /\ bundle = None /\ imported = None

Next ==
  \/ \E side \in Side : UserAppends(side) \/ Open(side)
  \/ Page \/ Unstable \/ List \/ Compare
  \/ FetchCached \/ FetchRead \/ Evict \/ ApplyWhole \/ ApplyDelta

Spec == Init /\ [][Next]_vars

-----------------------------------------------------------------------------
TypeOK ==
  /\ at \in Step /\ events \in 0..MaxEvents /\ whole \in BOOLEAN
  /\ \A side \in Side : Prefix(manifest[side], log[side])
  /\ reader = None \/ (reader.attempt \in 1..2 /\ Prefix(reader.got, log[reader.side]))
  /\ bundle = None \/ DOMAIN bundle = {"base", "tail", "full"}

(* What is imported is the log the source's manifest spoke of, whichever   *)
(* way it came and whatever both users did meanwhile: the revision it is   *)
(* recorded under has that content.  And on the base it was cut for a tail *)
(* always gives the entry: no run ends on a delta that fails its digest.   *)
AppliedAsPlanned ==
  /\ imported # None => imported = manifest.source
  /\ at # "invalid"
=============================================================================
