-------------------------------- MODULE Hlc --------------------------------
(***************************************************************************)
(* The hybrid logical clock of core/sync/revision.ts: the order of         *)
(* revisions, and what tick() and observe() do to a clock.                 *)
(*                                                                         *)
(* A clock is the HlcSnapshot [pt, lc] (physicalTimeMs, logicalCounter);   *)
(* a revision adds the writer.  Writer ids are strings compared with `<`;  *)
(* here they are natural numbers, which have the same total order.         *)
(* MaxCounter stands for Number.MAX_SAFE_INTEGER: the code throws rather   *)
(* than count past it, so an operation whose counter does not fit is not   *)
(* enabled.                                                                *)
(***************************************************************************)
EXTENDS Integers

CONSTANTS Instance,    \* writer instance ids
          MaxCounter   \* largest logical counter (Number.MAX_SAFE_INTEGER)

ASSUME InstanceAssumption == Instance \subseteq Nat
ASSUME MaxCounterAssumption == MaxCounter \in Nat

Clock == [pt : Nat, lc : 0 .. MaxCounter]
Revision == [pt : Nat, lc : 0 .. MaxCounter, w : Instance]

ZeroClock == [pt |-> 0, lc |-> 0]

(* Wrong on purpose: no tie-break between writers. *)
BeforeUntied(a, b) == a.pt < b.pt \/ (a.pt = b.pt /\ a.lc < b.lc)

(* compareSyncRevision(a, b) < 0. *)
Before(a, b) ==
  \/ a.pt < b.pt
  \/ a.pt = b.pt /\ a.lc < b.lc
  \/ a.pt = b.pt /\ a.lc = b.lc /\ a.w < b.w

(* The snapshot c is at or past the time and counter of d (a clock or a    *)
(* revision): whatever c issues next is after d.                           *)
Covers(c, d) == d.pt < c.pt \/ (d.pt = c.pt /\ d.lc <= c.lc)

(* The revision that clock c of instance i stands at. *)
Stamp(c, i) == [pt |-> c.pt, lc |-> c.lc, w |-> i]

(* tick(now). *)
TickFits(c, now) == now > c.pt \/ c.lc < MaxCounter
Tick(c, now) ==
  IF now > c.pt THEN [pt |-> now, lc |-> 0]
                ELSE [pt |-> c.pt, lc |-> c.lc + 1]

(* The clock after n >= 1 ticks that read the same physical time. *)
TicksFit(c, now, n) == TickFits(c, now) /\ Tick(c, now).lc + n - 1 <= MaxCounter
Ticks(c, now, n) == [Tick(c, now) EXCEPT !.lc = @ + n - 1]

Later(a, b) == IF a > b THEN a ELSE b

(* observe(remote, now). *)
ObserveTime(c, r, now) == Later(now, Later(c.pt, r.pt))
ObserveCounter(c, r, now) ==
  LET t == ObserveTime(c, r, now)
  IN  IF t = c.pt /\ t = r.pt THEN Later(c.lc, r.lc) + 1
      ELSE IF t = c.pt        THEN c.lc + 1
      ELSE IF t = r.pt        THEN r.lc + 1
      ELSE 0
ObserveFits(c, r, now) == ObserveCounter(c, r, now) <= MaxCounter
Observe(c, r, now) == [pt |-> ObserveTime(c, r, now),
                       lc |-> ObserveCounter(c, r, now)]
=============================================================================
