----------------------------- MODULE HlcProofs -----------------------------
(***************************************************************************)
(* What the rest of the development uses of the hybrid logical clock, for  *)
(* every clock, revision and time: the order is a strict total order, and  *)
(* both operations leave a clock that has strictly passed everything it    *)
(* had issued or seen.                                                     *)
(***************************************************************************)
EXTENDS Hlc, TLAPS

(* compareSyncRevision is transitive. *)
LEMMA BeforeTransitive ==
  ASSUME NEW a \in Revision, NEW b \in Revision, NEW c \in Revision,
         Before(a, b), Before(b, c)
  PROVE  Before(a, c)
<1>1. a.w \in Nat /\ b.w \in Nat /\ c.w \in Nat
  BY InstanceAssumption DEF Revision
<1>2. QED
  BY <1>1 DEF Before, Revision

(* compareSyncRevision never puts a revision before itself. *)
LEMMA BeforeIrreflexive ==
  ASSUME NEW a \in Revision
  PROVE  ~Before(a, a)
<1>1. a.w \in Nat
  BY InstanceAssumption DEF Revision
<1>2. QED
  BY <1>1 DEF Before, Revision

(* Two revisions that neither precede the other are the same revision: the *)
(* writer id breaks every tie, so last-writer-wins always has one winner.  *)
THEOREM BeforeTotal ==
  ASSUME NEW a \in Revision, NEW b \in Revision
  PROVE  Before(a, b) \/ Before(b, a) \/ a = b
<1>1. a.w \in Nat /\ b.w \in Nat
  BY InstanceAssumption DEF Revision
<1>2. QED
  BY <1>1 DEF Before, Revision

(* Covering is transitive. *)
LEMMA CoversTransitive ==
  ASSUME NEW a \in Clock, NEW b \in Clock, NEW d \in Clock \cup Revision,
         Covers(a, b), Covers(b, d)
  PROVE  Covers(a, d)
BY DEF Covers, Clock, Revision

(* A clock covers itself. *)
LEMMA CoversReflexive ==
  ASSUME NEW c \in Clock
  PROVE  Covers(c, c)
BY DEF Covers, Clock

(* tick() returns a clock, and one strictly after the clock it started     *)
(* from: two revisions of one writer never coincide.                       *)
THEOREM TickAdvances ==
  ASSUME NEW c \in Clock, NEW now \in Nat, TickFits(c, now)
  PROVE  /\ Tick(c, now) \in Clock
         /\ Covers(Tick(c, now), c)
         /\ ~Covers(c, Tick(c, now))
BY MaxCounterAssumption DEF Tick, TickFits, Covers, Clock

(* The same for a run of n ticks at one reading of the physical time, and  *)
(* a longer run ends strictly later than a shorter one.                    *)
LEMMA TicksAdvance ==
  ASSUME NEW c \in Clock, NEW now \in Nat, NEW n \in Nat, n >= 1,
         TicksFit(c, now, n)
  PROVE  /\ Ticks(c, now, n) \in Clock
         /\ Ticks(c, now, n).pt = Tick(c, now).pt
         /\ Ticks(c, now, n).lc = Tick(c, now).lc + n - 1
         /\ Covers(Ticks(c, now, n), c)
         /\ ~Covers(c, Ticks(c, now, n))
BY MaxCounterAssumption DEF Ticks, TicksFit, Tick, TickFits, Covers, Clock

(* A revision stamped by a clock that has strictly passed d is after d,    *)
(* whoever wrote d.                                                        *)
LEMMA StampAfter ==
  ASSUME NEW c \in Clock, NEW i \in Instance, NEW d \in Revision,
         Covers(c, d), ~(c.pt = d.pt /\ c.lc = d.lc)
  PROVE  Before(d, Stamp(c, i))
BY DEF Before, Covers, Stamp, Clock, Revision

(* observe() returns a clock that has strictly passed both the clock it    *)
(* started from and the remote revision: a later local change is ordered   *)
(* after everything the instance has received.                             *)
THEOREM ObserveAdvances ==
  ASSUME NEW c \in Clock, NEW r \in Revision, NEW now \in Nat,
         ObserveFits(c, r, now)
  PROVE  /\ Observe(c, r, now) \in Clock
         /\ Covers(Observe(c, r, now), c)
         /\ ~Covers(c, Observe(c, r, now))
         /\ Covers(Observe(c, r, now), r)
         /\ ~(Observe(c, r, now).pt = r.pt /\ Observe(c, r, now).lc = r.lc)
BY MaxCounterAssumption
   DEF Observe, ObserveTime, ObserveCounter, ObserveFits, Later, Covers, Clock, Revision
=============================================================================
