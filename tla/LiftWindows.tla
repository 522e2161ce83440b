---------------------------- MODULE LiftWindows -----------------------------
(***************************************************************************)
(* How many bowls come up within one lift window                           *)
(* (src/src/engine/lift.ts).  A lift table maps every instant at which     *)
(* bowls come up to how many do; the code's sorted list, added up.  A      *)
(* window is [x, x + Window).  p is a record of parameters with            *)
(*   arms  the arms of the staff,   lift  the lift interval in seconds.    *)
(***************************************************************************)
EXTENDS Integers, FiniteSetsExt, SequencesExt

CONSTANTS
  MillisPerSecond,
  HelperArms,       \* HELPER_ARMS: what one helper adds to the arms
  NoFit             \* null: no instant fits

ASSUME LiftAssumption ==
  /\ MillisPerSecond \in Nat \ {0}
  /\ HelperArms \in Nat
  /\ NoFit \notin Int

Window(p) == p.lift * MillisPerSecond

LiftCap(p) == p.arms + HelperArms

NoLifts == [t \in {} |-> 0]

LiftsAt(lifts, t) == IF t \in DOMAIN lifts THEN lifts[t] ELSE 0

Total(seq) ==
  LET sum[n \in 0..Len(seq)] == IF n = 0 THEN 0 ELSE sum[n - 1] + seq[n]
  IN  sum[Len(seq)]

LiftedAt(placements, t) ==
  Total([k \in DOMAIN placements |-> IF placements[k].serveAt = t THEN Len(placements[k].slots) ELSE 0])

\* advanceLifts with liftsOf: a placement comes up at its serveAt from all its slots.
AdvanceLifts(lifts, placements) ==
  [t \in DOMAIN lifts \cup {q.serveAt : q \in ToSet(placements)} |->
     LiftsAt(lifts, t) + LiftedAt(placements, t)]

\* What comes up in the window that opens at x.
LoadFrom(lifts, x, p) ==
  Total([k \in 1..Window(p) |-> LiftsAt(lifts, x + k - 1)])

\* originsContaining: the windows around t with the largest loads open at a lift, or at t.
Origins(lifts, t, p) == {x \in DOMAIN lifts : t - Window(p) < x /\ x <= t} \cup {t}

\* The largest load of a window around t, with `span` more at t.
LoadWith(lifts, t, span, p) == Max({LoadFrom(lifts, x, p) : x \in Origins(lifts, t, p)}) + span

\* scanWindows with a limit: the windows around t that have no room for `span` more.
Overloaded(lifts, t, span, p) ==
  {x \in Origins(lifts, t, p) : LoadFrom(lifts, x, p) > LiftCap(p) - span}

\* Mutant: the search jumps by a whole window.
MutFirstFit(lifts, t, span, p) ==
  LET fit[u \in Int] == IF Overloaded(lifts, u, span, p) = {} THEN u
                        ELSE fit[u + Window(p)]
  IN  IF span > LiftCap(p) THEN NoFit ELSE fit[t]

\* The first instant from t on where `span` more fit: the search jumps to the end of the
\* first full window.
FirstFit(lifts, t, span, p) ==
  LET fit[u \in Int] == IF Overloaded(lifts, u, span, p) = {} THEN u
                        ELSE fit[Min(Overloaded(lifts, u, span, p)) + Window(p)]
  IN  IF span > LiftCap(p) THEN NoFit ELSE fit[t]

\* One after the other, each on the table with those before it.
WithinLiftCap(lifts, placements, p) ==
  \A k \in DOMAIN placements :
    LoadWith(AdvanceLifts(lifts, SubSeq(placements, 1, k - 1)),
             placements[k].serveAt, Len(placements[k].slots), p) <= LiftCap(p)

\* Seconds of help: windows are laid from the first lift on, side by side.
LiftOverflow(lifts, p) ==
  LET over[from \in Int] ==
        LET rest == {t \in DOMAIN lifts : t >= from}
        IN  IF rest = {} THEN 0
            ELSE Max({0, LoadFrom(lifts, Min(rest), p) - p.arms}) + over[Min(rest) + Window(p)]
  IN  IF DOMAIN lifts = {} THEN 0 ELSE p.lift * over[Min(DOMAIN lifts)]
=============================================================================
