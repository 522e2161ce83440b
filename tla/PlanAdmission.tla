--------------------------- MODULE PlanAdmission ----------------------------
(***************************************************************************)
(* Which plans a store follows (src/src/engine/commit.ts, admit.ts): an    *)
(* arrived plan is adopted slice by slice if it passes the tests and beats *)
(* what the store has; what was adopted is followed while it passes them,  *)
(* and the store plans the rest itself.  p.planner is "ts" or "cpsat": of  *)
(* the latter a plan is not measured against the store's own and need not  *)
(* hold every bowl of a table.                                             *)
(***************************************************************************)
EXTENDS PlanRules

CONSTANT
  OwnPlan(_)        \* baselineSchedule, the plan the store makes by itself from a Planning

IsCpsat(p) == p.planner = "cpsat"

-----------------------------------------------------------------------------
(* committedSchedule: the adopted slices that hold, and a plan of the rest. *)

\* Mutant: whether the bowls still wait is not asked.
MutLiveTest(slice, acc, targets, running, now, p) ==
  /\ ~CannotStart(slice, now, OccupiedBy(running))
  /\ KeepsAnchor(slice.placements, acc.release, acc.lifts, Siblings(running, slice.tableKey), targets, p)
  /\ WithinLiftCap(acc.lifts, slice.placements, p)

\* What an adopted slice has to pass still. Whether its slots are free is not asked again.
LiveTest(slice, acc, targets, running, now, p) ==
  /\ ~IsStale(slice, targets, ~IsCpsat(p))
  /\ ~CannotStart(slice, now, OccupiedBy(running))
  /\ KeepsAnchor(slice.placements, acc.release, acc.lifts, Siblings(running, slice.tableKey), targets, p)
  /\ WithinLiftCap(acc.lifts, slice.placements, p)

Extended(acc, slice) ==
  [acc EXCEPT !.slices = Append(@, slice), !.release = AdvanceRelease(@, slice.placements),
              !.lifts = AdvanceLifts(@, slice.placements)]

\* livePrefix: up to the first slice that fails.  Of a CP-SAT slice the bowls that are
\* still planned are enough.
FollowNext(acc, slice, targets, running, now, p) ==
  IF acc.cut \/ slice.placements = <<>> THEN acc
  ELSE IF LiveTest(slice, acc, targets, running, now, p) THEN Extended(acc, slice)
  ELSE [acc EXCEPT !.cut = TRUE]

NoSlices(running, now, p) ==
  [slices |-> <<>>, release |-> InitialRelease(running, now, p), lifts |-> InitialLifts(running), cut |-> FALSE]

LivePrefix(accepted, targets, running, now, p) ==
  FoldLeft(LAMBDA acc, slice :
             FollowNext(acc, IF IsCpsat(p) THEN RetainedSlice(slice, targets) ELSE slice, targets, running, now, p),
           NoSlices(running, now, p), accepted)

\* A CP-SAT plan nobody followed is moved later as a whole.
\* Mutant: the plan stays where it is.
MutSlid(accepted, now, p) == accepted

Slid(accepted, now, p) == IF IsCpsat(p) THEN Retimed(accepted, now, Infinite) ELSE accepted

Followed(accepted, pending, running, p, now) ==
  LivePrefix(Slid(accepted, now, p), PlaceableTargets(pending, now, p), running, now, p)

\* What the store's own plan of the rest is made from.
RestAfter(live, pending, running, p, now, ch) ==
  Planning({i \in ToSet(PlaceableTargets(pending, now, p)) : Key(i) \notin PlacedKeys(live.slices)},
           live.release, running, live.lifts, p, now, ch)

RestPlanning(accepted, pending, running, p, now, ch) ==
  RestAfter(Followed(accepted, pending, running, p, now), pending, running, p, now, ch)

WithRest(live, pending, running, p, now, ch) ==
  live.slices \o IF IsCpsat(p) THEN <<>> ELSE OwnPlan(RestAfter(live, pending, running, p, now, ch))

CommittedSchedule(accepted, pending, running, p, now, ch) ==
  WithRest(Followed(accepted, pending, running, p, now), pending, running, p, now, ch)

-----------------------------------------------------------------------------
(* prune: what of an arrived plan can be adopted.                          *)

Passes(slice, acc, targets, running, p) ==
  /\ \A k \in DOMAIN acc.slices : acc.slices[k].tableKey # slice.tableKey
  /\ ~IsStale(slice, targets, ~IsCpsat(p))
  /\ KeepsAnchor(slice.placements, acc.release, acc.lifts, Siblings(running, slice.tableKey), targets, p)
  /\ WithinLiftCap(acc.lifts, slice.placements, p)
  /\ FeasibleRelease(slice.placements, acc.release, targets) # None

\* The table's slice in the committed plan, the last one if there are two.
Corresponding(committed, tableKey) ==
  LET of == {k \in DOMAIN committed : committed[k].tableKey = tableKey}
  IN  IF of = {} THEN None ELSE committed[Max(of)]

Improves(slice, committed, pending, running, p) ==
  LET current == Corresponding(committed, slice.tableKey)
  IN  current # None /\ SliceScore(slice, pending, running, p) < SliceScore(current, pending, running, p)

\* Slices are taken up to the first that fails; of a CP-SAT plan each that passes.
TakeNext(acc, slice, committed, pending, running, now, p) ==
  IF acc.cut THEN acc
  ELSE IF ~Passes(slice, acc, PlaceableTargets(pending, now, p), running, p) THEN [acc EXCEPT !.cut = ~IsCpsat(p)]
  ELSE IF ~IsCpsat(p) /\ ~Improves(slice, committed, pending, running, p) THEN [acc EXCEPT !.cut = TRUE]
  ELSE Extended(acc, slice)

Prune(arrived, committed, pending, running, now, p) ==
  FoldLeft(LAMBDA acc, slice : TakeNext(acc, slice, committed, pending, running, now, p),
           NoSlices(running, now, p), arrived).slices

Beats(composed, committed, pending, running, ch, p) ==
  LET total(slices) == ScoreTotal(slices, pending, running, InitialLifts(running), ch, p)
  IN  total(composed) < total(committed)

\* Of the store's own planner what is taken has to make the whole plan better.
Taken(prefix, committed, pending, running, ch, now, p) ==
  IF \/ prefix = <<>> \/ IsCpsat(p)
     \/ Beats(CommittedSchedule(prefix, pending, running, p, now, ch), committed, pending, running, ch, p)
  THEN prefix ELSE <<>>

Refused(corrected, arrived, running, now, p) ==
  \/ corrected = None
  \/ /\ IsCpsat(p) /\ Late(arrived, now) > 0
     /\ \E k \in DOMAIN corrected : CannotStart(corrected[k], now, OccupiedBy(running))

AdmitCorrected(corrected, arrived, committed, pending, running, shown, now, p) ==
  IF Refused(corrected, arrived, running, now, p) THEN <<>>
  ELSE Taken(Prune(corrected, committed, pending, running, now, p), committed, pending, running,
             [shown |-> shown, running |-> running, now |-> now, pending |-> pending], now, p)

\* admit: the slices to follow from now on, none if the plan is refused.
Admit(arrived, committed, pending, running, shown, now, p) ==
  AdmitCorrected(IF IsCpsat(p) THEN Retimed(arrived, now, MaxRetime) ELSE arrived,
                 arrived, committed, pending, running, shown, now, p)
=============================================================================
