--------------------------- MODULE MCPlannedStore ---------------------------
(***************************************************************************)
(* Instances of PlannedStore for model checking, with PlanSchedule's       *)
(* BaselineSchedule as the store's own plan.                               *)
(***************************************************************************)
EXTENDS PlannedStore, PlanSchedule

Line(index, firmness, table) == [index |-> index, firmness |-> firmness, table |-> table]

Place == [s \in 1..2 |-> <<s, 0>>]
Place3 == [s \in 1..3 |-> <<s, 0>>]

Setting(arms, lift, planner, at) ==
  [arms |-> arms, ratio |-> 50, lift |-> lift, orderSync |-> 1, tableSync |-> 1, affinity |-> 1,
   orderTol |-> 0, affinityTol |-> 0, at |-> at, planner |-> planner]

\* With the store's own planner its settings may change between one arm and two.
PlansAhead ==
  {Setting(arms, 1, "ts", Place) : arms \in 1..2} \cup {Setting(1, 2, "cpsat", Place3)}

Span2 == [soft |-> 2, hard |-> 1]
BoilFar == [soft |-> 6, hard |-> 1]

LongThenShort == 1 :> {Line(1, "soft", 1)} @@ 2 :> {Line(1, "hard", 2)}
AdHocBoth == {<<{1}, 1>>, <<{3}, 9>>}
Moves == {<<<<1, 1>>, 2>>}

\* The bounds; the plans of CP-SAT start as early as they can.
SpreadAhead == [ts |-> 1, cpsat |-> 0]
TimeAhead == [ts |-> 1, cpsat |-> 3]
EventsAhead == [ts |-> 3, cpsat |-> 2]
=============================================================================
