----------------------------- MODULE PlanScore ------------------------------
(***************************************************************************)
(* What a cooking plan costs (src/src/engine/objective.ts, stability.ts,   *)
(* recommend.ts).  A plan is a sequence of slices                          *)
(*   [tableKey, placements],                                               *)
(* a placement a record                                                    *)
(*   [order, index, slots, startAt, serveAt, anchor],                      *)
(* slots a sequence, anchor the end of the running bowl it joins or None.  *)
(* p holds the parameters [arms, ratio, lift, orderSync, tableSync,        *)
(* affinity, orderTol, affinityTol, at], with the place at[s] = <<x, y>> of *)
(* every kettle slot s.  What was shown last is a sequence of              *)
(*   [order, index, slots, startAt, serveAt, anchor, mates].               *)
(* ch is what a plan is compared with: [shown, running, now, pending].     *)
(***************************************************************************)
EXTENDS StoreEngine, LiftGroups, LiftWindows

CONSTANT SlotSpan     \* the kettle slots a bowl takes, by what the POS says of it

ASSUME PlanScoreAssumption == \A f \in DOMAIN SlotSpan : SlotSpan[f] \in Nat \ {0}

AbsDiff(a, b) == IF a < b THEN b - a ELSE a - b

\* boilMillisOf: None without a preset for the noodle.
BoilOf(item) == IF item.firmness \in DOMAIN BoilTime THEN BoilTime[item.firmness] ELSE None

SpanOf(item) == SlotSpan[item.firmness]

JoinWindow(boil, p) == (boil * p.ratio) \div 100

\* tableKeyOf: bowls of one table; an order without a table is one of its own.
TableKey(item) == IF item.table # None THEN <<1, item.table>> ELSE <<0, item.order>>

KeyBefore(k, l) == k[1] < l[1] \/ (k[1] = l[1] /\ k[2] < l[2])

PlacementsOf(slices) == FlattenSeq([k \in DOMAIN slices |-> slices[k].placements])

PlacedKeys(slices) == {Key(q) : q \in ToSet(PlacementsOf(slices))}

FindItem(items, q) == CHOOSE i \in items : Key(i) = Key(q)

HasItem(items, q) == \E i \in items : Key(i) = Key(q)

OccupiedBy(running) == UNION {t.slots : t \in running}

\* tableMembers: the ends of the running bowls of a table, ascending.
MemberEnds(running, tableKey) ==
  LET of(t) == t.item # None /\ t.table # None /\ <<1, t.table>> = tableKey
  IN  SetToSortSeq({<<AdjustedEnd(t), t.seq>> : t \in {u \in running : of(u)}},
                   LAMBDA a, b : a[1] < b[1] \/ (a[1] = b[1] /\ a[2] < b[2]))

Siblings(running, tableKey) ==
  LET ends == MemberEnds(running, tableKey) IN [k \in DOMAIN ends |-> ends[k][1]]

\* initialLifts: a running bowl comes up at its end from all its slots.
InitialLifts(running) ==
  [t \in {AdjustedEnd(r) : r \in running} |->
     MapThenSumSet(LAMBDA r : Cardinality(r.slots), {r \in running : AdjustedEnd(r) = t})]

-----------------------------------------------------------------------------
(* recommend and shownPlanOf: a slice's lift groups.                       *)

GroupOf(k, q) == IF q.anchor # None THEN <<k, "anchor", q.anchor>> ELSE <<k, "serve", q.serveAt>>

\* recommend: every placement of the plan, with the group it comes up with.
Recommend(slices) ==
  UNION {{[order |-> q.order, index |-> q.index, slots |-> q.slots, startAt |-> q.startAt,
           group |-> GroupOf(k, q), anchor |-> q.anchor] : q \in ToSet(slices[k].placements)} :
           k \in DOMAIN slices}

Mates(slices, k, q) ==
  {Key(r) : r \in {s \in ToSet(slices[k].placements) : GroupOf(k, s) = GroupOf(k, q)}} \ {Key(q)}

\* What clients were shown, each bowl with those of its group.
ShownPlanOf(slices) ==
  FlattenSeq([k \in DOMAIN slices |->
    [j \in DOMAIN slices[k].placements |->
      LET q == slices[k].placements[j]
      IN  [order |-> q.order, index |-> q.index, slots |-> q.slots, startAt |-> q.startAt,
           serveAt |-> q.serveAt, anchor |-> q.anchor, mates |-> Mates(slices, k, q)]]])

Entry(item, q, group) ==
  [item |-> item, slots |-> q.slots, startAt |-> q.startAt, group |-> group,
   anchor |-> q.anchor, boil |-> BoilOf(item)]

Plannable(q, ch) == HasItem(ch.pending, q) /\ BoilOf(FindItem(ch.pending, q)) # None

\* shownItemsOf: what was shown and still waits, grouped as it was.
ShownEntries(ch) ==
  {Entry(FindItem(ch.pending, s), s, {Key(s)} \cup s.mates) :
     s \in {r \in ToSet(ch.shown) : Plannable(r, ch)}}

\* nextItemsOf
NextEntries(slices, ch) ==
  UNION {{Entry(FindItem(ch.pending, q), q, GroupOf(k, q)) :
            q \in {r \in ToSet(slices[k].placements) : Plannable(r, ch)}} : k \in DOMAIN slices}

HeadsAmong(entries, ch, p) ==
  HeadsOf(VisibleGroups(LiftGroupsOf(entries), ch.now), OccupiedBy(ch.running), ch.now, p.arms)

ShownHeads(ch, p) == HeadsAmong(ShownEntries(ch), ch, p)

-----------------------------------------------------------------------------
(* The cost of changing what is shown, in seconds.                         *)

\* One bowl: no longer at the head, on other slots, at another time; changes far ahead
\* cost less.
MoveCost(old, new, oldHeads, newHeads, ch, p) ==
  LET key   == Key(old.item)
      delta == AbsDiff(new.startAt, old.startAt)
      far   == Max({0, old.startAt - ch.now}) \div Window(p)
      windows == (delta + Window(p) - 1) \div Window(p)
  IN  (IF key \in oldHeads /\ key \notin newHeads THEN 2 * p.lift ELSE 0)
      + (IF ToSet(old.slots) # ToSet(new.slots) THEN p.lift ELSE 0)
      + (IF delta > JoinWindow(old.boil, p) THEN (windows * p.lift) \div (far + 1) ELSE 0)

\* Two bowls: no longer together, or the other way round.
PairCost(oldA, newA, oldB, newB, p) ==
  LET swapped == \/ oldA.startAt < oldB.startAt /\ newA.startAt > newB.startAt
                 \/ oldA.startAt > oldB.startAt /\ newA.startAt < newB.startAt
  IN  (IF oldA.group = oldB.group /\ newA.group # newB.group THEN p.lift ELSE 0)
      + (IF swapped THEN p.lift ELSE 0)

\* costBetween: all that is in both plans; heads are taken from headEntries.
CostBetween(old, new, headEntries, ch, p) ==
  LET both  == {e \in old : \E f \in new : Key(f.item) = Key(e.item)}
      now(e) == CHOOSE f \in new : Key(f.item) = Key(e.item)
      oldHeads == HeadsAmong(old, ch, p)
      newHeads == HeadsAmong(headEntries, ch, p)
      pairs == {c \in both \X both : ArrivesBefore(c[1].item, c[2].item)}
  IN  IF both = {} THEN 0
      ELSE MapThenSumSet(LAMBDA e : MoveCost(e, now(e), oldHeads, newHeads, ch, p), both)
           + MapThenSumSet(LAMBDA c : PairCost(c[1], now(c[1]), c[2], now(c[2]), p), pairs)

\* changeCost
ChangeCost(slices, ch, p) ==
  IF ch.shown = <<>> THEN 0
  ELSE CostBetween(ShownEntries(ch), NextEntries(slices, ch), NextEntries(slices, ch), ch, p)

AsShown(s) == [order |-> s.order, index |-> s.index, slots |-> s.slots,
               startAt |-> s.startAt, serveAt |-> s.serveAt, anchor |-> s.anchor]

WithShown(acc, last, q, tableKey) ==
  LET of == {k \in Max({last, 1})..Len(acc) : acc[k].tableKey = tableKey}
  IN  IF of = {} THEN Append(acc, [tableKey |-> tableKey, placements |-> <<q>>])
      ELSE [acc EXCEPT ![Min(of)].placements = Append(@, q)]

\* completeWithShown: what is not placed yet is taken where it was shown; of the table in
\* hand into the last slice, of the others into slices behind it.
CompleteWithShown(slices, ch) ==
  FoldLeft(LAMBDA acc, s : WithShown(acc, Len(slices), AsShown(s), TableKey(FindItem(ch.pending, s))),
           slices, SelectSeq(ch.shown, LAMBDA s : Key(s) \notin PlacedKeys(slices) /\ HasItem(ch.pending, s)))

\* partialChangeCost: the cost of the bowls placed so far, the heads taken of the whole.
CostAmong(all, placed, ch, p) ==
  CostBetween(ShownEntries(ch), {e \in all : Key(e.item) \in placed}, all, ch, p)

PartialChangeCost(slices, ch, p) ==
  IF ch.shown = <<>> THEN 0
  ELSE CostAmong(NextEntries(CompleteWithShown(slices, ch), ch), PlacedKeys(slices), ch, p)

-----------------------------------------------------------------------------
(* The business cost of a plan, in seconds.                                *)

WholeSeconds(t) == t \div MillisPerSecond

CeilSeconds(t) == (t + MillisPerSecond - 1) \div MillisPerSecond

\* slotDistance: octile, ten for a straight step and fourteen for a diagonal one.
Octile(steps) == 10 * Max(steps) + 4 * Min(steps)

Distance(s, t, p) == Octile({AbsDiff(p.at[s][k], p.at[t][k]) : k \in 1..2})

\* representativeSlot: the nearest to the front, then to the left.
RepresentativeSlot(q, p) ==
  LET before(s, t) == \/ p.at[s][2] < p.at[t][2]
                      \/ p.at[s][2] = p.at[t][2] /\ p.at[s][1] < p.at[t][1]
                      \/ p.at[s] = p.at[t] /\ s < t
  IN  CHOOSE s \in ToSet(q.slots) : \A t \in ToSet(q.slots) \ {s} : before(s, t)

\* waitSeconds: what no longer waits does not count.
WaitSeconds(placements, pending) ==
  LET wait(q) == IF HasItem(pending, q) THEN WholeSeconds(q.serveAt - FindItem(pending, q).arrival) ELSE 0
  IN  Total([k \in DOMAIN placements |-> wait(placements[k])])

\* tableLagSeconds: every bowl of the table, running ones too, waits for the last.
TableLagSeconds(placements, memberEnds) ==
  LET serves == [k \in DOMAIN placements |-> placements[k].serveAt] \o memberEnds
  IN  Total([k \in DOMAIN serves |-> CeilSeconds(Max(ToSet(serves)) - serves[k])])

OrderExcessSeconds(placements, p) ==
  LET serves(o) == {q.serveAt : q \in {r \in ToSet(placements) : r.order = o}}
  IN  MapThenSumSet(LAMBDA o : Max({0, WholeSeconds(Max(serves(o)) - Min(serves(o))) - p.orderTol}),
                    {q.order : q \in ToSet(placements)})

AffinityExcess(placements, p) ==
  MapThenSumSet(LAMBDA c : Max({0, Distance(RepresentativeSlot(placements[c[1]], p),
                                            RepresentativeSlot(placements[c[2]], p), p) - p.affinityTol}),
                {c \in (DOMAIN placements) \X (DOMAIN placements) : c[1] < c[2]})

\* scoreSlice
SliceScore(slice, pending, running, p) ==
  WaitSeconds(slice.placements, pending)
  + p.tableSync * TableLagSeconds(slice.placements, Siblings(running, slice.tableKey))
  + p.orderSync * OrderExcessSeconds(slice.placements, p)
  + p.affinity * AffinityExcess(slice.placements, p)

\* scoreSchedule: the slices one by one, the help needed at the lifts, the change.
ScoreTotal(slices, pending, running, lifts, ch, p) ==
  Total([k \in DOMAIN slices |-> SliceScore(slices[k], pending, running, p)])
  + LiftOverflow(AdvanceLifts(lifts, PlacementsOf(slices)), p)
  + (IF ch = None THEN 0 ELSE ChangeCost(slices, ch, p))
=============================================================================
