---------------------------- MODULE PlanSchedule ----------------------------
(***************************************************************************)
(* The store's own plan as a whole (src/src/engine/schedule.ts): the plan  *)
(* shown before, restored where it still holds, or one made anew; what     *)
(* starts now gets kettles that are really clear.                          *)
(***************************************************************************)
EXTENDS PlanBaseline

ContinuityOf(seed, slices) ==
  IF seed = None THEN None
  ELSE [ch |-> seed.ch, heads |-> seed.heads, slices |-> slices, tableKey |-> None, placed |-> <<>>]

-----------------------------------------------------------------------------
(* A plan made anew, table by table in order of arrival.                   *)

TableGroups(targets) ==
  LET bowlsOf(k) == SelectSeq(targets, LAMBDA i : TableKey(i) = k)
      before(k, l) == \/ bowlsOf(k)[1].arrival < bowlsOf(l)[1].arrival
                      \/ bowlsOf(k)[1].arrival = bowlsOf(l)[1].arrival /\ KeyBefore(k, l)
      keys == SetToSortSeq({TableKey(targets[n]) : n \in DOMAIN targets}, before)
  IN  [n \in DOMAIN keys |-> [tableKey |-> keys[n], items |-> bowlsOf(keys[n])]]

\* Mutant: the next table does not see the kettles taken.
MutGrown(acc, tableKey, placements) ==
  IF placements = <<>> THEN acc
  ELSE [acc EXCEPT !.slices = Append(@, [tableKey |-> tableKey, placements |-> placements]),
                   !.lifts = AdvanceLifts(@, placements)]

\* A plan as far as it is made, with the two tables after it.
Grown(acc, tableKey, placements) ==
  IF placements = <<>> THEN acc
  ELSE [acc EXCEPT !.slices = Append(@, [tableKey |-> tableKey, placements |-> placements]),
                   !.release = AdvanceRelease(@, placements),
                   !.lifts = AdvanceLifts(@, placements)]

Added(acc, g, pl, before) ==
  Grown(acc, g.tableKey,
        PlaceGroup(g.items, g.tableKey, acc.release, acc.lifts, Siblings(pl.running, g.tableKey),
                   pl.p, ContinuityOf(pl.seed, before \o acc.slices), <<>>))

RECURSIVE AddedAll(_, _, _, _)

AddedAll(acc, groups, pl, before) ==
  IF groups = <<>> THEN acc ELSE AddedAll(Added(acc, Head(groups), pl, before), Tail(groups), pl, before)

BuildSchedule(pl, targets, release, lifts, before) ==
  AddedAll([slices |-> <<>>, release |-> release, lifts |-> lifts], TableGroups(targets), pl, before).slices

-----------------------------------------------------------------------------
(* A plan tested slice by slice; what fails is made anew in its place.     *)

\* The bowls of the table that were shown waiting and run now.
StartedSiblings(pl, tableKey) ==
  LET started == {t \in pl.running : /\ t.item # None /\ t.table # None /\ <<1, t.table>> = tableKey
                                     /\ \E s \in ToSet(pl.seed.ch.shown) : Key(s) = t.item}
      ends == SetToSortSeq({<<AdjustedEnd(t), t.seq>> : t \in started},
                           LAMBDA a, b : a[1] < b[1] \/ (a[1] = b[1] /\ a[2] < b[2]))
  IN  [k \in DOMAIN ends |-> ends[k][1]]

\* reanchor: those left behind join the bowls that have started.
Reanchor(placements, release, siblings, targets, p) ==
  LET free(q) == AdvanceRelease(release, SelectSeq(placements, LAMBDA r : StartOrder(r, q)))
      joins(q) == JoinTarget(FreeBy(free(q), ToSet(q.slots)) + BoilAmong(q, targets), siblings,
                             BoilAmong(q, targets), p)
      anchor(q) == IF /\ q.anchor = None /\ BoilAmong(q, targets) # None
                      /\ ToSet(q.slots) \subseteq DOMAIN release
                      /\ joins(q) # None /\ q.serveAt >= joins(q).serveAt
                   THEN joins(q).anchor ELSE q.anchor
  IN  [k \in DOMAIN placements |-> [placements[k] EXCEPT !.anchor = anchor(placements[k])]]

AheadOf(fixed, seen) == {q \in fixed : Key(q) \notin seen}

LegalAfter(placements, free, acc, tableKey, pl) ==
  /\ FeasibleRelease(placements, free, pl.targets) # None
  /\ KeepsAnchor(placements, free, acc.lifts, Siblings(pl.running, tableKey), pl.targets, pl.p)
  /\ WithinLiftCap(acc.lifts, placements, pl.p)

\* The slice's table planned anew around what stays of it.
Anew(stay, free, acc, tableKey, pl) ==
  PlaceGroup(SelectSeq(pl.targets, LAMBDA i : TableKey(i) = tableKey), tableKey,
             AdvanceRelease(free, stay), AdvanceLifts(acc.lifts, stay), Siblings(pl.running, tableKey), pl.p,
             ContinuityOf(pl.seed, acc.slices), stay)

RECURSIVE AroundOwn(_, _, _, _, _, _)

OrDropped(again, own, drops, free, acc, tableKey, pl) ==
  IF own # <<>> /\ ~LegalAfter(again, free, acc, tableKey, pl)
  THEN AroundOwn(<<>>, TRUE, free, acc, tableKey, pl)
  ELSE [placements |-> again, drops |-> drops]

AroundOwn(own, drops, free, acc, tableKey, pl) ==
  OrDropped(Anew(own, free, acc, tableKey, pl), own, drops, free, acc, tableKey, pl)

\* The slice as it is, with who is left behind joining those started, if it passes the tests.
Retested(slice, restored, own, free, acc, pl) ==
  IF ~IsStale(slice, pl.targets, TRUE) /\ LegalAfter(restored, free, acc, slice.tableKey, pl)
  THEN [placements |-> restored, drops |-> FALSE]
  ELSE AroundOwn(own, FALSE, free, acc, slice.tableKey, pl)

Restored(slice, started, free, pl) ==
  IF started = <<>> THEN slice.placements ELSE Reanchor(slice.placements, free, started, pl.targets, pl.p)

WithSlice(acc, slice, tested, seen) ==
  [Grown(acc, slice.tableKey, tested.placements) EXCEPT !.seen = seen, !.dropped = @ \/ tested.drops]

\* A slice on the slots that what is fixed of the later ones leaves free.
RevalidateOn(acc, slice, free, seen, pl, fixed, retaining) ==
  LET started == IF retaining THEN StartedSiblings(pl, slice.tableKey) ELSE <<>>
      own == SelectSeq(slice.placements, LAMBDA q : \E r \in fixed : Key(r) = Key(q))
  IN  WithSlice(acc, slice, Retested(slice, Restored(slice, started, free, pl), own, free, acc, pl), seen)

RevalidateNext(acc, slice, seen, pl, fixed, retaining) ==
  RevalidateOn(acc, slice, Reserve(acc.release, UNION {ToSet(q.slots) : q \in AheadOf(fixed, seen)}), seen,
               pl, fixed, retaining)

RECURSIVE RevalidateAll(_, _, _, _, _)

RevalidateAll(acc, slices, pl, fixed, retaining) ==
  LET seen == acc.seen \cup {Key(q) : q \in ToSet(Head(slices).placements)}
  IN  IF slices = <<>> THEN acc
      ELSE RevalidateAll(RevalidateNext(acc, Head(slices), seen, pl, fixed, retaining), Tail(slices),
                         pl, fixed, retaining)

\* Each slice as it is if it passes the tests, otherwise made anew around what is fixed of
\* it, and if that fails too around nothing (dropped).  fixed is a set of placements.
Revalidate(pl, slices, fixed, retaining) ==
  RevalidateAll([slices |-> <<>>, release |-> pl.release, lifts |-> pl.lifts, seen |-> {}, dropped |-> FALSE],
                slices, pl, fixed, retaining)

-----------------------------------------------------------------------------
(* The plan shown before, as far as it still holds.                        *)

\* What was shown and is still to be planned, by table; a start that has passed becomes now.
RestoreSlices(shown, targets, now) ==
  LET waits == SelectSeq(shown, LAMBDA s : HasItem(ToSet(targets), s))
      item(s) == FindItem(ToSet(targets), s)
      placed(s) ==
        LET lapsed == s.startAt < now
        IN  [order |-> s.order, index |-> s.index, slots |-> s.slots,
             startAt |-> IF lapsed THEN now ELSE s.startAt,
             serveAt |-> IF lapsed THEN now + BoilOf(item(s)) ELSE s.serveAt, anchor |-> s.anchor]
      add(acc, s) ==
        LET k == TableKey(item(s))
            at == {n \in DOMAIN acc : acc[n].tableKey = k}
        IN  IF at = {} THEN Append(acc, [tableKey |-> k, placements |-> <<placed(s)>>])
            ELSE [acc EXCEPT ![Min(at)].placements = Append(@, placed(s))]
  IN  FoldLeft(add, <<>>, waits)

\* The tables that are not kept behind those that are.
RestBehind(pl, kept, rest) ==
  kept.slices \o BuildSchedule(pl, rest, kept.release, kept.lifts, kept.slices)

RetainedFrom(pl, restored) ==
  LET tables == {restored[k].tableKey : k \in DOMAIN restored}
  IN  [kept |-> Revalidate(pl, restored, {}, TRUE),
       rest |-> SelectSeq(PlanTargets(pl.pending, pl.now), LAMBDA i : TableKey(i) \notin tables)]

Retain(pl) == RetainedFrom(pl, RestoreSlices(pl.seed.ch.shown, pl.targets, pl.now))

-----------------------------------------------------------------------------
(* What starts now.                                                        *)

NowKeys(slices, now) == {Key(q) : q \in {r \in ToSet(PlacementsOf(slices)) : r.startAt <= now}}

\* Kettles that a bowl stands in, boiled or not.
NotClear(running) == OccupiedBy(running)

\* pinNow: the bowls that start now, in the order they are shown, each on clear kettles as
\* long as there are any: those it was shown on, those it has, or the nearest to each other.
\* The others get kettles whose bowl is boiled.
PinNow(nowItems, pl) ==
  LET pool == {s \in DOMAIN pl.release : pl.release[s] <= pl.now}
      within(slots, span, allowed) == Cardinality(slots) = span /\ slots \subseteq allowed
      choose(acc, q) ==
        LET span == Len(q.slots)
            startable == (pool \ NotClear(pl.running)) \ acc.claimed
            boiled == (pool \cap NotClear(pl.running)) \ acc.claimed
            current == ToSet(q.slots)
            shown == IF pl.seed = None THEN {}
                     ELSE UNION {ToSet(s.slots) : s \in {r \in ToSet(pl.seed.ch.shown) : Key(r) = Key(q)}}
            onlyNow == [s \in DOMAIN pl.release |-> IF s \in startable THEN pl.now ELSE Infinite]
            slots == IF Cardinality(startable) >= span
                     THEN IF within(shown, span, startable) THEN shown
                          ELSE IF within(current, span, startable) THEN current
                          ELSE ToSet(ChooseSlots(span, onlyNow, pl.p))
                     ELSE IF Cardinality(boiled) >= span
                     THEN IF within(current, span, boiled) THEN current
                          ELSE IF within(shown, span, boiled) THEN shown
                          ELSE ToSet(Take(Sorted(boiled), span))
                     ELSE ToSet(Take(Sorted(pool \ acc.claimed), span))
        IN  [claimed |-> acc.claimed \cup slots,
             placed |-> acc.placed \cup {[q EXCEPT !.slots = Sorted(slots)]}]
  IN  FoldLeft(choose, [claimed |-> {}, placed |-> {}], nowItems).placed

\* The plan with the bowls of `placed` on their slots.
Allocated(slices, placed) ==
  LET now(q) == {r \in placed : Key(r) = Key(q)}
  IN  [k \in DOMAIN slices |-> [slices[k] EXCEPT !.placements =
         [j \in DOMAIN @ |-> IF now(@[j]) = {} THEN @[j] ELSE CHOOSE r \in now(@[j]) : TRUE]]]

\* swapNow: the bowls that were on the slots taken get the slots left.
SwapNow(slices, placed) ==
  LET moved == {q \in ToSet(PlacementsOf(slices)) : \E r \in placed : Key(r) = Key(q)}
      before == UNION {ToSet(q.slots) : q \in moved}
      after  == UNION {ToSet(q.slots) : q \in placed}
      freed  == Sorted(before \ after)
      taken  == Sorted(after \ before)
      exchanged(s) == IF s \in ToSet(taken) THEN freed[CHOOSE k \in DOMAIN taken : taken[k] = s] ELSE s
      swapped(q) == IF q \in moved THEN q ELSE [q EXCEPT !.slots = [k \in DOMAIN @ |-> exchanged(@[k])]]
  IN  Allocated([k \in DOMAIN slices |-> [slices[k] EXCEPT !.placements =
                   [j \in DOMAIN @ |-> swapped(@[j])]]], placed)

PlanCost(slices, pl) == ScoreTotal(slices, pl.pending, pl.running, pl.lifts, pl.ch, pl.p)

NowItems(pl, slices, nowKeys) ==
  SetToSortSeq({q \in ToSet(PlacementsOf(slices)) : Key(q) \in nowKeys /\ q.startAt <= pl.now},
               LAMBDA q, r : \/ q.startAt < r.startAt
                             \/ /\ q.startAt = r.startAt
                                /\ ArrivesBefore(FindItem(pl.pending, q), FindItem(pl.pending, r)))

RECURSIVE Pinned(_, _, _, _, _)

\* Once more as long as another bowl comes to start now.
PinnedAgain(pl, tested, nowKeys, first, dropped) ==
  LET more == NowKeys(tested.slices, pl.now) \ nowKeys
  IN  IF more = {} THEN [slices |-> tested.slices, first |-> first, dropped |-> dropped \/ tested.dropped]
      ELSE Pinned(pl, tested.slices, nowKeys \cup more, first, dropped \/ tested.dropped)

PinnedOn(pl, slices, placed, nowKeys, first, dropped) ==
  PinnedAgain(pl, Revalidate(pl, Allocated(slices, placed), placed, FALSE), nowKeys,
              IF first = None THEN placed ELSE first, dropped)

Pinned(pl, slices, nowKeys, first, dropped) ==
  PinnedOn(pl, slices, PinNow(NowItems(pl, slices, nowKeys), pl), nowKeys, first, dropped)

CheaperSwap(pl, pinned, swap) ==
  IF \/ ~pinned.dropped \/ ~IsLegal(pl, swap)
     \/ PlanCost(pinned.slices, pl) < PlanCost(swap, pl)
  THEN pinned.slices ELSE swap

OrSwapped(pl, pinned, slices) == CheaperSwap(pl, pinned, SwapNow(slices, pinned.first))

\* placeNow: the slices made anew, or, where a bowl had to give its slots up again, the
\* slots exchanged instead if that is legal and no dearer.
PlaceNow(pl, slices) ==
  IF NowKeys(slices, pl.now) = {} THEN slices
  ELSE OrSwapped(pl, Pinned(pl, slices, NowKeys(slices, pl.now), None, FALSE), slices)

-----------------------------------------------------------------------------
(* The store's plan: the one shown before unless a new one costs less.     *)

\* Nothing is kept.
Fresh(pl) ==
  [kept |-> [slices |-> <<>>, release |-> pl.release, lifts |-> pl.lifts],
   rest |-> PlanTargets(pl.pending, pl.now)]

RECURSIVE PlaceEachNow(_, _)

\* The whole plans with what each of `starts` keeps.
PlaceEachNow(pl, starts) ==
  IF starts = <<>> THEN <<>>
  ELSE <<PlaceNow(pl, RestBehind(pl, Head(starts).kept, Head(starts).rest))>> \o PlaceEachNow(pl, Tail(starts))

CheapestPlan(pl, plans) == Cheapest(plans, [k \in DOMAIN plans |-> PlanCost(plans[k], pl)])

BaselineSchedule(pl) ==
  CheapestPlan(pl, PlaceEachNow(pl, (IF pl.seed = None THEN <<>> ELSE <<Retain(pl)>>) \o <<Fresh(pl)>>))
=============================================================================
