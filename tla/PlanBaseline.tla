---------------------------- MODULE PlanBaseline ----------------------------
(***************************************************************************)
(* The store's own plan (src/src/engine/schedule.ts): table by table, each *)
(* bowl on slots and at a time, greedily.  ct is what the bowls placed so  *)
(* far are compared with, None when no plan was shown:                     *)
(* [ch, heads, slices, tableKey, placed].                                  *)
(***************************************************************************)
EXTENDS PlanRules

-----------------------------------------------------------------------------
(* Slots.                                                                  *)

Sorted(numbers) ==
  LET ascending[S \in SUBSET numbers] == IF S = {} THEN <<>> ELSE <<Min(S)>> \o ascending[S \ {Min(S)}]
  IN  ascending[numbers]

\* The first of seq with the least cost.
Cheapest(seq, costs) == seq[Min({k \in DOMAIN seq : \A j \in DOMAIN seq : costs[k] <= costs[j]})]

Spread(slots, p) ==
  MapThenSumSet(LAMBDA c : Distance(c[1], c[2], p), {c \in slots \X slots : c[1] < c[2]})

\* The slots in the order in which they are free.
FirstFree(slots, release) ==
  LET byRelease == SetToSortSeq({<<release[s], s>> : s \in slots}, KeyBefore)
  IN  [k \in DOMAIN byRelease |-> byRelease[k][2]]

\* The `count` of them nearest to a.
NearestTo(a, candidates, count, p) ==
  {c[2] : c \in ToSet(Take(SetToSortSeq({<<Distance(a, s, p), s>> : s \in candidates}, KeyBefore), count))}

LeastSpread(sets, p) == Cheapest(sets, [k \in DOMAIN sets |-> Spread(sets[k], p)])

\* Those with the lowest numbers, or those around one of the candidates.
ChooseAmong(candidates, count, p) ==
  Sorted(LeastSpread(<<ToSet(Take(candidates, count))>>
                     \o [k \in DOMAIN candidates |-> NearestTo(candidates[k], ToSet(candidates), count, p)], p))

\* chooseSlots: of those that are free first, the nearest to each other.
ChooseSlots(count, release, p) ==
  ChooseAmong(Sorted({s \in DOMAIN release :
                        release[s] <= release[FirstFree(DOMAIN release, release)[count]]}), count, p)

SpanOfAll(items) == Total([k \in DOMAIN items |-> SpanOf(items[k])])

\* distribute: the bowl that boils longest gets what is free first.
DistributeOf(slots, batch, order) ==
  LET upTo(k) == SpanOfAll([n \in 1..k |-> batch[order[n]]])
      place(i) == CHOOSE k \in DOMAIN order : order[k] = i
  IN  [i \in DOMAIN batch |-> SubSeq(slots, upTo(place(i) - 1) + 1, upTo(place(i)))]

Distribute(batch, order, release, p) ==
  DistributeOf(FirstFree(ToSet(ChooseSlots(SpanOfAll(batch), release, p)), release), batch, order)

Shown(ct, item) ==
  IF ct = None THEN {} ELSE {s \in ToSet(ct.ch.shown) : Key(s) = Key(item)}

ShownStart(ct, item) ==
  IF Shown(ct, item) = {} THEN Infinite ELSE (CHOOSE s \in Shown(ct, item) : TRUE).startAt

\* batchOrder: longest boil first, then as shown before.
BatchOrder(batch, ct) ==
  LET rank(i) == <<-BoilOf(batch[i]), ShownStart(ct, batch[i]), i>>
      less(i, j) == \E k \in 1..3 : rank(i)[k] < rank(j)[k] /\ \A l \in 1..(k - 1) : rank(i)[l] = rank(j)[l]
  IN  SetToSortSeq(DOMAIN batch, less)

EarliestOf(batch, slots, release) ==
  [i \in DOMAIN batch |-> FreeBy(release, ToSet(slots[i])) + BoilOf(batch[i])]

Given(batch, order, slots, release) ==
  [slots |-> slots, earliest |-> EarliestOf(batch, slots, release), order |-> order]

Preferred(ct, item) == ToSet((CHOOSE s \in Shown(ct, item) : TRUE).slots)

Keeps(i, batch, free, deadline, p, ct) ==
  LET slots == Preferred(ct, batch[i])
  IN  \/ /\ Cardinality(slots) = SpanOf(batch[i])
         /\ \A s \in slots : free[s] <= deadline - BoilOf(batch[i])
      \/ ToSet(ChooseSlots(SpanOf(batch[i]), free, p)) = slots

\* Who keeps the slots shown before: they are free by the deadline, or would be chosen anyway.
KeptSlots(batch, order, deadline, release, p, ct) ==
  FoldLeft(LAMBDA acc, i :
             IF Shown(ct, batch[i]) # {} /\ Keeps(i, batch, acc.free, deadline, p, ct)
             THEN [kept |-> acc.kept \cup {i}, free |-> Reserve(acc.free, Preferred(ct, batch[i]))]
             ELSE acc,
           [kept |-> {}, free |-> release], order)

\* rest are the others, given what they get: what is free first of what is left.
SlotsOfAll(batch, kept, rest, given, release, ct) ==
  [i \in DOMAIN batch |->
     IF i \in kept THEN FirstFree(Preferred(ct, batch[i]), release)
     ELSE given[CHOOSE k \in DOMAIN rest : rest[k] = i]]

SlotsBesides(kept, rest, batch, release, p, ct) ==
  SlotsOfAll(batch, kept.kept, rest,
             Distribute([k \in DOMAIN rest |-> batch[rest[k]]], [k \in DOMAIN rest |-> k], kept.free, p),
             release, ct)

InTime(base, given, deadline) == IF Max(ToSet(given.earliest)) > deadline THEN base ELSE given

Besides(base, kept, deadline, batch, release, p, ct) ==
  IF kept.kept = {} THEN base
  ELSE InTime(base, Given(batch, base.order,
                          SlotsBesides(kept, SelectSeq(base.order, LAMBDA i : i \notin kept.kept),
                                       batch, release, p, ct), release), deadline)

ByDeadline(base, deadline, batch, release, p, ct) ==
  IF deadline = None THEN base
  ELSE Besides(base, KeptSlots(batch, base.order, deadline, release, p, ct), deadline,
               batch, release, p, ct)

PlainOn(batch, order, release, p) == Given(batch, order, Distribute(batch, order, release, p), release)

PlainSlots(batch, release, p, ct) == PlainOn(batch, BatchOrder(batch, ct), release, p)

\* assignSlots: everybody keeps the slots shown before as long as that makes nobody later
\* than `deadline`, the time found for the plain distribution, base.
AssignSlots(base, deadline, batch, release, p, ct) ==
  IF ct = None THEN base ELSE ByDeadline(base, deadline, batch, release, p, ct)

-----------------------------------------------------------------------------
(* A column: bowls with their slots that would come up together.  An       *)
(* element is a record [item, slots, anchor].                              *)

ColumnSpan(column) == SpanOfAll([k \in DOMAIN column |-> column[k].item])

LongestPrefixWithin(column, limit) ==
  Take(column, Max({n \in 0..Len(column) : \A m \in 0..n : ColumnSpan(Take(column, m)) <= limit}))

PlaceAt(column, serveAt) ==
  [k \in DOMAIN column |->
    [order |-> column[k].item.order, index |-> column[k].item.index, slots |-> column[k].slots,
     startAt |-> serveAt - BoilOf(column[k].item), serveAt |-> serveAt, anchor |-> column[k].anchor]]

Serves(placements) == [k \in DOMAIN placements |-> placements[k].serveAt]

\* after: what is placed from here on is compared with these in place.
After(ct, placements) == IF ct = None THEN None ELSE [ct EXCEPT !.placed = @ \o placements]

LagOf(serves) == Total([k \in DOMAIN serves |-> Max(ToSet(serves)) - serves[k]])

\* localCost, in milliseconds.
LocalCost(placed, column, lifts, members, p, ct) ==
  Total([k \in DOMAIN placed |-> placed[k].serveAt - column[k].item.arrival])
  + p.tableSync * LagOf(members \o Serves(placed))
  + (LiftOverflow(AdvanceLifts(lifts, placed), p) - LiftOverflow(lifts, p)
     + IF ct = None THEN 0
       ELSE PartialChangeCost(Append(ct.slices, [tableKey |-> ct.tableKey, placements |-> ct.placed \o placed]),
                              ct.ch, p)) * MillisPerSecond

\* Those shown at one of the times together; the others alone.
ChunksAt(times, serves, others) ==
  [n \in DOMAIN times |-> Sorted({k \in DOMAIN serves : serves[k] = times[n]})]
  \o [n \in DOMAIN others |-> <<others[n]>>]

ChunksByTime(serves, column) ==
  ChunksAt(Sorted({serves[k] : k \in DOMAIN serves}), serves, Sorted(DOMAIN column \ DOMAIN serves))

\* chunksByServeAt: the bowls that were to come up together before; new ones alone.
ChunksByServeAt(column, ct) ==
  ChunksByTime([k \in {n \in DOMAIN column : Shown(ct, column[n].item) # {}} |->
                  (CHOOSE s \in Shown(ct, column[k].item) : TRUE).serveAt], column)

\* chunksByMates: the bowls that were shown in one group before; new ones alone.
ChunksByMates(column, ct) ==
  SetToSortSeq({Sorted({j \in DOMAIN column : j = k \/
                          \E s \in Shown(ct, column[k].item) : Key(column[j].item) \in s.mates}) :
                  k \in DOMAIN column}, LAMBDA c, d : c[1] < d[1])

AheadOfRest(heads, column) ==
  IF heads = {} \/ heads = DOMAIN column THEN <<>> ELSE <<Sorted(heads), Sorted(DOMAIN column \ heads)>>

\* The heads shown before ahead of the rest (keepHeads).
ChunksByHeads(column, ct) ==
  AheadOfRest({k \in DOMAIN column : Key(column[k].item) \in ct.heads}, column)

Unplaced(column, lifts, members, ct) ==
  [placed |-> [k \in DOMAIN column |-> None], lifts |-> lifts, members |-> members, ct |-> ct]

\* The elements `part` of a column as result has them.
WithPart(acc, part, result) ==
  [placed |-> [k \in DOMAIN acc.placed |->
                 IF k \in ToSet(part) THEN result[CHOOSE n \in DOMAIN part : part[n] = k] ELSE acc.placed[k]],
   lifts |-> AdvanceLifts(acc.lifts, result), members |-> acc.members \o Serves(result),
   ct |-> After(acc.ct, result)]

RECURSIVE PlaceWithLifts(_, _, _, _, _, _)

PlaceChunk(acc, part, t0, p) ==
  IF ColumnSpan(part) <= LiftCap(p) THEN PlaceAt(part, FirstFit(acc.lifts, t0, ColumnSpan(part), p))
  ELSE PlaceWithLifts(part, t0, acc.lifts, acc.members, p, acc.ct)

RECURSIVE PlaceEach(_, _, _, _, _)

PlaceEach(acc, column, chunks, t0, p) ==
  IF chunks = <<>> THEN acc
  ELSE PlaceEach(WithPart(acc, Head(chunks),
                          PlaceChunk(acc, [n \in DOMAIN Head(chunks) |-> column[Head(chunks)[n]]], t0, p)),
                 column, Tail(chunks), t0, p)

\* placeChunks: one chunk after the other, each together where the windows allow.
PlaceChunks(column, chunks, t0, lifts, members, p, ct) ==
  PlaceEach(Unplaced(column, lifts, members, ct), column, chunks, t0, p).placed

\* restorePrevious, keepPrevious, keepHeads: the column cut as it was shown before.
PlaceCuts(cuts, column, t0, lifts, members, p, ct) ==
  [n \in DOMAIN cuts |-> PlaceChunks(column, cuts[n], t0, lifts, members, p, ct)]

Proper(cuts) == SelectSeq(cuts, LAMBDA chunks : Len(chunks) > 1)

KnownCuts(column, ct) ==
  IF \A k \in DOMAIN column : Shown(ct, column[k].item) = {} THEN <<>>
  ELSE Proper(<<ChunksByServeAt(column, ct), ChunksByMates(column, ct)>>)

Keeping(column, large, t0, lifts, members, p, ct) ==
  PlaceCuts(KnownCuts(column, ct) \o IF large THEN <<>> ELSE Proper(<<ChunksByHeads(column, ct)>>),
            column, t0, lifts, members, p, ct)

\* A first part now, the rest on the table it leaves.
SplitAt(first, rest, t0, lifts, members, p, ct) ==
  first \o PlaceWithLifts(rest, t0, AdvanceLifts(lifts, first), members \o Serves(first), p, After(ct, first))

CutAfter(head, column, t0, lifts, members, p, ct) ==
  SplitAt(PlaceWithLifts(head, t0, lifts, members, p, ct), Drop(column, Len(head)), t0, lifts, members, p, ct)

RoomOrCap(room, column, p) == IF room >= SpanOf(column[1].item) THEN room ELSE LiftCap(p)

\* A column too large for any window: what there is room for now, then the rest.
CutToRoom(column, t0, lifts, members, p, ct) ==
  CutAfter(LongestPrefixWithin(column, RoomOrCap(LiftCap(p) - LoadWith(lifts, t0, 0, p), column, p)),
           column, t0, lifts, members, p, ct)

\* Where a column that has to wait as a whole, or that takes help, is cut: to the room there
\* is now, or to the arms.
ProperLengths(lengths, column) ==
  SelectSeq(IF Len(lengths) = 2 /\ lengths[1] = lengths[2] THEN <<lengths[1]>> ELSE lengths,
            LAMBDA n : n # 0 /\ n # Len(column))

PrefixLengths(column, capacities) ==
  [n \in DOMAIN capacities |-> Len(LongestPrefixWithin(column, capacities[n]))]

SplitLengths(column, late, room, p) ==
  ProperLengths(PrefixLengths(column, (IF late /\ room > 0 /\ room < p.arms THEN <<room>> ELSE <<>>)
                                      \o <<p.arms>>), column)

SplitAfter(column, n, t0, lifts, members, p, ct) ==
  SplitAt(PlaceAt(Take(column, n), FirstFit(lifts, t0, ColumnSpan(Take(column, n)), p)), Drop(column, n),
          t0, lifts, members, p, ct)

SplitsAfter(lengths, column, t0, lifts, members, p, ct) ==
  [n \in DOMAIN lengths |-> SplitAfter(column, lengths[n], t0, lifts, members, p, ct)]

\* The whole column at the first instant with room for all, and what is cut from it.
PackOrSplits(column, pack, t0, lifts, members, p, ct) ==
  <<pack>> \o IF ColumnSpan(column) <= p.arms /\ pack[1].serveAt = t0 THEN <<>>
              ELSE SplitsAfter(SplitLengths(column, pack[1].serveAt > t0, LiftCap(p) - LoadWith(lifts, t0, 0, p), p),
                               column, t0, lifts, members, p, ct)

\* The ways to place a column: as it was shown before, as a whole, or cut.
Candidates(column, t0, lifts, members, p, ct) ==
  LET large == ColumnSpan(column) > LiftCap(p)
  IN  (IF ct = None THEN <<>>
       ELSE Keeping(column, large, t0, lifts, members, p, ct))
      \o IF large THEN <<CutToRoom(column, t0, lifts, members, p, ct)>>
         ELSE PackOrSplits(column, PlaceAt(column, FirstFit(lifts, t0, ColumnSpan(column), p)),
                           t0, lifts, members, p, ct)

CheapestPlaced(candidates, column, lifts, members, p, ct) ==
  Cheapest(candidates,
           [k \in DOMAIN candidates |-> LocalCost(candidates[k], column, lifts, members, p, ct)])

PlaceWithLifts(column, t0, lifts, members, p, ct) ==
  IF column = <<>> THEN <<>>
  ELSE CheapestPlaced(Candidates(column, t0, lifts, members, p, ct), column, lifts, members, p, ct)

-----------------------------------------------------------------------------
(* A table.  acc is what it has so far: [placements, free, lifts, members]. *)

Collect(acc, added) ==
  [placements |-> acc.placements \o added, free |-> AdvanceRelease(acc.free, added),
   lifts |-> AdvanceLifts(acc.lifts, added), members |-> acc.members \o Serves(added)]

Joins(acc, item, slots, target) ==
  IF target = None THEN acc
  ELSE [joined |-> Append(acc.joined, [item |-> item, slots |-> slots, target |-> target]),
        free |-> Reserve(acc.free, ToSet(slots))]

\* The time an element could come up with one of the running bowls.
JoinTime(target) == IF target = None THEN None ELSE target.serveAt

JoinGiven(acc, item, given, siblings, p) ==
  Joins(acc, item, given.slots[1], JoinTarget(given.earliest[1], siblings, BoilOf(item), p))

JoinOn(acc, item, base, siblings, p, ct) ==
  JoinGiven(acc, item,
            AssignSlots(base, JoinTime(JoinTarget(base.earliest[1], siblings, BoilOf(item), p)), <<item>>,
                        acc.free, p, ct), siblings, p)

JoinNext(acc, item, siblings, p, ct) ==
  JoinOn(acc, item, PlainSlots(<<item>>, acc.free, p, ct), siblings, p, ct)

RECURSIVE JoinAll(_, _, _, _, _)

JoinAll(acc, items, siblings, p, ct) ==
  IF items = <<>> THEN acc ELSE JoinAll(JoinNext(acc, Head(items), siblings, p, ct), Tail(items), siblings, p, ct)

\* joinable: who can join the running bowls of the table, each on the slots the ones before
\* it leave.  A sequence of [item, slots, target].
Joinable(items, free, siblings, p, ct) == JoinAll([joined |-> <<>>, free |-> free], items, siblings, p, ct).joined

JoinedAt(joined, indices) ==
  [n \in DOMAIN indices |-> [item |-> joined[indices[n]].item, slots |-> joined[indices[n]].slots,
                             anchor |-> joined[indices[n]].target.anchor]]

RECURSIVE PlaceJoinedAt(_, _, _, _, _)

PlaceJoinedAt(acc, joined, byBoil, times, p) ==
  LET indices == SelectSeq(byBoil, LAMBDA k : joined[k].target.serveAt = Head(times))
  IN  IF times = <<>> THEN acc
      ELSE PlaceJoinedAt(
             WithPart(acc, indices, PlaceWithLifts(JoinedAt(joined, indices), Head(times), acc.lifts, acc.members,
                                                   p, acc.ct)),
             joined, byBoil, Tail(times), p)

\* placeJoined: in columns, by the time they could come up.
PlaceJoined(joined, lifts, members, p, ct) ==
  PlaceJoinedAt(Unplaced(joined, lifts, members, ct), joined,
                BatchOrder([k \in DOMAIN joined |-> joined[k].item], ct),
                Sorted({joined[k].target.serveAt : k \in DOMAIN joined}), p).placed

InBatchOrder(result, order) == [i \in DOMAIN order |-> result[CHOOSE k \in DOMAIN order : order[k] = i]]

\* When the last of them could be, and no sooner than the running ones.
LastOf(given, latest) == Max(ToSet(given.earliest) \cup latest)

\* A batch on the slots it is given.
PlaceGiven(batch, given, latest, acc, p, ct) ==
  InBatchOrder(PlaceWithLifts([k \in DOMAIN batch |-> [item |-> batch[given.order[k]],
                                                      slots |-> given.slots[given.order[k]], anchor |-> None]],
                              LastOf(given, latest), acc.lifts, acc.members, p, ct), given.order)

PlaceFrom(batch, base, latest, acc, p, ct) ==
  LET least == Min({SpanOf(i) : i \in ToSet(batch)})
  IN  PlaceGiven(batch, AssignSlots(base, FirstFit(acc.lifts, LastOf(base, latest), least, p), batch,
                                    acc.free, p, ct), latest, acc, p, ct)

\* placeBatch: together.
PlaceBatch(batch, acc, latest, p, ct) ==
  PlaceFrom(batch, PlainSlots(batch, acc.free, p, ct), latest, acc, p, ct)

RECURSIVE PlaceAllJoined(_, _, _, _, _)

ColumnOf(acc, ct) == IF ct = None THEN None ELSE [ct EXCEPT !.placed = acc.placements]

\* Whoever can join, and then whoever can join on the slots that are left.
AfterJoins(acc, joined, items, siblings, p, ct) ==
  LET taken == {Key(joined[k].item) : k \in DOMAIN joined}
  IN  IF joined = <<>> THEN [acc |-> acc, items |-> items]
      ELSE PlaceAllJoined(Collect(acc, PlaceJoined(joined, acc.lifts, acc.members, p, ColumnOf(acc, ct))),
                          SelectSeq(items, LAMBDA i : Key(i) \notin taken), siblings, p, ct)

PlaceAllJoined(acc, items, siblings, p, ct) ==
  AfterJoins(acc, Joinable(items, acc.free, siblings, p, ct), items, siblings, p, ct)

\* The batches a table is served in: as many bowls as there are slots.
ServedTogether(items, capacity) ==
  LET add(acc, i) ==
        IF acc # <<>> /\ SpanOfAll(Last(acc)) + SpanOf(i) <= capacity
        THEN Append(Front(acc), Append(Last(acc), i)) ELSE Append(acc, <<i>>)
  IN  FoldLeft(add, <<>>, items)

RECURSIVE PlaceBatchAll(_, _, _, _, _)

PlaceBatchAll(acc, batches, latest, p, ct) ==
  IF batches = <<>> THEN acc
  ELSE PlaceBatchAll(Collect(acc, PlaceBatch(Head(batches), acc, latest, p, ColumnOf(acc, ct))), Tail(batches),
                     latest, p, ct)

\* What is left of a table, in batches.
PlaceBatches(open, capacity, siblings, p, ct) ==
  PlaceBatchAll(open.acc, ServedTogether(open.items, capacity),
                IF siblings = <<>> THEN {} ELSE {siblings[Len(siblings)]}, p, ct).placements

PlaceOpen(start, items, capacity, siblings, p, ct) ==
  PlaceBatches(IF siblings = <<>> THEN [acc |-> start, items |-> items]
               ELSE PlaceAllJoined(start, items, siblings, p, ct), capacity, siblings, p, ct)

\* placeGroup: those in `fixed` stay as they are (the tables hold them already), then who
\* can join, then the rest in batches.
PlaceGroup(group, tableKey, free, lifts, siblings, p, ct, fixed) ==
  LET items == SelectSeq(group, LAMBDA i : IsPlaceable(i, p))
      ownOf(i) == SelectSeq(fixed, LAMBDA q : Key(q) = Key(i))
      own == FlattenSeq([k \in DOMAIN items |-> ownOf(items[k])])
      capacity == Cardinality({s \in DOMAIN free : free[s] < Infinite})
  IN  IF capacity = 0 THEN own
      ELSE PlaceOpen([placements |-> own, free |-> free, lifts |-> lifts, members |-> siblings \o Serves(own)],
                     SelectSeq(items, LAMBDA i : ownOf(i) = <<>> /\ SpanOf(i) <= capacity),
                     capacity, siblings, p, IF ct = None THEN None ELSE [ct EXCEPT !.tableKey = tableKey])
=============================================================================
