----------------------------- MODULE PlanRules ------------------------------
(***************************************************************************)
(* The tests a cooking plan has to pass (src/src/engine/schedule.ts), the  *)
(* same for a plan that arrives, for one that was adopted before and for   *)
(* the store's own.  A release table maps every kettle slot to the instant *)
(* it is free from.                                                        *)
(***************************************************************************)
EXTENDS PlanScore

CONSTANTS
  Infinite,           \* a slot that is never free; later than any instant
  PlanTargetLimit,
  MaxRetime           \* MAX_RETIME_MS

ASSUME PlanRulesAssumption ==
  /\ Infinite \in Nat /\ PlanTargetLimit \in Nat \ {0} /\ MaxRetime \in Nat

Take(seq, n) == SubSeq(seq, 1, Min({n, Len(seq)}))

Drop(seq, n) == SubSeq(seq, n + 1, Len(seq))

-----------------------------------------------------------------------------
(* What is planned.                                                        *)

InArrivalOrder(items) ==
  [k \in 1..Cardinality(items) |->
     CHOOSE i \in items : Cardinality({j \in items : ArrivesBefore(j, i)}) = k - 1]

\* planTargets: the first of the bowls that wait, in order of arrival.
PlanTargets(pending, now) ==
  Take(InArrivalOrder({i \in pending : IsLive(i, now)}), PlanTargetLimit)

IsPlaceable(item, p) == BoilOf(item) # None /\ SpanOf(item) <= LiftCap(p)

PlaceableTargets(pending, now, p) == SelectSeq(PlanTargets(pending, now), LAMBDA i : IsPlaceable(i, p))

OfTable(targets, tableKey) == {i \in ToSet(targets) : TableKey(i) = tableKey}

-----------------------------------------------------------------------------
(* When the slots are free.                                                *)

\* A running bowl holds its slots to its end; one that is over, to now.
InitialRelease(running, now, p) ==
  [s \in DOMAIN p.at |-> Max({now} \cup {AdjustedEnd(t) : t \in {u \in running : s \in u.slots}})]

AdvanceRelease(release, placements) ==
  [s \in DOMAIN release |->
     Max({release[s]} \cup {q.serveAt : q \in {r \in ToSet(placements) : s \in ToSet(r.slots)}})]

Reserve(release, slots) == [s \in DOMAIN release |-> IF s \in slots THEN Infinite ELSE release[s]]

OccupiesSlotSpan(q, item) == Len(q.slots) = SpanOf(item) /\ IsInjective(q.slots)

StartOrder(q, r) == q.startAt < r.startAt \/ (q.startAt = r.startAt /\ q.slots[1] < r.slots[1])

\* The table after the slice, None unless every bowl is one of the targets, boils for as
\* long as its noodle takes, on as many slots as it needs, and all of them free by its start.
FeasibleRelease(placements, release, targets) ==
  LET fits(q, free) == /\ HasItem(ToSet(targets), q)
                       /\ q.serveAt - q.startAt = BoilOf(FindItem(ToSet(targets), q))
                       /\ OccupiesSlotSpan(q, FindItem(ToSet(targets), q))
                       /\ \A s \in ToSet(q.slots) : s \in DOMAIN free /\ q.startAt >= free[s]
      place(acc, q) == IF acc # None /\ fits(q, acc) THEN AdvanceRelease(acc, <<q>>) ELSE None
  IN  FoldLeft(place, release, SortSeq(placements, StartOrder))

-----------------------------------------------------------------------------
(* Whether a slice still fits the orders and the clock.                    *)

StillPlanned(q, group) == HasItem(group, q) /\ OccupiesSlotSpan(q, FindItem(group, q))

\* With full coverage the slice is of exactly the table's bowls; without, of some of them.
IsStale(slice, targets, fullCoverage) ==
  LET group == OfTable(targets, slice.tableKey)
      qs    == slice.placements
  IN  \/ qs = <<>>
      \/ IF fullCoverage
         THEN \/ Cardinality(group) # Len(qs)
              \/ \E i \in group : ~\E k \in DOMAIN qs : Key(qs[k]) = Key(i) /\ OccupiesSlotSpan(qs[k], i)
         ELSE \/ Len(qs) > Cardinality(group)
              \/ \E k \in DOMAIN qs : ~StillPlanned(qs[k], group)

RetainedSlice(slice, targets) ==
  [slice EXCEPT !.placements =
     SelectSeq(@, LAMBDA q : StillPlanned(q, OfTable(targets, slice.tableKey)))]

\* A start that has passed, or that has come while the kettle is not cleared.
CannotStart(slice, now, occupied) ==
  \E k \in DOMAIN slice.placements :
    LET q == slice.placements[k]
    IN  q.startAt < now \/ (q.startAt <= now /\ ToSet(q.slots) \cap occupied # {})

\* retimed: the whole plan later by as much as its first start is late; None if that is
\* more than `most`.
Late(slices, now) ==
  LET starts == {q.startAt : q \in ToSet(PlacementsOf(slices))}
  IN  IF starts = {} THEN 0 ELSE Max({0, now - Min(starts)})

Retimed(slices, now, most) ==
  LET by == Late(slices, now)
  IN  IF by > most THEN None
      ELSE [k \in DOMAIN slices |->
             [slices[k] EXCEPT !.placements =
                [j \in DOMAIN @ |-> [@[j] EXCEPT !.startAt = @ + by, !.serveAt = @ + by]]]]

-----------------------------------------------------------------------------
(* Bowls that join the running ones of their table.                        *)

\* joinTarget: near enough to a running bowl its own earliest end will do; otherwise it
\* waits for the next end.
JoinTarget(earliest, siblings, boil, p) ==
  LET ends  == ToSet(siblings)
      gap(e) == AbsDiff(e, earliest)
      near  == {e \in ends : gap(e) <= JoinWindow(boil, p)}
      later == {e \in ends : e > earliest}
      nearest == Min({e \in near : \A f \in near : gap(e) <= gap(f)})
  IN  IF near # {} THEN [serveAt |-> earliest, anchor |-> nearest]
      ELSE IF later # {} THEN [serveAt |-> Min(later), anchor |-> Min(later)]
      ELSE None

BoilAmong(q, targets) ==
  IF HasItem(ToSet(targets), q) THEN BoilOf(FindItem(ToSet(targets), q)) ELSE None

UnitOrder(q, r) == \/ q.serveAt < r.serveAt
                   \/ q.serveAt = r.serveAt /\ StartOrder(q, r)

\* packsOf: what joins the same bowl and comes up together, in order.
Joining(placements) == {q \in ToSet(placements) : q.anchor # None}

Pack(joining, k) == SetToSortSeq({q \in joining : <<q.anchor, q.serveAt>> = k}, UnitOrder)

PacksOf(placements) ==
  SetToSortSeq({Pack(Joining(placements), k) : k \in {<<q.anchor, q.serveAt>> : q \in Joining(placements)}},
               LAMBDA c, d : UnitOrder(c[1], d[1]))

FreeBy(release, slots) == Max({release[s] : s \in slots})

\* fitsPack: each of them could come up near the anchor, and they do so no later than the
\* lift windows make them.
FitsPack(pack, release, lifts, siblings, targets, p) ==
  LET boil(q) == BoilAmong(q, targets)
      earliest(q) == FreeBy(release, ToSet(q.slots)) + boil(q)
      near(q) == /\ boil(q) # None
                 /\ q.serveAt >= q.anchor - JoinWindow(boil(q), p)
                 /\ ToSet(q.slots) \subseteq DOMAIN release
                 /\ earliest(q) <= q.anchor + JoinWindow(boil(q), p)
      candidate == Max({JoinTarget(earliest(q), siblings, boil(q), p).serveAt : q \in ToSet(pack)})
  IN  /\ \A q \in ToSet(pack) : near(q)
      /\ FirstFit(lifts, candidate, Total([k \in DOMAIN pack |-> Len(pack[k].slots)]), p) = pack[1].serveAt

\* The n-th slot to be free.
NthFree(release, n) ==
  IF n > Cardinality(DOMAIN release) THEN Infinite
  ELSE Min({t \in {release[s] : s \in DOMAIN release} :
              Cardinality({s \in DOMAIN release : release[s] <= t}) >= n})

\* isPushedOut: one that could have joined comes later than the windows make it.
PushedOut(q, release, lifts, siblings, targets, p) ==
  LET boil == BoilAmong(q, targets)
      earliest == NthFree(release, Len(q.slots)) + boil
      target == JoinTarget(earliest, siblings, boil, p)
      fit == FirstFit(lifts, target.serveAt, Len(q.slots), p)
  IN  /\ boil # None
      /\ earliest <= siblings[Len(siblings)] + JoinWindow(boil, p)
      /\ fit # NoFit /\ q.serveAt > fit

WindowAmong(q, targets, p) ==
  IF BoilAmong(q, targets) = None THEN 0 ELSE JoinWindow(BoilAmong(q, targets), p)

\* Each pack after those before it.
PacksFit(packs, release, lifts, siblings, targets, p) ==
  \A k \in DOMAIN packs :
    LET before == FlattenSeq(SubSeq(packs, 1, k - 1))
    IN  FitsPack(packs[k], AdvanceRelease(release, before), AdvanceLifts(lifts, before), siblings, targets, p)

\* Each of the others after all that join and the others before it.
NobodyLeft(joining, singles, release, lifts, siblings, targets, p) ==
  \A k \in DOMAIN singles :
    LET before == SetToSeq(joining) \o SubSeq(singles, 1, k - 1)
    IN  ~PushedOut(singles[k], AdvanceRelease(release, before), AdvanceLifts(lifts, before), siblings, targets, p)

\* Whoever claims to join a running bowl does so, nobody of the table is served before the
\* running ones, and nobody who could join them is left behind.
KeepsAnchor(placements, release, lifts, siblings, targets, p) ==
  /\ \A q \in ToSet(placements) : q.anchor # None => q.anchor \in ToSet(siblings)
  /\ siblings # <<>> =>
       /\ \A q \in ToSet(placements) : q.serveAt >= siblings[1] - WindowAmong(q, targets, p)
       /\ PacksFit(PacksOf(placements), release, lifts, siblings, targets, p)
       /\ NobodyLeft(Joining(placements), SortSeq(SelectSeq(placements, LAMBDA q : q.anchor = None), UnitOrder),
                     release, lifts, siblings, targets, p)

-----------------------------------------------------------------------------
(* What a plan is made from: targets are the placeable bowls in order, ch  *)
(* is what the plan is compared with, and seed is None unless something    *)
(* was shown, else [ch, heads].                                            *)

SeedOf(ch, p) == IF ch = None \/ ch.shown = <<>> THEN None ELSE [ch |-> ch, heads |-> ShownHeads(ch, p)]

Planning(pending, release, running, lifts, p, now, ch) ==
  [pending |-> pending, targets |-> PlaceableTargets(pending, now, p), release |-> release,
   lifts |-> lifts, running |-> running, now |-> now, p |-> p, ch |-> ch, seed |-> SeedOf(ch, p)]

\* isLegal
IsLegal(pl, slices) ==
  LET legal(k, release, lifts) ==
        /\ ~IsStale(slices[k], pl.targets, TRUE)
        /\ FeasibleRelease(slices[k].placements, release, pl.targets) # None
        /\ KeepsAnchor(slices[k].placements, release, lifts, Siblings(pl.running, slices[k].tableKey),
                       pl.targets, pl.p)
        /\ WithinLiftCap(lifts, slices[k].placements, pl.p)
      before(k) == PlacementsOf(SubSeq(slices, 1, k - 1))
  IN  \A k \in DOMAIN slices :
        legal(k, AdvanceRelease(pl.release, before(k)), AdvanceLifts(pl.lifts, before(k)))
=============================================================================
