------------------------------ MODULE BoilSync ------------------------------
(***************************************************************************)
(* Synchronisation of boil ends (src/src/engine/sync.ts): which running    *)
(* timers are lifted together, and by how much each end is moved for it.   *)
(*                                                                         *)
(* A timer is a record with at least the fields seq, startTime, endTime,   *)
(* boiledAt and adjustment.  What synchronisation takes from a running     *)
(* timer is its boil, [seq, startTime, endTime]; the clusters and sets are *)
(* sets of boils.  Window arithmetic is on the code's scale of             *)
(* 1/100 of a time unit; the least-squares placement, which divides by 2   *)
(* and by the number of pooled sets, is on the finer scale of 1/(100 *     *)
(* Grain), exact for up to four sets in one cluster.                       *)
(***************************************************************************)
EXTENDS StoreTypes, Integers, Sequences, FiniteSets, FiniteSetsExt

Grain == 24

Clamp(x, lo, hi) == Min({Max({x, lo}), hi})

Running(timers) == {t \in timers : t.boiledAt = None}

AdjustedEnd(t) == t.endTime + t.adjustment

Boil(t) == [seq |-> t.seq, startTime |-> t.startTime, endTime |-> t.endTime]

Boils(timers) == {Boil(t) : t \in Running(timers)}

-----------------------------------------------------------------------------
(* Windows, proximity clusters, and the sync sets they are cut into.       *)

Left(t, ratio) == t.endTime * 100 - (t.endTime - t.startTime) * ratio

Right(t, ratio) == t.endTime * 100 + (t.endTime - t.startTime) * ratio

EarlierCentre(t, u) == t.endTime < u.endTime \/ (t.endTime = u.endTime /\ t.seq < u.seq)

\* Sweeping by left edge, t starts a cluster when every window to its left is over.
Opens(t, R, ratio) ==
  \A u \in R : Left(u, ratio) < Left(t, ratio) => Right(u, ratio) < Left(t, ratio)

ClusterOf(t, R, ratio) ==
  LET opening(u) == Max({Left(v, ratio) : v \in
                           {w \in R : Opens(w, R, ratio) /\ Left(w, ratio) <= Left(u, ratio)}})
  IN  {u \in R : opening(u) = opening(t)}

\* partitionProximityCluster: by centre, in runs of at most `arms`.
Partition(cluster, arms) ==
  LET rank(t) == Cardinality({u \in cluster : EarlierCentre(u, t)})
      sets == (Cardinality(cluster) + arms - 1) \div arms
  IN  [k \in 1..sets |-> {t \in cluster : rank(t) \div arms = k - 1}]

Span(set, ratio) == [left  |-> Max({Left(t, ratio) : t \in set}),
                     right |-> Min({Right(t, ratio) : t \in set})]

Syncable(set, ratio) == Span(set, ratio).left <= Span(set, ratio).right

\* The sets whose windows have a time in common, in order; the others are not moved.
SyncableSets(sets, ratio) ==
  LET kept[k \in 0..Len(sets)] ==
        IF k = 0 THEN <<>>
        ELSE IF Syncable(sets[k], ratio) THEN Append(kept[k - 1], sets[k]) ELSE kept[k - 1]
  IN  kept[Len(sets)]

-----------------------------------------------------------------------------
(* Placement of the sets of one cluster: as far apart as their common      *)
(* windows allow, then as close to the window centres as that gap allows.  *)

\* Mutant: the greedy test rejects a target on the right edge.
MutFeasibleGap(spans, gap) ==
  LET earliest[k \in 1..Len(spans)] ==
        IF k = 1 THEN spans[1].left ELSE Max({spans[k].left, earliest[k - 1] + gap})
  IN  \A k \in 1..Len(spans) : earliest[k] < spans[k].right

FeasibleGap(spans, gap) ==
  LET earliest[k \in 1..Len(spans)] ==
        IF k = 1 THEN spans[1].left ELSE Max({spans[k].left, earliest[k - 1] + gap})
  IN  \A k \in 1..Len(spans) : earliest[k] <= spans[k].right

\* Rounds of a binary search among the integers a number holds exactly.
Bits == 53

MaxFeasibleGap(spans) ==
  LET top == Max({spans[k].right : k \in DOMAIN spans})
             - Min({spans[k].left : k \in DOMAIN spans}) + 1
      bisected[n \in 0..Bits] ==
        IF n = 0 THEN [lo |-> 0, hi |-> top]
        ELSE LET b   == bisected[n - 1]
                 mid == (b.lo + b.hi + 1) \div 2
             IN  IF b.lo >= b.hi THEN b
                 ELSE IF FeasibleGap(spans, mid) THEN [lo |-> mid, hi |-> b.hi]
                 ELSE [lo |-> b.lo, hi |-> mid - 1]
  IN  IF Len(spans) < 2 THEN 0 ELSE bisected[Bits].lo

\* The items first..last, pooled; sum, lo and hi are on the fine scale.
Block(first, last, sum, lo, hi) ==
  [first |-> first, last |-> last, sum |-> sum, lo |-> lo, hi |-> hi,
   value |-> Clamp(sum \div (last - first + 1), lo, hi)]

Pool(a, b) ==
  Block(a.first, b.last, a.sum + b.sum, Max({a.lo, b.lo}), Min({a.hi, b.hi}))

\* Mutant: blocks out of order are left as they are.
MutCollapse(blocks) == blocks

\* Merge the last two blocks while they are out of order.
Collapse(blocks) ==
  LET pooled[n \in 0..Len(blocks)] ==
        IF n = 0 THEN blocks
        ELSE LET bs == pooled[n - 1]
                 m  == Len(bs)
             IN  IF m < 2 \/ bs[m - 1].value <= bs[m].value THEN bs
                 ELSE Append(SubSeq(bs, 1, m - 2), Pool(bs[m - 1], bs[m]))
  IN  pooled[Len(blocks)]

\* The blocks of the first k items.
Blocks(items) ==
  LET blocks[k \in 0..Len(items)] ==
        IF k = 0 THEN <<>>
        ELSE Collapse(Append(blocks[k - 1], Block(k, k, items[k].goal, items[k].lo, items[k].hi)))
  IN  blocks

\* Every item takes the value of its block.
BoundedIsotonic(items) ==
  LET blocks == Blocks(items)[Len(items)]
      blockOf(k) == CHOOSE b \in DOMAIN blocks : blocks[b].first <= k /\ k <= blocks[b].last
  IN  [k \in DOMAIN items |-> blocks[blockOf(k)].value]

\* Targets of the spans, in order, on the fine scale.
PlaceSyncTargets(spans) ==
  LET gap == MaxFeasibleGap(spans)
      shifted == [k \in DOMAIN spans |->
                    [lo   |-> Grain * (spans[k].left - (k - 1) * gap),
                     hi   |-> Grain * (spans[k].right - (k - 1) * gap),
                     goal |-> (Grain \div 2) * (spans[k].left + spans[k].right)
                              - Grain * (k - 1) * gap]]
      u == BoundedIsotonic(shifted)
  IN  [k \in DOMAIN spans |->
         Clamp(u[k] + Grain * (k - 1) * gap, Grain * spans[k].left, Grain * spans[k].right)]

\* toTargetMs: to the nearest time unit, inside the span when a unit lies in it.
ToTarget(fine, span) ==
  LET rounded == (fine + 50 * Grain) \div (100 * Grain)
      lo == -((-span.left) \div 100)
      hi == span.right \div 100
  IN  IF lo <= hi THEN Clamp(rounded, lo, hi) ELSE rounded

-----------------------------------------------------------------------------
(* The adjustment each running timer gets, and the synchronised timers.    *)

AdjustmentOf(t, boils, cfg) ==
  LET sets  == SyncableSets(Partition(ClusterOf(t, boils, cfg.ratio), cfg.arms), cfg.ratio)
      spans == [k \in DOMAIN sets |-> Span(sets[k], cfg.ratio)]
      mine  == {k \in DOMAIN sets : t \in sets[k]}
  IN  IF mine = {} THEN 0
      ELSE LET k == CHOOSE j \in mine : TRUE
           IN  ToTarget(PlaceSyncTargets(spans)[k], spans[k]) - t.endTime

Synchronize(timers, cfg) ==
  LET boils == Boils(timers)
  IN  {IF t.boiledAt = None THEN [t EXCEPT !.adjustment = AdjustmentOf(Boil(t), boils, cfg)] ELSE t
         : t \in timers}
=============================================================================
