---------------------------- MODULE BoilSyncProofs ----------------------------
(***************************************************************************)
(* Proofs about BoilSync: every running timer is moved by a whole number   *)
(* of time units, and to an end inside its own tolerance window.           *)
(*                                                                         *)
(* The algorithm is built from bounded loops, written as functions on      *)
(* 0..n that are defined by recursion.  Recursion shows that a loop whose  *)
(* steps stay within a set has such a function, and UpTo what it keeps.    *)
(***************************************************************************)
EXTENDS BoilSync, TLAPS, FiniteSetTheorems, WellFoundedInduction, SequenceTheorems

-----------------------------------------------------------------------------
(* Numbers.                                                                *)

LEMMA LeastNumber ==
  ASSUME NEW T, T \subseteq Nat, T # {}
  PROVE  \E m \in T : \A n \in T : m <= n
<1>1. PICK m \in T : \A n \in T : <<n, m>> \notin OpToRel(<, Nat)
  BY NatLessThanWellFounded, WFMin
<1>2. \A n \in T : ~(n < m)
  BY <1>1 DEF OpToRel
<1> QED
  BY <1>2

\* What holds at the start of a loop and is kept by its rounds holds throughout.
LEMMA UpTo ==
  ASSUME NEW n \in Nat, NEW T, 0 \in T, \A k \in 1..n : k - 1 \in T => k \in T
  PROVE  n \in T
<1> DEFINE F == (0..n) \ T
<1>1. F \subseteq Nat
  OBVIOUS
<1>2. SUFFICES ASSUME F # {} PROVE FALSE
  OBVIOUS
<1>3. PICK m \in F : \A k \in F : m <= k
  <2> HIDE DEF F
  <2> QED
    BY <1>1, <1>2, LeastNumber
<1>4. m \in 1..n /\ m - 1 \in 0..n /\ m - 1 \notin F
  BY <1>3
<1> QED
  BY <1>3, <1>4

\* f is the loop of n rounds from b, within S, whose round k takes x to g[k][x].
IsRun(f, n, S, b, g) ==
  f \in [0..n -> S] /\ f[0] = b /\ \A k \in 1..n : f[k] = g[k][f[k - 1]]

LEMMA Recursion ==
  ASSUME NEW n \in Nat, NEW S, NEW b \in S, NEW g \in [1..n -> [S -> S]]
  PROVE  \E f : IsRun(f, n, S, b, g)
<1> DEFINE Loop(m) == \E f : IsRun(f, m, S, b, g)
           T == {m \in 0..n : Loop(m)}
<1>1. 0 \in T
  <2> DEFINE f == [k \in 0..0 |-> b]
  <2>1. IsRun(f, 0, S, b, g)
    BY DEF IsRun
  <2> QED
    BY <2>1
<1>2. \A m \in 1..n : m - 1 \in T => m \in T
  <2> SUFFICES ASSUME NEW m \in 1..n, m - 1 \in T PROVE m \in T
    OBVIOUS
  <2>1. PICK f : IsRun(f, m - 1, S, b, g)
    OBVIOUS
  <2> DEFINE h == [k \in 0..m |-> IF k = m THEN g[m][f[m - 1]] ELSE f[k]]
  <2>2. f[m - 1] \in S /\ g[m][f[m - 1]] \in S
    BY <2>1 DEF IsRun
  <2>3. h \in [0..m -> S] /\ h[0] = b
    BY <2>1, <2>2 DEF IsRun
  <2>4. \A k \in 1..m : h[k] = g[k][h[k - 1]]
    BY <2>1 DEF IsRun
  <2>5. IsRun(h, m, S, b, g)
    BY <2>3, <2>4 DEF IsRun
  <2> QED
    BY <2>5
<1> HIDE DEF T
<1>3. n \in T
  BY <1>1, <1>2, UpTo, Zenon
<1> QED
  BY <1>3 DEF T

\* The extremes of a finite set of integers.
LEMMA Extremes ==
  ASSUME NEW S, IsFiniteSet(S), S \subseteq Int, S # {}
  PROVE  /\ \E x \in S : \A y \in S : x >= y
         /\ \E x \in S : \A y \in S : x <= y
<1> DEFINE HasBoth(A) == (\E x \in A : \A y \in A : x >= y) /\ (\E x \in A : \A y \in A : x <= y)
           Has(m) == \A A \in SUBSET S : Cardinality(A) = m /\ A # {} => HasBoth(A)
           n == Cardinality(S)
           T == {m \in 0..n : Has(m)}
<1>0. n \in Nat
  BY FS_CardinalityType
<1>1. 0 \in T
  <2> SUFFICES ASSUME NEW A \in SUBSET S, Cardinality(A) = 0, A # {} PROVE FALSE
    BY <1>0
  <2> QED
    BY FS_Subset, FS_EmptySet
<1>2. \A m \in 1..n : m - 1 \in T => m \in T
  <2> SUFFICES ASSUME NEW m \in 1..n, Has(m - 1) PROVE Has(m)
    <3> HIDE DEF Has
    <3> QED
      OBVIOUS
  <2> SUFFICES ASSUME NEW A \in SUBSET S, Cardinality(A) = m, A # {} PROVE HasBoth(A)
    OBVIOUS
  <2>1. PICK a \in A : TRUE
    OBVIOUS
  <2>2. IsFiniteSet(A) /\ Cardinality(A \ {a}) = m - 1 /\ A \ {a} \in SUBSET S
    BY <2>1, FS_Subset, FS_RemoveElement
  <2>3. CASE A \ {a} = {}
    BY <2>1, <2>3
  <2>4. CASE A \ {a} # {}
    <3>1. HasBoth(A \ {a})
      BY <2>2, <2>4
    <3>2. PICK lo \in A \ {a}, hi \in A \ {a} :
            \A y \in A \ {a} : lo <= y /\ y <= hi
      BY <3>1
    <3>3. a \in Int /\ lo \in Int /\ hi \in Int
      BY <2>1
    <3>4. \E x \in A : \A y \in A : x >= y
      <4>1. CASE a >= hi
        BY <2>1, <3>2, <3>3, <4>1
      <4>2. CASE hi >= a
        BY <2>1, <3>2, <3>3, <4>2
      <4> QED
        BY <3>3, <4>1, <4>2
    <3>5. \E x \in A : \A y \in A : x <= y
      <4>1. CASE a <= lo
        BY <2>1, <3>2, <3>3, <4>1
      <4>2. CASE lo <= a
        BY <2>1, <3>2, <3>3, <4>2
      <4> QED
        BY <3>3, <4>1, <4>2
    <3> QED
      BY <3>4, <3>5
  <2> QED
    BY <2>3, <2>4
<1> HIDE DEF n, T
<1>3. n \in T
  BY <1>0, <1>1, <1>2, UpTo, Zenon
<1> QED
  BY <1>3 DEF T, n

LEMMA MaxIs ==
  ASSUME NEW S, IsFiniteSet(S), S \subseteq Int, S # {}
  PROVE  Max(S) \in S /\ \A y \in S : Max(S) >= y
BY Extremes DEF Max

LEMMA MinIs ==
  ASSUME NEW S, IsFiniteSet(S), S \subseteq Int, S # {}
  PROVE  Min(S) \in S /\ \A y \in S : Min(S) <= y
BY Extremes DEF Min

LEMMA PairIs ==
  ASSUME NEW a \in Int, NEW b \in Int
  PROVE  /\ Max({a, b}) = IF a >= b THEN a ELSE b
         /\ Min({a, b}) = IF a <= b THEN a ELSE b
<1>1. IsFiniteSet({a, b})
  <2>1. IsFiniteSet({a} \cup {b}) /\ {a} \cup {b} = {a, b}
    BY FS_Singleton, FS_AddElement
  <2> QED
    BY <2>1
<1> QED
  BY <1>1, MaxIs, MinIs

LEMMA ClampIs ==
  ASSUME NEW x \in Int, NEW lo \in Int, NEW hi \in Int
  PROVE  /\ Clamp(x, lo, hi) \in Int
         /\ lo <= hi => lo <= Clamp(x, lo, hi) /\ Clamp(x, lo, hi) <= hi
<1> DEFINE m == Max({x, lo})
<1>1. m \in Int /\ m >= x /\ m >= lo
  BY PairIs
<1>2. Clamp(x, lo, hi) = Min({m, hi})
  BY DEF Clamp
<1> HIDE DEF m
<1>3. Min({m, hi}) = IF m <= hi THEN m ELSE hi
  BY <1>1, PairIs
<1> QED
  BY <1>1, <1>2, <1>3

-----------------------------------------------------------------------------
(* Windows and spans.                                                      *)

IsBoil(t) == t.seq \in Nat /\ t.startTime \in Int /\ t.endTime \in Int

\* A set of boils that can be told apart.
BoilSet(R) ==
  IsFiniteSet(R) /\ (\A t \in R : IsBoil(t)) /\ (\A t, u \in R : t.seq = u.seq => t = u)

LEMMA SubBoilSet ==
  ASSUME NEW R, BoilSet(R), NEW S, S \subseteq R
  PROVE  BoilSet(S)
BY FS_Subset DEF BoilSet

LEMMA WindowIs ==
  ASSUME NEW t, IsBoil(t), NEW ratio \in Int
  PROVE  Left(t, ratio) \in Int /\ Right(t, ratio) \in Int
<1> DEFINE half == (t.endTime - t.startTime) * ratio
<1>1. half \in Int /\ t.endTime * 100 \in Int
  BY DEF IsBoil
<1>2. Left(t, ratio) = t.endTime * 100 - half /\ Right(t, ratio) = t.endTime * 100 + half
  BY DEF Left, Right
<1> HIDE DEF half
<1> QED
  BY <1>1, <1>2

\* An image of a finite set is finite.
LEMMA ImageFinite ==
  ASSUME NEW S, IsFiniteSet(S), NEW f, DOMAIN f = S
  PROVE  IsFiniteSet({f[x] : x \in S}) /\ Cardinality({f[x] : x \in S}) <= Cardinality(S)
<1> DEFINE T == {f[x] : x \in S}
           g == [x \in S |-> f[x]]
<1>1. g \in Surjection(S, T)
  BY DEF Surjection
<1> HIDE DEF T, g
<1>2. IsFiniteSet(T) /\ Cardinality(T) <= Cardinality(S)
  BY <1>1, FS_Surjection
<1> QED
  BY <1>2 DEF T

\* The span of a set lies in the windows of all its timers, and ends where one of them does.
LEMMA SpanIs ==
  ASSUME NEW set, BoilSet(set), set # {}, NEW ratio \in Int
  PROVE  /\ Span(set, ratio).left \in Int /\ Span(set, ratio).right \in Int
         /\ \A t \in set : /\ Left(t, ratio) <= Span(set, ratio).left
                           /\ Span(set, ratio).right <= Right(t, ratio)
         /\ \E t \in set : Span(set, ratio).left = Left(t, ratio)
         /\ \E t \in set : Span(set, ratio).right = Right(t, ratio)
<1> DEFINE l == [t \in set |-> Left(t, ratio)]
           r == [t \in set |-> Right(t, ratio)]
           lefts == {l[t] : t \in set}
           rights == {r[t] : t \in set}
<1>1. \A t \in set : l[t] \in Int /\ r[t] \in Int /\ l[t] = Left(t, ratio) /\ r[t] = Right(t, ratio)
  BY WindowIs DEF BoilSet
<1>2. IsFiniteSet(lefts) /\ IsFiniteSet(rights)
  <2>1. DOMAIN l = set /\ DOMAIN r = set /\ IsFiniteSet(set)
    BY DEF BoilSet
  <2> HIDE DEF l, r
  <2> QED
    BY <2>1, ImageFinite
<1>3. lefts = {Left(t, ratio) : t \in set} /\ rights = {Right(t, ratio) : t \in set}
  BY <1>1
<1>4. lefts \subseteq Int /\ lefts # {} /\ rights \subseteq Int /\ rights # {}
  BY <1>1
<1>5. Span(set, ratio) = [left |-> Max(lefts), right |-> Min(rights)]
  BY <1>3 DEF Span
<1>6. \A t \in set : Left(t, ratio) \in lefts /\ Right(t, ratio) \in rights
  BY <1>1
<1>11. /\ \A y \in lefts : \E t \in set : y = Left(t, ratio)
       /\ \A y \in rights : \E t \in set : y = Right(t, ratio)
  BY <1>1
<1> HIDE DEF lefts, rights
<1>7. /\ Max(lefts) \in lefts /\ \A y \in lefts : Max(lefts) >= y
      /\ Min(rights) \in rights /\ \A y \in rights : Min(rights) <= y
  BY <1>2, <1>4, MaxIs, MinIs
<1>8. Span(set, ratio).left = Max(lefts) /\ Span(set, ratio).right = Min(rights)
  BY <1>5
<1>9. Max(lefts) \in Int /\ Min(rights) \in Int
  BY <1>4, <1>7
<1>10. \A t \in set : Left(t, ratio) <= Max(lefts) /\ Min(rights) <= Right(t, ratio)
  BY <1>4, <1>6, <1>7, <1>9
<1> QED
  BY <1>7, <1>8, <1>9, <1>10, <1>11

-----------------------------------------------------------------------------
(* The sets that a cluster is cut into.                                    *)

\* Ranks by centre are 0..n-1, each taken once.
\* How many of S come before p in the order R, a set of pairs.
RankIn(S, R) == [p \in S |-> Cardinality({q \in S : <<q, p>> \in R})]

\* The members of a finite set under a strict order of them have the ranks from 0 on, each
\* its own, in that order.
LEMMA RankedBy ==
  ASSUME NEW S, IsFiniteSet(S), NEW R,
         \A p \in S : <<p, p>> \notin R,
         \A p, q, r \in S : <<p, q>> \in R /\ <<q, r>> \in R => <<p, r>> \in R,
         \A p, q \in S : p # q => <<p, q>> \in R \/ <<q, p>> \in R
  PROVE  /\ RankIn(S, R) \in Bijection(S, 0..(Cardinality(S) - 1))
         /\ \A p, q \in S : <<p, q>> \in R => RankIn(S, R)[p] < RankIn(S, R)[q]
<1> DEFINE n == Cardinality(S)
           before(p) == {q \in S : <<q, p>> \in R}
           rank == RankIn(S, R)
<1>0. n \in Nat /\ DOMAIN rank = S /\ \A p \in S : rank[p] = Cardinality(before(p))
  BY FS_CardinalityType DEF RankIn
<1> HIDE DEF rank, n
<1>1. \A p \in S : IsFiniteSet(before(p)) /\ rank[p] \in Nat /\ rank[p] < n
  <2> SUFFICES ASSUME NEW p \in S PROVE IsFiniteSet(before(p)) /\ rank[p] \in Nat /\ rank[p] < n
    OBVIOUS
  <2>1. before(p) \subseteq S /\ p \notin before(p)
    OBVIOUS
  <2> HIDE DEF before
  <2>2. IsFiniteSet(before(p)) /\ rank[p] \in Nat /\ rank[p] <= n /\ rank[p] # n
    BY <1>0, <2>1, FS_Subset, FS_CardinalityType DEF n
  <2> QED
    BY <1>0, <2>2
<1>2. \A p, q \in S : <<p, q>> \in R => rank[p] < rank[q]
  <2> SUFFICES ASSUME NEW p \in S, NEW q \in S, <<p, q>> \in R PROVE rank[p] < rank[q]
    OBVIOUS
  <2>1. before(p) \subseteq before(q) /\ p \in before(q) /\ p \notin before(p)
    OBVIOUS
  <2> HIDE DEF before
  <2>2. rank[p] <= rank[q] /\ (rank[p] = rank[q] => before(p) = before(q))
    BY <1>0, <1>1, <2>1, FS_Subset
  <2> QED
    BY <1>1, <2>1, <2>2
<1> HIDE DEF before
<1>3. rank \in Injection(S, 0..(n - 1))
  <2>1. rank \in [S -> 0..(n - 1)]
    <3>1. rank = [p \in S |-> rank[p]]
      BY DEF rank, RankIn
    <3> QED
      BY <1>0, <1>1, <3>1
  <2>2. ASSUME NEW p \in S, NEW q \in S, p # q PROVE rank[p] # rank[q]
    <3>1. <<p, q>> \in R \/ <<q, p>> \in R
      BY <2>2
    <3> DEFINE a == rank[p]
               b == rank[q]
    <3>2. a \in Nat /\ b \in Nat /\ (a < b \/ b < a)
      BY <1>1, <1>2, <3>1
    <3> HIDE DEF a, b
    <3>3. a # b
      BY <3>2
    <3> QED
      BY <3>3 DEF a, b
  <2> QED
    BY <2>1, <2>2 DEF Injection, IsInjective
<1>4. IsFiniteSet(0..(n - 1)) /\ Cardinality(0..(n - 1)) = n
  BY <1>0, FS_Interval
<1>5. rank \in Surjection(S, 0..(n - 1))
  BY <1>3, <1>4, FS_Injection DEF n
<1> QED
  BY <1>2, <1>3, <1>5 DEF Bijection, rank, n

LEMMA RanksAre ==
  ASSUME NEW cluster, BoilSet(cluster), NEW v \in 0..(Cardinality(cluster) - 1)
  PROVE  \E t \in cluster : Cardinality({u \in cluster : EarlierCentre(u, t)}) = v
<1> DEFINE R == {p \in cluster \X cluster : EarlierCentre(p[1], p[2])}
           rank == RankIn(cluster, R)
<1>1. IsFiniteSet(cluster) /\ \A t, u \in cluster : <<t, u>> \in R <=> EarlierCentre(t, u)
  BY DEF BoilSet
<1>2. \A t \in cluster : rank[t] = Cardinality({u \in cluster : EarlierCentre(u, t)})
  <2>1. \A t \in cluster : {u \in cluster : <<u, t>> \in R} = {u \in cluster : EarlierCentre(u, t)}
    BY <1>1
  <2> HIDE DEF R
  <2> QED
    BY <2>1 DEF RankIn
<1> HIDE DEF R, rank
<1>3. /\ \A t \in cluster : <<t, t>> \notin R
      /\ \A t, u \in cluster : t # u => <<t, u>> \in R \/ <<u, t>> \in R
      /\ \A t, u, w \in cluster : <<t, u>> \in R /\ <<u, w>> \in R => <<t, w>> \in R
  BY <1>1 DEF EarlierCentre, BoilSet, IsBoil
<1>4. rank \in Bijection(cluster, 0..(Cardinality(cluster) - 1))
  BY <1>1, <1>3, RankedBy DEF rank
<1>5. PICK t \in cluster : rank[t] = v
  BY <1>4 DEF Bijection, Surjection
<1> QED
  BY <1>2, <1>5

LEMMA DivisionIs ==
  ASSUME NEW a \in Nat, NEW m \in Nat \ {0}
  PROVE  /\ a \div m \in Nat /\ (a \div m) * m <= a
         /\ (a \div m) * m \in Nat
OBVIOUS

LEMMA QuotientIs ==
  ASSUME NEW k \in Nat, NEW m \in Nat \ {0}
  PROVE  (k * m) \div m = k
OBVIOUS

LEMMA PartitionIs ==
  ASSUME NEW cluster, BoilSet(cluster), NEW arms \in Nat \ {0}
  PROVE  /\ DOMAIN Partition(cluster, arms) = 1..Len(Partition(cluster, arms))
         /\ Len(Partition(cluster, arms)) \in Nat
         /\ \A k \in 1..Len(Partition(cluster, arms)) :
              Partition(cluster, arms)[k] \in (SUBSET cluster) \ {{}}
<1> DEFINE n == Cardinality(cluster)
           rank(t) == Cardinality({u \in cluster : EarlierCentre(u, t)})
           sets == (n + arms - 1) \div arms
           part(k) == {t \in cluster : rank(t) \div arms = k - 1}
           p == Partition(cluster, arms)
<1>0. n \in Nat /\ arms \in Nat /\ arms >= 1
  BY FS_CardinalityType DEF BoilSet
<1>1. p = [k \in 1..sets |-> part(k)]
  BY DEF Partition
<1>2. n + arms - 1 \in Nat /\ sets \in Nat /\ sets * arms <= n + arms - 1
  <2>1. n + arms - 1 \in Nat
    BY <1>0
  <2> QED
    BY <2>1, DivisionIs
<1>3. ASSUME NEW k \in 1..sets PROVE part(k) # {}
  <2> DEFINE v == (k - 1) * arms
  <2>1. k - 1 \in Nat /\ k <= sets /\ sets \in Nat
    BY <1>2
  <2>2. v \in Nat /\ v + arms <= sets * arms
    <3>1. (k - 1) * arms + arms = k * arms
      BY <1>0
    <3>2. k * arms <= sets * arms
      <4>1. sets - k \in Nat
        BY <2>1
      <4>2. (sets - k) * arms \in Nat
        BY <1>0, <4>1
      <4>3. sets * arms = k * arms + (sets - k) * arms
        BY <1>0, <2>1
      <4> QED
        BY <1>0, <2>1, <4>2, <4>3
    <3> QED
      BY <1>0, <2>1, <3>1, <3>2
  <2> HIDE DEF v, sets, n
  <2>3. v \in 0..(n - 1)
    BY <1>0, <1>2, <2>1, <2>2
  <2>4. PICK t \in cluster : rank(t) = v
    BY <2>3, RanksAre DEF n
  <2>5. v \div arms = k - 1
    BY <2>1, QuotientIs DEF v
  <2> QED
    BY <2>4, <2>5
<1> HIDE DEF sets, p
<1>4. DOMAIN p = 1..sets /\ \A k \in 1..sets : p[k] = part(k)
  BY <1>1
<1>5. \A k \in 1..sets : p[k] \in (SUBSET cluster) \ {{}}
  BY <1>3, <1>4
<1> HIDE DEF part
<1>6. Len(p) = sets
  BY <1>1, <1>2, LenProperties, IsASeq
<1> QED
  BY <1>2, <1>4, <1>5, <1>6 DEF p

\* The sets follow each other by centre.
Ordered(sets, n) ==
  \A i, j \in 1..n : i < j => \A a \in sets[i], b \in sets[j] : ~EarlierCentre(b, a)

LEMMA PartitionOrdered ==
  ASSUME NEW cluster, BoilSet(cluster), NEW arms \in Nat \ {0}
  PROVE  Ordered(Partition(cluster, arms), Len(Partition(cluster, arms)))
<1> DEFINE before(t) == {u \in cluster : EarlierCentre(u, t)}
           rank(t) == Cardinality(before(t))
           sets == (Cardinality(cluster) + arms - 1) \div arms
           part(k) == {t \in cluster : rank(t) \div arms = k - 1}
           p == Partition(cluster, arms)
<1>1. p = [k \in 1..sets |-> part(k)]
  BY DEF Partition
<1>2. \A k \in 1..Len(p) : p[k] = part(k)
  <2>1. DOMAIN p = 1..Len(p)
    BY PartitionIs
  <2>2. DOMAIN p = 1..sets
    BY <1>1
  <2> HIDE DEF part, sets, p
  <2> QED
    BY <1>1, <2>1, <2>2
<1>3. ASSUME NEW a \in cluster, NEW b \in cluster, EarlierCentre(b, a)
      PROVE  rank(b) \in Nat /\ rank(a) \in Nat /\ rank(b) <= rank(a)
  <2>1. before(b) \subseteq before(a) /\ before(a) \subseteq cluster /\ IsFiniteSet(cluster)
    BY <1>3 DEF EarlierCentre, BoilSet, IsBoil
  <2> HIDE DEF before
  <2>2. IsFiniteSet(before(a))
    BY <2>1, FS_Subset
  <2> QED
    BY <2>1, <2>2, FS_Subset, FS_CardinalityType
<1> HIDE DEF p, before
<1> SUFFICES ASSUME NEW i \in 1..Len(p), NEW j \in 1..Len(p), i < j,
                    NEW a \in p[i], NEW b \in p[j], EarlierCentre(b, a)
             PROVE  FALSE
  BY DEF Ordered, p
<1>4. a \in cluster /\ b \in cluster /\ rank(a) \div arms = i - 1 /\ rank(b) \div arms = j - 1
  BY <1>2
<1>5. rank(b) \in Nat /\ rank(a) \in Nat /\ rank(b) <= rank(a)
  BY <1>3, <1>4
<1>6. \A x, y \in Nat : x <= y => x \div arms <= y \div arms
  <2> SUFFICES ASSUME NEW x \in Nat, NEW y \in Nat, x <= y, NEW q, q = x \div arms,
                      NEW r, r = y \div arms
               PROVE  q <= r
    OBVIOUS
  <2>1. q \in Nat /\ r \in Nat /\ arms * q <= x /\ y < arms * r + arms
    OBVIOUS
  <2>2. ASSUME r < q PROVE FALSE
    <3>1. PICK d \in Nat : q = r + 1 + d
      <4>1. q - r - 1 \in Nat /\ q = r + 1 + (q - r - 1)
        BY <2>1, <2>2
      <4> QED
        BY <4>1
    <3>2. arms * q = arms * r + arms + arms * d /\ arms * d \in Nat
      BY <2>1, <3>1
    <3>3. arms * r \in Nat /\ arms * q \in Nat
      BY <2>1
    <3> QED
      BY <2>1, <3>2, <3>3
  <2> QED
    BY <2>1, <2>2
<1>7. i \in Int /\ j \in Int
  OBVIOUS
<1>8. rank(b) \div arms <= rank(a) \div arms
  <2> HIDE DEF rank
  <2> QED
    BY <1>5, <1>6
<1>9. j - 1 <= i - 1
  <2> HIDE DEF rank
  <2> QED
    BY <1>4, <1>8
<1> QED
  BY <1>7, <1>9

\* Sets of boils with a time in common.
Together(R, ratio) == {set \in (SUBSET R) \ {{}} : Syncable(set, ratio)}

LEMMA SyncableSetsAre ==
  ASSUME NEW R, NEW ratio, NEW sets, Len(sets) \in Nat,
         \A k \in 1..Len(sets) : sets[k] \in (SUBSET R) \ {{}}
  PROVE  /\ SyncableSets(sets, ratio) \in Seq(Together(R, ratio))
         /\ Ordered(sets, Len(sets)) =>
              Ordered(SyncableSets(sets, ratio), Len(SyncableSets(sets, ratio)))
<1> DEFINE n == Len(sets)
           S == Seq(Together(R, ratio))
           next(k, x) == IF Syncable(sets[k], ratio) THEN Append(x, sets[k]) ELSE x
           g == [k \in 1..n |-> [x \in S |-> next(k, x)]]
           IsLoop(f) == f = [k \in 0..n |-> IF k = 0 THEN <<>> ELSE next(k, f[k - 1])]
           kept == CHOOSE f : IsLoop(f)
<1>0. n \in Nat
  OBVIOUS
<1>00. \A k \in 1..n : sets[k] \in (SUBSET R) \ {{}}
  OBVIOUS
<1> HIDE DEF n
<1>1. \A k \in 1..n : \A x \in S : next(k, x) \in S
  <2> SUFFICES ASSUME NEW k \in 1..n, NEW x \in S PROVE next(k, x) \in S
    OBVIOUS
  <2>1. CASE Syncable(sets[k], ratio)
    <3>1. sets[k] \in Together(R, ratio)
      BY <1>00, <2>1 DEF Together
    <3> QED
      BY <2>1, <3>1, AppendProperties
  <2>2. CASE ~Syncable(sets[k], ratio)
    BY <2>2
  <2> QED
    BY <2>1, <2>2
<1>2. <<>> \in S
  OBVIOUS
<1> HIDE DEF next, S
<1>3. g \in [1..n -> [S -> S]] /\ \A k \in 1..n : \A x \in S : g[k][x] = next(k, x)
  BY <1>1
<1> HIDE DEF g
<1>4. PICK f : IsRun(f, n, S, <<>>, g)
  BY <1>0, <1>2, <1>3, Recursion
<1>5. \A k \in 1..n : f[k - 1] \in S /\ f[k] = next(k, f[k - 1])
  BY <1>0, <1>3, <1>4 DEF IsRun
<1>6. IsLoop(f)
  BY <1>0, <1>4, <1>5 DEF IsRun
<1>7. IsLoop(kept)
  <2> HIDE DEF IsLoop
  <2> QED
    BY <1>6
<1> HIDE DEF kept
<1>8. kept[0] = <<>> /\ \A k \in 1..n : kept[k] = next(k, kept[k - 1])
  BY <1>0, <1>7
<1> DEFINE T == {k \in 0..n : kept[k] \in S}
<1>9. 0 \in T /\ \A k \in 1..n : k - 1 \in T => k \in T
  BY <1>0, <1>1, <1>2, <1>8
<1> HIDE DEF T
<1>10. n \in T
  BY <1>0, <1>9, UpTo, Zenon
<1>11. SyncableSets(sets, ratio) = kept[n]
  BY DEF SyncableSets, kept, next, n
<1>12. \A k \in 0..n : kept[k] \in S
  <2> SUFFICES ASSUME NEW k \in 0..n PROVE k \in T
    BY DEF T
  <2>1. 0 \in T /\ \A j \in 1..k : j - 1 \in T => j \in T
    BY <1>0, <1>9
  <2> QED
    BY <1>0, <2>1, UpTo
<1> DEFINE Behind(k) == \A i \in 1..Len(kept[k]), l \in (k + 1)..n :
                          \A a \in kept[k][i], b \in sets[l] : ~EarlierCentre(b, a)
           U == {k \in 0..n : Ordered(kept[k], Len(kept[k])) /\ Behind(k)}
<1>13. ASSUME Ordered(sets, n) PROVE n \in U
  <2>1. 0 \in U
    <3>1. Len(kept[0]) = 0
      BY <1>8
    <3> QED
      BY <1>0, <3>1 DEF Ordered
  <2>2. ASSUME NEW k \in 1..n, k - 1 \in U PROVE k \in U
    <3>1. Ordered(kept[k - 1], Len(kept[k - 1])) /\ Behind(k - 1)
      BY <2>2
    <3>2. kept[k] = next(k, kept[k - 1]) /\ kept[k - 1] \in Seq(Together(R, ratio)) /\ k \in 0..n
      BY <1>0, <1>8, <1>12 DEF S
    <3> DEFINE was == kept[k - 1]
               m == Len(was)
    <3>3. m \in Nat /\ was = kept[k - 1]
      BY <3>2
    <3>4. CASE ~Syncable(sets[k], ratio)
      <4>1. kept[k] = was
        BY <3>2, <3>4 DEF next
      <4> HIDE DEF was
      <4>2. Behind(k)
        <5> SUFFICES ASSUME NEW i \in 1..m, NEW l \in (k + 1)..n, NEW a \in was[i], NEW b \in sets[l]
                     PROVE  ~EarlierCentre(b, a)
          BY <4>1
        <5>1. l \in (k - 1 + 1)..n
          BY <1>0
        <5> QED
          BY <3>1, <3>3, <5>1
      <4> QED
        BY <3>1, <3>2, <3>3, <4>1, <4>2
    <3>5. CASE Syncable(sets[k], ratio)
      <4>1. kept[k] = Append(was, sets[k])
        BY <3>2, <3>5 DEF next
      <4>2. /\ Len(kept[k]) = m + 1 /\ kept[k][m + 1] = sets[k]
            /\ \A i \in 1..m : kept[k][i] = was[i]
        BY <3>2, <4>1
      <4> HIDE DEF was, m
      <4>3. \A i \in 1..m, l \in k..n : \A a \in was[i], b \in sets[l] : ~EarlierCentre(b, a)
        <5>1. \A l \in k..n : l \in (k - 1 + 1)..n
          BY <1>0
        <5> QED
          BY <3>1, <3>3, <5>1 DEF m
      <4>4. Ordered(kept[k], m + 1)
        <5> SUFFICES ASSUME NEW i \in 1..(m + 1), NEW j \in 1..(m + 1), i < j,
                            NEW a \in kept[k][i], NEW b \in kept[k][j]
                     PROVE  ~EarlierCentre(b, a)
          BY DEF Ordered
        <5>1. i \in 1..m /\ a \in was[i]
          BY <3>3, <4>2
        <5>2. CASE j \in 1..m
          BY <3>1, <3>3, <4>2, <5>1, <5>2 DEF Ordered, m
        <5>3. CASE j = m + 1
          <6>1. b \in sets[k] /\ k \in k..n
            BY <4>2, <5>3
          <6> QED
            BY <4>3, <5>1, <6>1
        <5> QED
          BY <3>3, <5>2, <5>3
      <4>5. Behind(k)
        <5> SUFFICES ASSUME NEW i \in 1..(m + 1), NEW l \in (k + 1)..n,
                            NEW a \in kept[k][i], NEW b \in sets[l]
                     PROVE  ~EarlierCentre(b, a)
          BY <4>2
        <5>1. CASE i \in 1..m
          <6>1. l \in k..n /\ a \in was[i]
            BY <1>0, <4>2, <5>1
          <6> QED
            BY <4>3, <5>1, <6>1
        <5>2. CASE i = m + 1
          <6>1. a \in sets[k] /\ l \in 1..n /\ k < l
            BY <1>0, <4>2, <5>2
          <6> QED
            BY <1>13, <6>1 DEF Ordered
        <5> QED
          BY <3>3, <5>1, <5>2
      <4> QED
        BY <3>2, <4>2, <4>4, <4>5
    <3> QED
      BY <3>4, <3>5
  <2> HIDE DEF U
  <2> QED
    BY <1>0, <2>1, <2>2, UpTo
<1> QED
  BY <1>10, <1>11, <1>13 DEF S, T, n

-----------------------------------------------------------------------------
(* The gap.                                                                *)

\* The spans of the m sets to be placed.
SpanSeq(spans, m) ==
  /\ DOMAIN spans = 1..m /\ Len(spans) = m
  /\ \A k \in 1..m : /\ spans[k].left \in Int /\ spans[k].right \in Int
                     /\ spans[k].left <= spans[k].right

\* One round of the binary search.
Halved(spans, b) ==
  LET mid == (b.lo + b.hi + 1) \div 2
  IN  IF b.lo >= b.hi THEN b
      ELSE IF FeasibleGap(spans, mid) THEN [lo |-> mid, hi |-> b.hi]
      ELSE [lo |-> b.lo, hi |-> mid - 1]

\* b are the rounds of the search for the gap from 0 and top.
IsBisection(b, top, spans) ==
  /\ b \in [0..Bits -> [lo : Int, hi : Int]] /\ b[0] = [lo |-> 0, hi |-> top]
  /\ \A k \in 1..Bits : b[k] = Halved(spans, b[k - 1])

\* The search starts at what is more than any two edges are apart, but no more than that.
IsTop(top, spans, m) ==
  /\ top \in Int /\ \A i, j \in 1..m : spans[j].right - spans[i].left < top
  /\ \E i, j \in 1..m : top = spans[j].right - spans[i].left + 1

LEMMA BisectionIs ==
  ASSUME NEW m \in Nat, m >= 2, NEW spans, SpanSeq(spans, m)
  PROVE  \E top, b : /\ IsTop(top, spans, m) /\ IsBisection(b, top, spans)
                     /\ MaxFeasibleGap(spans) = b[Bits].lo
<1> DEFINE lefts == {spans[k].left : k \in DOMAIN spans}
           rights == {spans[k].right : k \in DOMAIN spans}
           top == Max(rights) - Min(lefts) + 1
           mid(b) == (b.lo + b.hi + 1) \div 2
           next(b) == IF b.lo >= b.hi THEN b
                      ELSE IF FeasibleGap(spans, mid(b)) THEN [lo |-> mid(b), hi |-> b.hi]
                      ELSE [lo |-> b.lo, hi |-> mid(b) - 1]
           S == [lo : Int, hi : Int]
           start == [lo |-> 0, hi |-> top]
           n == Bits
           g == [k \in 1..n |-> [x \in S |-> next(x)]]
           IsLoop(f) == f = [k \in 0..n |-> IF k = 0 THEN start ELSE next(f[k - 1])]
           bisected == CHOOSE f : IsLoop(f)
<1>0. n \in Nat
  BY DEF Bits
<1>1. IsTop(top, spans, m)
  <2> DEFINE l == [k \in 1..m |-> spans[k].left]
             r == [k \in 1..m |-> spans[k].right]
  <2>1. lefts = {l[k] : k \in 1..m} /\ rights = {r[k] : k \in 1..m}
    BY DEF SpanSeq
  <2>2. IsFiniteSet(1..m)
    BY FS_Interval
  <2>3. IsFiniteSet(lefts) /\ IsFiniteSet(rights)
    <3>1. DOMAIN l = 1..m /\ DOMAIN r = 1..m
      OBVIOUS
    <3> HIDE DEF l, r, lefts, rights
    <3> QED
      BY <2>1, <2>2, <3>1, ImageFinite
  <2>4. lefts \subseteq Int /\ rights \subseteq Int
    BY DEF SpanSeq
  <2>5. lefts # {} /\ rights # {}
    BY DEF SpanSeq
  <2>7. /\ \A k \in 1..m : spans[k].left \in lefts /\ spans[k].right \in rights
        /\ \A y \in lefts : \E k \in 1..m : y = spans[k].left
        /\ \A y \in rights : \E k \in 1..m : y = spans[k].right
    BY DEF SpanSeq
  <2> HIDE DEF lefts, rights
  <2> DEFINE hi == Max(rights)
             lo == Min(lefts)
  <2>6. /\ hi \in rights /\ lo \in lefts
        /\ (\A y \in rights : hi >= y) /\ (\A y \in lefts : lo <= y)
    BY <2>3, <2>4, <2>5, MaxIs, MinIs
  <2>8. hi \in Int /\ lo \in Int /\ top = hi - lo + 1
    BY <2>4, <2>6
  <2> HIDE DEF hi, lo, top
  <2>9. \A i, j \in 1..m : spans[j].right - spans[i].left < top
    <3> SUFFICES ASSUME NEW i \in 1..m, NEW j \in 1..m
                 PROVE  spans[j].right - spans[i].left < top
      OBVIOUS
    <3>1. hi >= spans[j].right /\ lo <= spans[i].left
      BY <2>6, <2>7
    <3>2. spans[j].right \in Int /\ spans[i].left \in Int
      BY <2>4, <2>7
    <3> QED
      BY <2>8, <3>1, <3>2
  <2>10. \E i, j \in 1..m : top = spans[j].right - spans[i].left + 1
    BY <2>6, <2>7, <2>8
  <2> QED
    BY <2>8, <2>9, <2>10 DEF IsTop
<1> HIDE DEF top, n
<1>2. start \in S /\ \A x \in S : next(x) \in S
  <2>0. top \in Int
    BY <1>1 DEF IsTop
  <2>1. \A x \in S : mid(x) \in Int
    OBVIOUS
  <2> HIDE DEF mid
  <2> QED
    BY <2>0, <2>1
<1>12. \A x : next(x) = Halved(spans, x)
  BY DEF Halved
<1> HIDE DEF next, S, start
<1>3. g \in [1..n -> [S -> S]] /\ \A k \in 1..n : \A x \in S : g[k][x] = next(x)
  BY <1>2
<1> HIDE DEF g
<1>4. PICK f : IsRun(f, n, S, start, g)
  BY <1>0, <1>2, <1>3, Recursion
<1>5. \A k \in 1..n : f[k - 1] \in S /\ f[k] = next(f[k - 1])
  BY <1>0, <1>3, <1>4 DEF IsRun
<1>6. IsLoop(f)
  BY <1>0, <1>4, <1>5 DEF IsRun
<1>7. IsLoop(bisected)
  <2> HIDE DEF IsLoop
  <2> QED
    BY <1>6
<1> HIDE DEF bisected
<1>8. bisected[0] = start /\ \A k \in 1..n : bisected[k] = next(bisected[k - 1])
  BY <1>0, <1>7
<1> DEFINE T == {k \in 0..n : bisected[k] \in S}
<1>9. 0 \in T /\ \A k \in 1..n : k - 1 \in T => k \in T
  BY <1>0, <1>2, <1>8
<1>10. \A k \in 0..n : bisected[k] \in S
  <2> SUFFICES ASSUME NEW k \in 0..n PROVE k \in T
    BY DEF T
  <2>1. 0 \in T /\ \A j \in 1..k : j - 1 \in T => j \in T
    BY <1>0, <1>9
  <2> HIDE DEF T
  <2> QED
    BY <1>0, <2>1, UpTo
<1>13. bisected \in [0..n -> S]
  <2>1. DOMAIN bisected = 0..n /\ bisected = [k \in 0..n |-> bisected[k]]
    BY <1>7
  <2> QED
    BY <1>10, <2>1
<1>11. MaxFeasibleGap(spans) = bisected[n].lo
  <2>1. ~(Len(spans) < 2)
    BY DEF SpanSeq
  <2> QED
    BY <2>1 DEF MaxFeasibleGap, bisected, next, mid, start, top, lefts, rights, n
<1>14. IsBisection(bisected, top, spans)
  BY <1>8, <1>12, <1>13 DEF IsBisection, S, start, n
<1> QED
  BY <1>1, <1>11, <1>14 DEF n

LEMMA GapIs ==
  ASSUME NEW m \in Nat, NEW spans, SpanSeq(spans, m)
  PROVE  MaxFeasibleGap(spans) \in Int
<1>1. CASE m < 2
  <2>1. Len(spans) < 2
    BY <1>1 DEF SpanSeq
  <2>2. Len(spans) < 2 => MaxFeasibleGap(spans) = 0
    BY Zenon DEF MaxFeasibleGap
  <2> QED
    BY <2>1, <2>2
<1>2. CASE m >= 2
  <2>1. PICK top, b : IsBisection(b, top, spans) /\ MaxFeasibleGap(spans) = b[Bits].lo
    BY <1>2, BisectionIs
  <2>2. b[Bits] \in [lo : Int, hi : Int]
    BY <2>1 DEF IsBisection, Bits
  <2> QED
    BY <2>1, <2>2
<1> QED
  BY <1>1, <1>2

-----------------------------------------------------------------------------
(* The blocks.                                                             *)

AllBlocks ==
  {b \in [first : Nat, last : Nat, sum : Int, lo : Int, hi : Int, value : Int] : b.first <= b.last}

\* Blocks in order that cover the items 1..n and no others.
BlockSeqs(n) ==
  {bs \in Seq(AllBlocks) :
     /\ \A i \in 1..(Len(bs) - 1) : bs[i].last < bs[i + 1].first
     /\ \A i \in 1..Len(bs) : bs[i].last <= n
     /\ \A k \in 1..n : \E i \in 1..Len(bs) : bs[i].first <= k /\ k <= bs[i].last}

LEMMA BlockIs ==
  ASSUME NEW first \in Nat, NEW last \in Nat, first <= last,
         NEW sum \in Int, NEW lo \in Int, NEW hi \in Int
  PROVE  /\ Block(first, last, sum, lo, hi) \in AllBlocks
         /\ Block(first, last, sum, lo, hi).first = first
         /\ Block(first, last, sum, lo, hi).last = last
<1> DEFINE q == sum \div (last - first + 1)
           v == Clamp(q, lo, hi)
<1>1. last - first + 1 \in Nat \ {0}
  OBVIOUS
<1>2. q \in Int
  BY <1>1
<1> HIDE DEF q
<1>3. v \in Int
  BY <1>2, ClampIs
<1>4. Block(first, last, sum, lo, hi)
        = [first |-> first, last |-> last, sum |-> sum, lo |-> lo, hi |-> hi, value |-> v]
  BY DEF Block, q
<1> HIDE DEF v
<1> QED
  BY <1>3, <1>4 DEF AllBlocks

LEMMA PoolIs ==
  ASSUME NEW a \in AllBlocks, NEW b \in AllBlocks, a.last < b.first
  PROVE  /\ Pool(a, b) \in AllBlocks
         /\ Pool(a, b).first = a.first /\ Pool(a, b).last = b.last
<1>1. /\ a.first \in Nat /\ a.last \in Nat /\ a.first <= a.last
      /\ b.first \in Nat /\ b.last \in Nat /\ b.first <= b.last
      /\ a.sum \in Int /\ b.sum \in Int /\ a.lo \in Int /\ b.lo \in Int
      /\ a.hi \in Int /\ b.hi \in Int
  BY DEF AllBlocks
<1> DEFINE lo == Max({a.lo, b.lo})
           hi == Min({a.hi, b.hi})
           sum == a.sum + b.sum
<1>2. a.first <= b.last /\ sum \in Int
  BY <1>1
<1>3. lo \in Int /\ hi \in Int
  <2>1. \A x \in Int : \A y \in Int : Max({x, y}) \in Int /\ Min({x, y}) \in Int
    BY PairIs
  <2> QED
    BY <1>1, <2>1
<1>4. Pool(a, b) = Block(a.first, b.last, sum, lo, hi)
  BY DEF Pool
<1> DEFINE first == a.first
           last == b.last
<1>5. first \in Nat /\ last \in Nat /\ first <= last
  BY <1>1, <1>2
<1>6. Pool(a, b) = Block(first, last, sum, lo, hi)
  BY <1>4
<1> HIDE DEF lo, hi, sum, first, last
<1>7. /\ Block(first, last, sum, lo, hi) \in AllBlocks
      /\ Block(first, last, sum, lo, hi).first = first
      /\ Block(first, last, sum, lo, hi).last = last
  <2> USE <1>2, <1>3, <1>5
  <2>1. Block(first, last, sum, lo, hi) \in AllBlocks
    BY BlockIs
  <2>2. Block(first, last, sum, lo, hi).first = first
    BY DEF Block
  <2>3. Block(first, last, sum, lo, hi).last = last
    BY DEF Block
  <2> QED
    BY <2>1, <2>2, <2>3
<1> QED
  BY <1>6, <1>7 DEF first, last

LEMMA CollapseKeeps ==
  ASSUME NEW k \in Nat, NEW blocks \in BlockSeqs(k)
  PROVE  Collapse(blocks) \in BlockSeqs(k)
<1> DEFINE n == Len(blocks)
           S == BlockSeqs(k)
           m(bs) == Len(bs)
           merged(bs) == Append(SubSeq(bs, 1, m(bs) - 2), Pool(bs[m(bs) - 1], bs[m(bs)]))
           next(bs) == IF m(bs) < 2 \/ bs[m(bs) - 1].value <= bs[m(bs)].value THEN bs ELSE merged(bs)
           g == [i \in 1..n |-> [x \in S |-> next(x)]]
           IsLoop(f) == f = [i \in 0..n |-> IF i = 0 THEN blocks ELSE next(f[i - 1])]
           pooled == CHOOSE f : IsLoop(f)
<1>0. n \in Nat
  BY DEF BlockSeqs
<1>1. ASSUME NEW bs \in S, ~(Len(bs) < 2) PROVE merged(bs) \in S
  <2> DEFINE p == Pool(bs[Len(bs) - 1], bs[Len(bs)])
             front == SubSeq(bs, 1, Len(bs) - 2)
             out == Append(front, p)
  <2>1. /\ bs \in Seq(AllBlocks) /\ Len(bs) \in Nat /\ Len(bs) >= 2
        /\ \A i \in 1..Len(bs) : bs[i] \in AllBlocks
    BY <1>1, ElementOfSeq DEF BlockSeqs
  <2>2. /\ \A i \in 1..(Len(bs) - 1) : bs[i].last < bs[i + 1].first
        /\ \A i \in 1..Len(bs) : bs[i].last <= k
        /\ \A j \in 1..k : \E i \in 1..Len(bs) : bs[i].first <= j /\ j <= bs[i].last
    BY DEF BlockSeqs
  <2>3. bs[Len(bs) - 1].last < bs[Len(bs)].first
    <3>1. Len(bs) - 1 \in 1..(Len(bs) - 1) /\ (Len(bs) - 1) + 1 = Len(bs)
      BY <2>1
    <3> QED
      BY <2>2, <3>1
  <2>4. p \in AllBlocks /\ p.first = bs[Len(bs) - 1].first /\ p.last = bs[Len(bs)].last
    BY <2>1, <2>3, PoolIs
  <2> HIDE DEF p
  <2>5. /\ front \in Seq(AllBlocks) /\ Len(front) = Len(bs) - 2
        /\ \A i \in 1..(Len(bs) - 2) : front[i] = bs[i]
    <3>1. Len(bs) - 2 \in Int /\ 1 \in Int /\ \A i \in 1..(Len(bs) - 2) : bs[i] \in AllBlocks
      BY <2>1
    <3>2. front \in Seq(AllBlocks)
      BY <3>1, SubSeqProperties
    <3>3. Len(front) = IF 1 <= Len(bs) - 2 THEN (Len(bs) - 2) - 1 + 1 ELSE 0
      BY <3>1, SubSeqProperties
    <3>4. \A i \in 1..((Len(bs) - 2) - 1 + 1) : front[i] = bs[1 + i - 1]
      BY <3>1, SubSeqProperties
    <3> HIDE DEF front
    <3>5. \A i \in 1..(Len(bs) - 2) : i \in 1..((Len(bs) - 2) - 1 + 1) /\ 1 + i - 1 = i
      BY <2>1
    <3>6. Len(front) = Len(bs) - 2
      <4> DEFINE l == Len(bs)
                 f == Len(front)
      <4>1. l \in Nat /\ l >= 2 /\ f = IF 1 <= l - 2 THEN (l - 2) - 1 + 1 ELSE 0
        BY <2>1, <3>3, Zenon
      <4> HIDE DEF l, f
      <4>2. f = l - 2
        BY <4>1
      <4> QED
        BY <4>2 DEF l, f
    <3>7. \A i \in 1..(Len(bs) - 2) : front[i] = bs[i]
      <4> SUFFICES ASSUME NEW i \in 1..(Len(bs) - 2) PROVE front[i] = bs[i]
        OBVIOUS
      <4>1. front[i] = bs[1 + i - 1]
        BY <3>4, <3>5
      <4> QED
        BY <3>5, <4>1
    <3> QED
      BY <3>2, <3>6, <3>7
  <2> HIDE DEF front
  <2>6. /\ out \in Seq(AllBlocks) /\ Len(out) = Len(bs) - 1
        /\ \A i \in 1..(Len(bs) - 2) : out[i] = bs[i]
        /\ out[Len(bs) - 1] = p
    BY <2>1, <2>4, <2>5, AppendProperties
  <2> HIDE DEF out
  <2>7. \A i \in 1..Len(bs) : /\ bs[i].first \in Nat /\ bs[i].last \in Nat
                              /\ bs[i].first <= bs[i].last
    BY <2>1 DEF AllBlocks
  <2>8. \A i \in 1..(Len(out) - 1) : out[i].last < out[i + 1].first
    <3> SUFFICES ASSUME NEW i \in 1..(Len(out) - 1) PROVE out[i].last < out[i + 1].first
      OBVIOUS
    <3>1. out[i] = bs[i] /\ i \in 1..(Len(bs) - 1) /\ i + 1 \in 1..(Len(bs) - 1)
      BY <2>1, <2>6
    <3>2. out[i + 1].first = bs[i + 1].first
      BY <2>1, <2>4, <2>6, <3>1
    <3> QED
      BY <2>2, <3>1, <3>2
  <2>9. \A i \in 1..Len(out) : out[i].last <= k
    BY <2>1, <2>2, <2>4, <2>6
  <2>10. \A j \in 1..k : \E i \in 1..Len(out) : out[i].first <= j /\ j <= out[i].last
    <3> SUFFICES ASSUME NEW j \in 1..k
                 PROVE  \E i \in 1..Len(out) : out[i].first <= j /\ j <= out[i].last
      OBVIOUS
    <3>1. PICK i \in 1..Len(bs) : bs[i].first <= j /\ j <= bs[i].last
      BY <2>2
    <3>2. CASE i \in 1..(Len(bs) - 2)
      BY <2>1, <2>6, <3>1, <3>2
    <3>3. CASE i \in {Len(bs) - 1, Len(bs)}
      <4> DEFINE l == Len(bs) - 1
      <4>1. l \in 1..Len(bs) /\ l \in 1..Len(out) /\ l + 1 = Len(bs) /\ Len(bs) \in 1..Len(bs)
        BY <2>1, <2>6
      <4>2. out[l].first = bs[l].first /\ out[l].last = bs[Len(bs)].last
        BY <2>4, <2>6
      <4>3. bs[l].last < bs[Len(bs)].first
        BY <2>3
      <4> HIDE DEF l
      <4>4. bs[l].first <= j /\ j <= bs[Len(bs)].last
        <5>1. CASE i = l
          <6>1. bs[l].last < bs[Len(bs)].first /\ bs[Len(bs)].first <= bs[Len(bs)].last
            BY <2>7, <4>1, <4>3
          <6>2. bs[l].last \in Nat /\ bs[Len(bs)].first \in Nat /\ bs[Len(bs)].last \in Nat
            BY <2>7, <4>1
          <6> QED
            BY <3>1, <5>1, <6>1, <6>2
        <5>2. CASE i = Len(bs)
          <6>1. bs[l].first <= bs[l].last /\ bs[l].last < bs[Len(bs)].first
            BY <2>7, <4>1, <4>3
          <6>2. bs[l].first \in Nat /\ bs[l].last \in Nat /\ bs[Len(bs)].first \in Nat
            BY <2>7, <4>1
          <6> QED
            BY <3>1, <5>2, <6>1, <6>2
        <5>3. i = l \/ i = Len(bs)
          BY <3>3 DEF l
        <5> QED
          BY <5>1, <5>2, <5>3
      <4> QED
        BY <4>1, <4>2, <4>4
    <3> QED
      BY <2>1, <3>1, <3>2, <3>3
  <2>11. out \in S
    BY <2>6, <2>8, <2>9, <2>10 DEF BlockSeqs
  <2> QED
    BY <2>11 DEF out, front, p
<1> HIDE DEF n, merged, S
<1>2. blocks \in S /\ \A x \in S : next(x) \in S
  BY <1>1 DEF S
<1> HIDE DEF next
<1>3. g \in [1..n -> [S -> S]] /\ \A i \in 1..n : \A x \in S : g[i][x] = next(x)
  BY <1>2
<1> HIDE DEF g
<1>4. PICK f : IsRun(f, n, S, blocks, g)
  BY <1>0, <1>2, <1>3, Recursion
<1>5. \A i \in 1..n : f[i - 1] \in S /\ f[i] = next(f[i - 1])
  BY <1>0, <1>3, <1>4 DEF IsRun
<1>6. IsLoop(f)
  BY <1>0, <1>4, <1>5 DEF IsRun
<1>7. IsLoop(pooled)
  <2> HIDE DEF IsLoop
  <2> QED
    BY <1>6
<1> HIDE DEF pooled
<1>8. pooled[0] = blocks /\ \A i \in 1..n : pooled[i] = next(pooled[i - 1])
  BY <1>0, <1>7
<1> DEFINE T == {i \in 0..n : pooled[i] \in S}
<1>9. 0 \in T /\ \A i \in 1..n : i - 1 \in T => i \in T
  BY <1>0, <1>2, <1>8
<1> HIDE DEF T
<1>10. n \in T
  BY <1>0, <1>9, UpTo, Zenon
<1>11. Collapse(blocks) = pooled[n]
  BY DEF Collapse, pooled, next, merged, n
<1> QED
  BY <1>10, <1>11 DEF S, T

\* The items to be placed: their goals and bounds are whole numbers.
ItemSeq(items, m) ==
  /\ DOMAIN items = 1..m /\ Len(items) = m
  /\ \A k \in 1..m : items[k].goal \in Int /\ items[k].lo \in Int /\ items[k].hi \in Int

\* One more item: its block goes behind the others.
LEMMA AppendBlock ==
  ASSUME NEW k \in Nat \ {0}, NEW bs \in BlockSeqs(k - 1),
         NEW b \in AllBlocks, b.first = k, b.last = k
  PROVE  Append(bs, b) \in BlockSeqs(k)
<1> DEFINE out == Append(bs, b)
<1>1. /\ bs \in Seq(AllBlocks) /\ Len(bs) \in Nat
      /\ \A i \in 1..Len(bs) : bs[i] \in AllBlocks
  BY ElementOfSeq DEF BlockSeqs
<1>2. /\ \A i \in 1..(Len(bs) - 1) : bs[i].last < bs[i + 1].first
      /\ \A i \in 1..Len(bs) : bs[i].last <= k - 1
      /\ \A j \in 1..(k - 1) : \E i \in 1..Len(bs) : bs[i].first <= j /\ j <= bs[i].last
  BY DEF BlockSeqs
<1>3. /\ out \in Seq(AllBlocks) /\ Len(out) = Len(bs) + 1
      /\ \A i \in 1..Len(bs) : out[i] = bs[i]
      /\ out[Len(bs) + 1] = b
  BY <1>1, AppendProperties
<1> HIDE DEF out
<1>4. \A i \in 1..Len(bs) : bs[i].first \in Nat /\ bs[i].last \in Nat
  BY <1>1 DEF AllBlocks
<1>5. \A i \in 1..(Len(out) - 1) : out[i].last < out[i + 1].first
  <2> SUFFICES ASSUME NEW i \in 1..(Len(out) - 1) PROVE out[i].last < out[i + 1].first
    OBVIOUS
  <2>1. i \in 1..Len(bs) /\ out[i] = bs[i]
    BY <1>1, <1>3
  <2>2. CASE i = Len(bs)
    BY <1>2, <1>3, <1>4, <2>1, <2>2
  <2>3. CASE i # Len(bs)
    <3>1. i \in 1..(Len(bs) - 1) /\ i + 1 \in 1..Len(bs)
      BY <1>1, <2>1, <2>3
    <3> QED
      BY <1>2, <1>3, <2>1, <3>1
  <2> QED
    BY <2>2, <2>3
<1>6. \A i \in 1..Len(out) : out[i].last <= k
  <2> SUFFICES ASSUME NEW i \in 1..Len(out) PROVE out[i].last <= k
    OBVIOUS
  <2>1. CASE i = Len(bs) + 1
    BY <1>3, <2>1
  <2>2. CASE i # Len(bs) + 1
    <3>1. i \in 1..Len(bs)
      BY <1>1, <1>3, <2>2
    <3> QED
      BY <1>2, <1>3, <1>4, <3>1
  <2> QED
    BY <2>1, <2>2
<1>7. \A j \in 1..k : \E i \in 1..Len(out) : out[i].first <= j /\ j <= out[i].last
  <2> SUFFICES ASSUME NEW j \in 1..k
               PROVE  \E i \in 1..Len(out) : out[i].first <= j /\ j <= out[i].last
    OBVIOUS
  <2>1. CASE j = k
    <3>1. Len(bs) + 1 \in 1..Len(out)
      BY <1>1, <1>3
    <3> QED
      BY <1>3, <2>1, <3>1
  <2>2. CASE j # k
    <3>1. j \in 1..(k - 1)
      BY <2>2
    <3>2. PICK i \in 1..Len(bs) : bs[i].first <= j /\ j <= bs[i].last
      BY <1>2, <3>1
    <3>3. i \in 1..Len(out)
      BY <1>1, <1>3
    <3> QED
      BY <1>3, <3>2, <3>3
  <2> QED
    BY <2>1, <2>2
<1> QED
  BY <1>3, <1>5, <1>6, <1>7 DEF BlockSeqs, out

LEMMA BlocksAre ==
  ASSUME NEW m \in Nat, NEW items, ItemSeq(items, m)
  PROVE  Blocks(items)[m] \in BlockSeqs(m)
<1> DEFINE block(k) == Block(k, k, items[k].goal, items[k].lo, items[k].hi)
           next(k, x) == Collapse(Append(x, block(k)))
           S == UNION {BlockSeqs(k) : k \in 0..m}
           step(k, x) == IF x \in BlockSeqs(k - 1) THEN next(k, x) ELSE x
           g == [k \in 1..m |-> [x \in S |-> step(k, x)]]
           IsLoop(f) == f = [k \in 0..m |-> IF k = 0 THEN <<>> ELSE next(k, f[k - 1])]
           blocks == CHOOSE f : IsLoop(f)
<1>1. \A k \in 1..m : \A x \in BlockSeqs(k - 1) : next(k, x) \in BlockSeqs(k)
  <2> SUFFICES ASSUME NEW k \in 1..m, NEW x \in BlockSeqs(k - 1)
               PROVE  next(k, x) \in BlockSeqs(k)
    OBVIOUS
  <2>1. block(k) \in AllBlocks
    <3> DEFINE goal == items[k].goal
               lo == items[k].lo
               hi == items[k].hi
    <3>1. goal \in Int /\ lo \in Int /\ hi \in Int
      BY DEF ItemSeq
    <3>2. k \in Nat /\ k <= k
      OBVIOUS
    <3> HIDE DEF goal, lo, hi
    <3>3. Block(k, k, goal, lo, hi) \in AllBlocks
      BY <3>1, <3>2, BlockIs
    <3> QED
      BY <3>3 DEF goal, lo, hi
  <2>2. block(k).first = k /\ block(k).last = k
    BY DEF Block
  <2> HIDE DEF block
  <2>3. k \in Nat \ {0} /\ k \in Nat
    OBVIOUS
  <2>4. Append(x, block(k)) \in BlockSeqs(k)
    BY <2>1, <2>2, <2>3, AppendBlock
  <2> QED
    BY <2>3, <2>4, CollapseKeeps
<1>2. <<>> \in BlockSeqs(0)
  BY DEF BlockSeqs
<1> HIDE DEF next
<1>3. <<>> \in S
  <2>1. 0 \in 0..m
    OBVIOUS
  <2> QED
    BY <1>2, <2>1
<1>4. \A k \in 1..m : \A x \in S : step(k, x) \in S
  <2> SUFFICES ASSUME NEW k \in 1..m, NEW x \in S PROVE step(k, x) \in S
    OBVIOUS
  <2>1. CASE x \in BlockSeqs(k - 1)
    <3>1. next(k, x) \in BlockSeqs(k) /\ k \in 0..m
      BY <1>1, <2>1
    <3> QED
      BY <2>1, <3>1
  <2>2. CASE x \notin BlockSeqs(k - 1)
    BY <2>2
  <2> QED
    BY <2>1, <2>2
<1> HIDE DEF S
<1>5. g \in [1..m -> [S -> S]] /\ \A k \in 1..m : \A x \in S : g[k][x] = step(k, x)
  <2> HIDE DEF step
  <2> QED
    BY <1>4
<1> HIDE DEF g
<1>6. PICK f : IsRun(f, m, S, <<>>, g)
  BY <1>3, <1>5, Recursion
<1> DEFINE T == {k \in 0..m : f[k] \in BlockSeqs(k)}
<1>7. \A k \in 1..m : f[k - 1] \in S /\ f[k] = step(k, f[k - 1])
  <2> HIDE DEF step
  <2> QED
    BY <1>5, <1>6 DEF IsRun
<1>8. 0 \in T /\ \A k \in 1..m : k - 1 \in T => k \in T
  BY <1>1, <1>2, <1>6, <1>7 DEF IsRun
<1>9. ASSUME NEW k \in 0..m PROVE f[k] \in BlockSeqs(k)
  <2> HIDE DEF T
  <2>1. \A j \in 1..k : j - 1 \in T => j \in T
    BY <1>8
  <2>2. k \in T
    <3>1. k \in Nat /\ 0 \in T
      BY <1>8
    <3> QED
      BY <2>1, <3>1, UpTo, Zenon
  <2> QED
    BY <2>2 DEF T
<1>10. \A k \in 1..m : f[k] = next(k, f[k - 1])
  BY <1>7, <1>9
<1>11. IsLoop(f)
  BY <1>6, <1>10 DEF IsRun
<1>12. IsLoop(blocks)
  <2> HIDE DEF IsLoop
  <2> QED
    BY <1>11
<1> HIDE DEF blocks
<1>13. blocks[0] = <<>> /\ \A k \in 1..m : blocks[k] = next(k, blocks[k - 1])
  BY <1>12
<1> DEFINE U == {k \in 0..m : blocks[k] \in BlockSeqs(k)}
<1>14. 0 \in U /\ \A k \in 1..m : k - 1 \in U => k \in U
  BY <1>1, <1>2, <1>13
<1> HIDE DEF U
<1>15. m \in U
  BY <1>14, UpTo, Zenon
<1>16. Blocks(items) = blocks
  BY DEF Blocks, blocks, next, block, ItemSeq
<1> QED
  BY <1>15, <1>16 DEF U

\* The placed values are whole numbers.
LEMMA IsotonicIs ==
  ASSUME NEW m \in Nat, NEW items, ItemSeq(items, m), NEW k \in 1..m
  PROVE  BoundedIsotonic(items)[k] \in Int
<1> DEFINE blocks == Blocks(items)[Len(items)]
           blockOf(j) == CHOOSE b \in DOMAIN blocks : blocks[b].first <= j /\ j <= blocks[b].last
<1>1. BoundedIsotonic(items)[k] = blocks[blockOf(k)].value
  BY DEF BoundedIsotonic, ItemSeq
<1>2. blocks \in BlockSeqs(m)
  BY BlocksAre DEF ItemSeq
<1> HIDE DEF blocks
<1>3. /\ blocks \in Seq(AllBlocks) /\ DOMAIN blocks = 1..Len(blocks)
      /\ \A i \in 1..Len(blocks) : blocks[i] \in AllBlocks
      /\ \E i \in 1..Len(blocks) : blocks[i].first <= k /\ k <= blocks[i].last
  BY <1>2, ElementOfSeq, LenProperties DEF BlockSeqs
<1>4. blockOf(k) \in DOMAIN blocks
  BY <1>3
<1> HIDE DEF blockOf
<1>5. blocks[blockOf(k)] \in AllBlocks
  BY <1>3, <1>4
<1>6. blocks[blockOf(k)].value \in Int
  BY <1>5 DEF AllBlocks
<1> QED
  BY <1>1, <1>6

\* Every target is a whole number, on the fine scale, within its span.
LEMMA TargetIs ==
  ASSUME NEW m \in Nat, NEW spans, SpanSeq(spans, m), NEW k \in 1..m
  PROVE  /\ PlaceSyncTargets(spans)[k] \in Int
         /\ Grain * spans[k].left <= PlaceSyncTargets(spans)[k]
         /\ PlaceSyncTargets(spans)[k] <= Grain * spans[k].right
<1> DEFINE gap == MaxFeasibleGap(spans)
           shifted == [j \in DOMAIN spans |->
                         [lo   |-> Grain * (spans[j].left - (j - 1) * gap),
                          hi   |-> Grain * (spans[j].right - (j - 1) * gap),
                          goal |-> (Grain \div 2) * (spans[j].left + spans[j].right)
                                   - Grain * (j - 1) * gap]]
           u == BoundedIsotonic(shifted)
           x == u[k] + Grain * (k - 1) * gap
           lo == Grain * spans[k].left
           hi == Grain * spans[k].right
<1>1. PlaceSyncTargets(spans)[k] = Clamp(x, lo, hi)
  BY DEF PlaceSyncTargets, SpanSeq
<1>2. gap \in Int
  BY GapIs
<1> HIDE DEF gap
<1>3. ItemSeq(shifted, m)
  <2>1. DOMAIN shifted = 1..m
    BY DEF SpanSeq
  <2>2. Len(shifted) = m
    <3> DEFINE f == [j \in 1..m |-> shifted[j]]
    <3>1. f = shifted
      BY DEF SpanSeq
    <3> HIDE DEF shifted
    <3>2. Len(f) = m
      <4>1. f \in Seq({shifted[j] : j \in 1..m})
        BY IsASeq
      <4>2. DOMAIN f = 1..m
        OBVIOUS
      <4> HIDE DEF f
      <4> QED
        BY <4>1, <4>2, LenProperties
    <3> QED
      BY <3>1, <3>2
  <2>3. ASSUME NEW j \in 1..m
        PROVE  shifted[j].goal \in Int /\ shifted[j].lo \in Int /\ shifted[j].hi \in Int
    <3> DEFINE a == spans[j].left
               b == spans[j].right
               c == (j - 1) * gap
    <3>1. a \in Int /\ b \in Int /\ c \in Int
      BY <1>2 DEF SpanSeq
    <3>2. Grain * (j - 1) * gap \in Int
      BY <1>2 DEF Grain
    <3>3. shifted[j] = [lo   |-> Grain * (a - c), hi |-> Grain * (b - c),
                        goal |-> (Grain \div 2) * (a + b) - Grain * (j - 1) * gap]
      BY DEF SpanSeq
    <3> HIDE DEF a, b, c, shifted
    <3>4. Grain * (a - c) \in Int /\ Grain * (b - c) \in Int /\ (Grain \div 2) * (a + b) \in Int
      BY <3>1 DEF Grain
    <3> QED
      BY <3>2, <3>3, <3>4
  <2> QED
    BY <2>1, <2>2, <2>3 DEF ItemSeq
<1> HIDE DEF shifted
<1>4. u[k] \in Int
  BY <1>3, IsotonicIs
<1> HIDE DEF u
<1>5. x \in Int
  BY <1>2, <1>4 DEF Grain
<1>6. lo \in Int /\ hi \in Int /\ lo <= hi
  BY DEF SpanSeq, Grain
<1> HIDE DEF x, lo, hi
<1>7. Clamp(x, lo, hi) \in Int /\ lo <= Clamp(x, lo, hi) /\ Clamp(x, lo, hi) <= hi
  BY <1>5, <1>6, ClampIs
<1> QED
  BY <1>1, <1>7 DEF lo, hi

-----------------------------------------------------------------------------
(* The adjustments.                                                        *)

LEMMA RoundedIs ==
  ASSUME NEW fine \in Int, NEW l \in Int, NEW r \in Int, 24 * l <= fine, fine <= 24 * r
  PROVE  /\ (fine + 1200) \div 2400 \in Int
         /\ 100 * ((fine + 1200) \div 2400) >= l - 50
         /\ 100 * ((fine + 1200) \div 2400) <= r + 50
<1> DEFINE q == (fine + 1200) \div 2400
<1>1. q \in Int /\ 2400 * q <= fine + 1200 /\ fine + 1200 < 2400 * q + 2400
  OBVIOUS
<1> HIDE DEF q
<1>2. 100 * q >= l - 50 /\ 100 * q <= r + 50
  BY <1>1
<1> QED
  BY <1>1, <1>2 DEF q

\* sync.ts toTargetMs: rounding leaves a target in its span, or half a unit from it.
LEMMA ToTargetIs ==
  ASSUME NEW fine \in Int, NEW span, span.left \in Int, span.right \in Int,
         Grain * span.left <= fine, fine <= Grain * span.right
  PROVE  /\ ToTarget(fine, span) \in Int
         /\ 100 * ToTarget(fine, span) >= span.left - 50
         /\ 100 * ToTarget(fine, span) <= span.right + 50
<1> DEFINE l == span.left
           r == span.right
           rounded == (fine + 1200) \div 2400
           lo == -((-l) \div 100)
           hi == r \div 100
<1>1. l \in Int /\ r \in Int /\ 24 * l <= fine /\ fine <= 24 * r
  BY DEF Grain
<1>2. ToTarget(fine, span) = IF lo <= hi THEN Clamp(rounded, lo, hi) ELSE rounded
  <2>1. 50 * Grain = 1200 /\ 100 * Grain = 2400
    BY DEF Grain
  <2> QED
    BY <2>1 DEF ToTarget
<1> HIDE DEF l, r
<1>3. rounded \in Int /\ 100 * rounded >= l - 50 /\ 100 * rounded <= r + 50
  BY <1>1, RoundedIs
<1>4. lo \in Int /\ hi \in Int /\ 100 * lo >= l /\ 100 * hi <= r
  BY <1>1
<1> HIDE DEF rounded, lo, hi
<1>5. CASE lo <= hi
  <2>1. Clamp(rounded, lo, hi) \in Int /\ lo <= Clamp(rounded, lo, hi) /\ Clamp(rounded, lo, hi) <= hi
    BY <1>3, <1>4, <1>5, ClampIs
  <2> DEFINE c == Clamp(rounded, lo, hi)
  <2>2. c \in Int /\ lo <= c /\ c <= hi /\ ToTarget(fine, span) = c
    BY <1>2, <1>5, <2>1
  <2> HIDE DEF c
  <2>3. 100 * c >= l - 50 /\ 100 * c <= r + 50
    BY <1>1, <1>4, <2>2
  <2> QED
    BY <2>2, <2>3 DEF l, r
<1>6. CASE ~(lo <= hi)
  BY <1>2, <1>3, <1>6 DEF l, r
<1> QED
  BY <1>5, <1>6

\* The syncable sets of the cluster of t, in order, and their spans.
ClusterSets(t, boils, cfg) ==
  SyncableSets(Partition(ClusterOf(t, boils, cfg.ratio), cfg.arms), cfg.ratio)

ClusterSpans(t, boils, cfg) ==
  [k \in DOMAIN ClusterSets(t, boils, cfg) |-> Span(ClusterSets(t, boils, cfg)[k], cfg.ratio)]

IsConfig(cfg) == cfg.arms \in Nat \ {0} /\ cfg.ratio \in Nat

\* sets are just these, and spans theirs.
AreSets(sets, spans, boils, ratio) ==
  /\ Len(sets) \in Nat /\ DOMAIN sets = 1..Len(sets)
  /\ \A k \in 1..Len(sets) : /\ sets[k] \in Together(boils, ratio) /\ BoilSet(sets[k])
                             /\ spans[k] = Span(sets[k], ratio)
  /\ Ordered(sets, Len(sets))
  /\ SpanSeq(spans, Len(sets))

LEMMA ClusterSpansAre ==
  ASSUME NEW boils, BoilSet(boils), NEW t, NEW cfg, IsConfig(cfg)
  PROVE  AreSets(ClusterSets(t, boils, cfg), ClusterSpans(t, boils, cfg), boils, cfg.ratio)
<1> DEFINE ratio == cfg.ratio
           arms == cfg.arms
           cluster == ClusterOf(t, boils, ratio)
           parts == Partition(cluster, arms)
           sets == ClusterSets(t, boils, cfg)
           spans == ClusterSpans(t, boils, cfg)
<1>3. ratio \in Nat /\ arms \in Nat \ {0}
  BY DEF IsConfig
<1>4. cluster \subseteq boils
  BY DEF ClusterOf
<1>1. sets = SyncableSets(parts, ratio) /\ ratio \in Int
  BY <1>3 DEF ClusterSets
<1>11. spans = [k \in DOMAIN sets |-> Span(sets[k], ratio)]
  BY DEF ClusterSpans
<1> HIDE DEF cluster, sets, spans, ratio, arms
<1>5. BoilSet(cluster)
  BY <1>4, SubBoilSet
<1>6. Len(parts) \in Nat /\ \A k \in 1..Len(parts) : parts[k] \in (SUBSET boils) \ {{}}
  BY <1>3, <1>4, <1>5, PartitionIs
<1>2. Ordered(parts, Len(parts))
  BY <1>3, <1>5, PartitionOrdered
<1> HIDE DEF parts
<1>7. sets \in Seq(Together(boils, ratio)) /\ Ordered(sets, Len(sets))
  BY <1>1, <1>2, <1>6, SyncableSetsAre
<1> DEFINE m == Len(sets)
<1>8. m \in Nat /\ DOMAIN sets = 1..m /\ \A k \in 1..m : sets[k] \in Together(boils, ratio)
  BY <1>7, LenProperties, ElementOfSeq
<1>9. ASSUME NEW k \in 1..m
      PROVE  /\ BoilSet(sets[k]) /\ spans[k] = Span(sets[k], ratio)
             /\ spans[k].left \in Int /\ spans[k].right \in Int
             /\ spans[k].left <= spans[k].right
  <2>1. sets[k] \subseteq boils /\ sets[k] # {} /\ Syncable(sets[k], ratio)
    BY <1>8 DEF Together
  <2>2. BoilSet(sets[k])
    BY <2>1, SubBoilSet
  <2>3. spans[k] = Span(sets[k], ratio)
    BY <1>8, <1>11
  <2> QED
    BY <1>1, <2>1, <2>2, <2>3, SpanIs DEF Syncable
<1>10. SpanSeq(spans, m)
  <2>1. DOMAIN spans = 1..m
    BY <1>8, <1>11
  <2>2. Len(spans) = m
    <3> DEFINE f == [k \in 1..m |-> Span(sets[k], ratio)]
    <3>1. f = spans
      BY <1>8, <1>11
    <3>2. Len(f) = m
      <4>1. f \in Seq({Span(sets[k], ratio) : k \in 1..m})
        BY <1>8, IsASeq
      <4>2. DOMAIN f = 1..m
        OBVIOUS
      <4> HIDE DEF f, m
      <4> QED
        BY <1>8, <4>1, <4>2, LenProperties
    <3> QED
      BY <3>1, <3>2
  <2> HIDE DEF m
  <2> QED
    BY <1>9, <2>1, <2>2 DEF SpanSeq
<1> QED
  BY <1>7, <1>8, <1>9, <1>10 DEF AreSets, sets, spans, ratio

\* sync.ts: every boil is moved by a whole number of time units, to an end that rounding
\* takes at most half a unit out of its own window.
LEMMA AdjustmentIs ==
  ASSUME NEW boils, BoilSet(boils), NEW t \in boils, t.startTime <= t.endTime,
         NEW cfg, IsConfig(cfg)
  PROVE  /\ AdjustmentOf(t, boils, cfg) \in Int
         /\ 100 * (t.endTime + AdjustmentOf(t, boils, cfg)) >= Left(t, cfg.ratio) - 50
         /\ 100 * (t.endTime + AdjustmentOf(t, boils, cfg)) <= Right(t, cfg.ratio) + 50
<1> DEFINE ratio == cfg.ratio
           sets == ClusterSets(t, boils, cfg)
           spans == ClusterSpans(t, boils, cfg)
           mine == {k \in DOMAIN sets : t \in sets[k]}
           pick == CHOOSE j \in mine : TRUE
           target == ToTarget(PlaceSyncTargets(spans)[pick], spans[pick])
<1>1. ratio \in Nat /\ ratio \in Int /\ cfg.arms \in Nat \ {0}
  BY DEF IsConfig
<1>2. AdjustmentOf(t, boils, cfg) = IF mine = {} THEN 0 ELSE target - t.endTime
  BY DEF AdjustmentOf, ClusterSets, ClusterSpans
<1>3. IsBoil(t) /\ t.endTime \in Int /\ t.startTime \in Int
  BY DEF BoilSet, IsBoil
<1>7. AreSets(sets, spans, boils, ratio)
  BY ClusterSpansAre
<1> HIDE DEF ratio, sets, spans
<1> DEFINE m == Len(sets)
<1>8. /\ m \in Nat /\ DOMAIN sets = 1..m /\ SpanSeq(spans, m)
      /\ \A k \in 1..m : /\ sets[k] \in Together(boils, ratio) /\ BoilSet(sets[k])
                         /\ spans[k] = Span(sets[k], ratio)
  BY <1>7 DEF AreSets
<1>10. SpanSeq(spans, m)
  BY <1>8
<1>9. ASSUME NEW k \in 1..m
      PROVE  /\ spans[k].left \in Int /\ spans[k].right \in Int
             /\ \A u \in sets[k] : /\ Left(u, ratio) <= spans[k].left
                                   /\ spans[k].right <= Right(u, ratio)
  <2>1. sets[k] # {} /\ BoilSet(sets[k]) /\ spans[k] = Span(sets[k], ratio)
    BY <1>8 DEF Together
  <2> QED
    BY <1>1, <2>1, SpanIs
<1> HIDE DEF m
<1>11. CASE mine = {}
  <2> DEFINE d == (t.endTime - t.startTime) * ratio
             e == t.endTime
  <2>1. t.endTime - t.startTime \in Nat
    BY <1>3
  <2>2. d \in Nat
    BY <1>1, <2>1
  <2>3. Left(t, ratio) = e * 100 - d /\ Right(t, ratio) = e * 100 + d /\ e \in Int
    BY <1>3 DEF Left, Right
  <2>4. AdjustmentOf(t, boils, cfg) = 0
    BY <1>2, <1>11
  <2> HIDE DEF d
  <2>5. 100 * (e + 0) >= Left(t, ratio) - 50 /\ 100 * (e + 0) <= Right(t, ratio) + 50
    BY <2>2, <2>3
  <2> QED
    BY <2>4, <2>5 DEF ratio
<1>12. CASE mine # {}
  <2>1. pick \in 1..m /\ t \in sets[pick]
    BY <1>8, <1>12
  <2> HIDE DEF pick, mine
  <2> DEFINE fine == PlaceSyncTargets(spans)[pick]
             span == spans[pick]
  <2>2. /\ fine \in Int /\ Grain * span.left <= fine /\ fine <= Grain * span.right
    BY <1>8, <1>10, <2>1, TargetIs
  <2>3. /\ span.left \in Int /\ span.right \in Int
        /\ Left(t, ratio) <= span.left /\ span.right <= Right(t, ratio)
    BY <1>9, <2>1
  <2> HIDE DEF fine, span
  <2>4. /\ ToTarget(fine, span) \in Int
        /\ 100 * ToTarget(fine, span) >= span.left - 50
        /\ 100 * ToTarget(fine, span) <= span.right + 50
    BY <2>2, <2>3, ToTargetIs
  <2> DEFINE x == ToTarget(fine, span)
             e == t.endTime
             l == Left(t, ratio)
             r == Right(t, ratio)
             sl == span.left
             sr == span.right
  <2>5. AdjustmentOf(t, boils, cfg) = x - e
    BY <1>2, <1>12 DEF fine, span
  <2>6. /\ x \in Int /\ e \in Int /\ l \in Int /\ r \in Int /\ sl \in Int /\ sr \in Int
        /\ l <= sl /\ sr <= r /\ 100 * x >= sl - 50 /\ 100 * x <= sr + 50
    BY <1>1, <1>3, <2>3, <2>4, WindowIs
  <2> HIDE DEF x, e, l, r, sl, sr
  <2>7. x - e \in Int /\ 100 * (e + (x - e)) >= l - 50 /\ 100 * (e + (x - e)) <= r + 50
    BY <2>6
  <2> QED
    BY <2>5, <2>7 DEF e, l, r, ratio
<1> QED
  BY <1>11, <1>12
=============================================================================
