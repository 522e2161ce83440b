---------------------------- MODULE AlgorithmProofs ----------------------------
(***************************************************************************)
(* The algorithms of MCAlgorithms compute what they are meant to, for      *)
(* inputs of any size.                                                     *)
(***************************************************************************)
EXTENDS MCAlgorithms, BoilSyncProofs

-----------------------------------------------------------------------------
(* Totals.                                                                 *)

\* The sums of the beginnings of a sequence of numbers.
LEMMA TotalIs ==
  ASSUME NEW n \in Nat, NEW seq \in [1..n -> Int]
  PROVE  \E sum \in [0..n -> Int] :
           /\ sum[0] = 0 /\ \A k \in 1..n : sum[k] = sum[k - 1] + seq[k]
           /\ Total(seq) = sum[n]
<1> DEFINE S == Int
           g == [k \in 1..n |-> [x \in S |-> x + seq[k]]]
           step(f) == [k \in 0..n |-> IF k = 0 THEN 0 ELSE f[k - 1] + seq[k]]
           sum == CHOOSE f : f = step(f)
<1>1. Len(seq) = n
  OBVIOUS
<1>2. g \in [1..n -> [S -> S]] /\ (\A k \in 1..n : \A x \in S : g[k][x] = x + seq[k]) /\ 0 \in S
  OBVIOUS
<1> HIDE DEF g, S, step, sum
<1>3. PICK f : IsRun(f, n, S, 0, g)
  BY <1>2, Recursion
<1>4. f = step(f)
  <2>1. f \in [0..n -> S] /\ f[0] = 0 /\ \A k \in 1..n : f[k] = g[k][f[k - 1]]
    BY <1>3 DEF IsRun
  <2>2. \A k \in 1..n : f[k] = f[k - 1] + seq[k]
    BY <1>2, <2>1
  <2>3. \A k \in 0..n : f[k] = IF k = 0 THEN 0 ELSE f[k - 1] + seq[k]
    BY <2>1, <2>2
  <2>4. f = [k \in 0..n |-> f[k]]
    BY <2>1
  <2> QED
    BY <2>3, <2>4 DEF step
<1>5. sum = step(sum)
  BY <1>4 DEF sum
<1>6. Total(seq) = sum[n]
  BY <1>1 DEF Total, sum, step
<1>7. DOMAIN sum = 0..n /\ sum[0] = 0 /\ \A k \in 1..n : sum[k] = sum[k - 1] + seq[k]
  BY <1>5 DEF step
<1> DEFINE T == {k \in 0..n : sum[k] \in Int}
<1>8. \A m \in 0..n : sum[m] \in Int
  <2> SUFFICES ASSUME NEW m \in 0..n PROVE m \in T
    OBVIOUS
  <2>1. 0 \in T /\ \A k \in 1..m : k - 1 \in T => k \in T
    BY <1>7
  <2> HIDE DEF T
  <2> QED
    BY <2>1, UpTo
<1>9. sum \in [0..n -> Int]
  <2>1. sum = [k \in 0..n |-> sum[k]]
    BY <1>5 DEF step
  <2> QED
    BY <2>1, <1>8
<1> QED
  BY <1>6, <1>7, <1>9

\* Natural numbers sum up to a natural number, nothing to nothing.
LEMMA TotalNat ==
  ASSUME NEW n \in Nat, NEW seq \in [1..n -> Nat]
  PROVE  Total(seq) \in Nat /\ ((\A k \in 1..n : seq[k] = 0) => Total(seq) = 0)
<1>0. seq \in [1..n -> Int]
  OBVIOUS
<1>1. PICK sum \in [0..n -> Int] :
        sum[0] = 0 /\ (\A k \in 1..n : sum[k] = sum[k - 1] + seq[k]) /\ Total(seq) = sum[n]
  BY <1>0, TotalIs
<1> DEFINE T == {k \in 0..n : sum[k] >= 0}
           Z == {k \in 0..n : sum[k] = 0}
<1>2. n \in T
  <2>1. 0 \in T /\ \A k \in 1..n : k - 1 \in T => k \in T
    BY <1>1
  <2> HIDE DEF T
  <2> QED
    BY <2>1, UpTo
<1>3. ASSUME \A k \in 1..n : seq[k] = 0 PROVE n \in Z
  <2>1. 0 \in Z /\ \A k \in 1..n : k - 1 \in Z => k \in Z
    BY <1>1, <1>3
  <2> HIDE DEF Z
  <2> QED
    BY <2>1, UpTo
<1> QED
  BY <1>1, <1>2, <1>3

\* Dropping the first number and taking one more at the end.
LEMMA TotalShifts ==
  ASSUME NEW n \in Nat \ {0}, NEW f \in [1..n -> Int], NEW g \in [1..n -> Int],
         \A k \in 1..n : k < n => g[k] = f[k + 1]
  PROVE  Total(g) = Total(f) - f[1] + g[n]
<1>1. PICK s \in [0..n -> Int] :
        s[0] = 0 /\ (\A k \in 1..n : s[k] = s[k - 1] + f[k]) /\ Total(f) = s[n]
  BY TotalIs
<1>2. PICK u \in [0..n -> Int] :
        u[0] = 0 /\ (\A k \in 1..n : u[k] = u[k - 1] + g[k]) /\ Total(g) = u[n]
  BY TotalIs
<1> DEFINE T == {k \in 0..n - 1 : u[k] = s[k + 1] - f[1]}
<1>3. n - 1 \in T
  <2>1. 0 \in T
    BY <1>1, <1>2
  <2>2. \A k \in 1..n - 1 : k - 1 \in T => k \in T
    <3> SUFFICES ASSUME NEW k \in 1..n - 1, k - 1 \in T PROVE k \in T
      OBVIOUS
    <3>1. k \in 1..n /\ k < n /\ k + 1 \in 1..n /\ k \in 0..n - 1
      OBVIOUS
    <3>2. u[k] = u[k - 1] + g[k] /\ s[k + 1] = s[k] + f[k + 1] /\ g[k] = f[k + 1]
      BY <1>1, <1>2, <3>1
    <3>3. u[k - 1] = s[k] - f[1]
      OBVIOUS
    <3>4. u[k - 1] \in Int /\ s[k] \in Int /\ f[1] \in Int /\ f[k + 1] \in Int
      BY <3>1
    <3>5. s[k + 1] \in Int
      <4>1. k + 1 \in 0..n
        BY <3>1
      <4> QED
        BY <4>1
    <3>6. u[k] = s[k + 1] - f[1]
      <4> HIDE DEF T
      <4> DEFINE a == u[k - 1]
                 b == s[k]
                 c == f[1]
                 d == s[k + 1]
                 e == f[k + 1]
      <4>1. a \in Int /\ b \in Int /\ c \in Int /\ d \in Int /\ e \in Int
        BY <3>4, <3>5
      <4>2. a = b - c /\ d = b + e /\ u[k] = a + e
        BY <3>2, <3>3
      <4> HIDE DEF a, b, c, d, e
      <4>3. a + e = d - c
        BY <4>1, <4>2
      <4>4. u[k] = d - c
        BY <4>2, <4>3
      <4> QED
        BY <4>4 DEF c, d
    <3> QED
      BY <3>1, <3>6
  <2> HIDE DEF T
  <2> QED
    BY <2>1, <2>2, UpTo
<1> QED
  BY <1>1, <1>2, <1>3

-----------------------------------------------------------------------------
(* The first instant with room.                                            *)

IsParams(p) == p.arms \in Nat /\ p.lift \in Nat \ {0}

IsLifts(lifts) ==
  IsFiniteSet(DOMAIN lifts) /\ DOMAIN lifts \subseteq Int /\ \A t \in DOMAIN lifts : lifts[t] \in Nat

\* No window around t is overfull with span more.
Fits(lifts, t, span, p) ==
  \A x \in (t - Window(p) + 1)..t : LoadFrom(lifts, x, p) + span <= LiftCap(p)

LEMMA WindowCap ==
  ASSUME NEW p, IsParams(p)
  PROVE  Window(p) \in Nat \ {0} /\ LiftCap(p) \in Nat
BY LiftAssumption DEF IsParams, Window, LiftCap

\* A load is a number, none where nothing comes up, and no less one instant later if nothing
\* comes up before.
LEMMA LoadIs ==
  ASSUME NEW lifts, IsLifts(lifts), NEW p, IsParams(p), NEW x \in Int
  PROVE  /\ LoadFrom(lifts, x, p) \in Nat
         /\ (\A t \in DOMAIN lifts : t < x) => LoadFrom(lifts, x, p) = 0
         /\ x \notin DOMAIN lifts => LoadFrom(lifts, x, p) <= LoadFrom(lifts, x + 1, p)
<1> DEFINE w == Window(p)
           f == [k \in 1..w |-> LiftsAt(lifts, x + k - 1)]
           g == [k \in 1..w |-> LiftsAt(lifts, x + 1 + k - 1)]
<1>1. w \in Nat \ {0}
  BY WindowCap
<1>2. \A t \in Int : LiftsAt(lifts, t) \in Nat
  BY DEF LiftsAt, IsLifts
<1>3. LoadFrom(lifts, x, p) = Total(f) /\ LoadFrom(lifts, x + 1, p) = Total(g)
  BY DEF LoadFrom
<1> HIDE DEF w
<1>4. f \in [1..w -> Nat] /\ g \in [1..w -> Nat]
  BY <1>1, <1>2
<1>5. f[1] = LiftsAt(lifts, x)
  BY <1>1
<1>6. \A k \in 1..w : k < w => g[k] = f[k + 1]
  <2> SUFFICES ASSUME NEW k \in 1..w, k < w PROVE g[k] = f[k + 1]
    OBVIOUS
  <2>1. k + 1 \in 1..w /\ x + 1 + k - 1 = x + (k + 1) - 1
    BY <1>1
  <2> QED
    BY <2>1
<1>7. ASSUME \A t \in DOMAIN lifts : t < x PROVE \A k \in 1..w : f[k] = 0
  <2> SUFFICES ASSUME NEW k \in 1..w PROVE f[k] = 0
    OBVIOUS
  <2>1. x + k - 1 \in Int /\ ~(x + k - 1 < x)
    BY <1>1
  <2> QED
    BY <1>7, <2>1 DEF LiftsAt
<1> HIDE DEF f, g
<1>8. Total(f) \in Nat /\ Total(g) \in Nat
  BY <1>1, <1>4, TotalNat
<1>9. Total(g) = Total(f) - f[1] + g[w]
  <2>1. f \in [1..w -> Int] /\ g \in [1..w -> Int]
    BY <1>4
  <2> QED
    BY <1>1, <1>6, <2>1, TotalShifts
<1>10. g[w] \in Nat
  BY <1>1, <1>4
<1>11. x \notin DOMAIN lifts => f[1] = 0
  BY <1>5 DEF LiftsAt
<1>12. (\A t \in DOMAIN lifts : t < x) => Total(f) = 0
  BY <1>1, <1>4, <1>7, TotalNat
<1> QED
  BY <1>3, <1>8, <1>9, <1>10, <1>11, <1>12

\* The origins are enough: a window that is overfull and opens at no lift is so until it does.
LEMMA RoomIs ==
  ASSUME NEW lifts, IsLifts(lifts), NEW p, IsParams(p), NEW t \in Int, NEW span \in Nat
  PROVE  Overloaded(lifts, t, span, p) = {} <=> Fits(lifts, t, span, p)
<1> DEFINE w == Window(p)
           cap == LiftCap(p)
           L(x) == LoadFrom(lifts, x, p)
<1>1. w \in Nat \ {0} /\ cap \in Nat
  BY WindowCap
<1>2. \A x \in Int : L(x) \in Nat /\ (x \notin DOMAIN lifts => L(x) <= L(x + 1))
  BY LoadIs
<1>3. Overloaded(lifts, t, span, p) = {x \in Origins(lifts, t, p) : L(x) > cap - span}
  BY DEF Overloaded
<1>4. Origins(lifts, t, p) = {x \in DOMAIN lifts : t - w < x /\ x <= t} \cup {t}
  BY DEF Origins
<1>5. Fits(lifts, t, span, p) <=> \A x \in (t - w + 1)..t : L(x) + span <= cap
  BY DEF Fits
<1> HIDE DEF w, cap, L
<1>6. ASSUME \A x \in (t - w + 1)..t : L(x) + span <= cap
      PROVE  Overloaded(lifts, t, span, p) = {}
  <2> SUFFICES ASSUME NEW x \in Origins(lifts, t, p), L(x) > cap - span PROVE FALSE
    BY <1>3
  <2>1. x \in (t - w + 1)..t
    BY <1>1, <1>4 DEF IsLifts
  <2>2. x \in Int
    BY <1>1, <2>1
  <2> QED
    BY <1>1, <1>2, <1>6, <2>1, <2>2
<1>7. ASSUME Overloaded(lifts, t, span, p) = {}
      PROVE  \A x \in (t - w + 1)..t : L(x) + span <= cap
  <2> DEFINE T == {n \in 0..(w - 1) : L(t - n) + span <= cap}
  <2>1. \A x \in Origins(lifts, t, p) : ~(L(x) > cap - span)
    BY <1>3, <1>7
  <2>2. 0 \in T
    <3>1. t \in Origins(lifts, t, p) /\ t - 0 = t /\ L(t) \in Nat
      BY <1>2, <1>4
    <3> QED
      BY <1>1, <2>1, <3>1
  <2>3. \A n \in 1..(w - 1) : n - 1 \in T => n \in T
    <3> SUFFICES ASSUME NEW n \in 1..(w - 1), n - 1 \in T PROVE n \in T
      OBVIOUS
    <3>1. t - n \in Int /\ t - w < t - n /\ t - n <= t /\ n \in 0..(w - 1)
      BY <1>1
    <3>2. (t - n) + 1 = t - (n - 1)
      BY <1>1
    <3>3. L(t - (n - 1)) + span <= cap
      OBVIOUS
    <3>4. L(t - n) \in Nat /\ L((t - n) + 1) \in Nat
      BY <1>2, <3>1
    <3>5. CASE t - n \in DOMAIN lifts
      <4>1. t - n \in Origins(lifts, t, p)
        BY <1>4, <3>1, <3>5
      <4>2. ~(L(t - n) > cap - span)
        BY <2>1, <4>1
      <4> QED
        BY <1>1, <3>1, <3>4, <4>2
    <3>6. CASE t - n \notin DOMAIN lifts
      <4>1. L(t - n) <= L((t - n) + 1)
        BY <1>2, <3>1, <3>6
      <4>2. L((t - n) + 1) + span <= cap
        BY <3>2, <3>3
      <4>3. L(t - n) + span <= cap
        BY <1>1, <3>4, <4>1, <4>2
      <4> QED
        BY <3>1, <4>3
    <3> QED
      BY <3>5, <3>6
  <2> SUFFICES ASSUME NEW x \in (t - w + 1)..t PROVE L(x) + span <= cap
    OBVIOUS
  <2>4. t - x \in 0..(w - 1) /\ t - (t - x) = x
    BY <1>1
  <2>5. t - x \in T
    <3>1. \A n \in 1..(t - x) : n \in 1..(w - 1)
      BY <1>1, <2>4
    <3> HIDE DEF T
    <3> QED
      BY <2>2, <2>3, <2>4, <3>1, UpTo
  <2> QED
    BY <2>4, <2>5
<1> QED
  BY <1>5, <1>6, <1>7

\* A search among the integers that leaves out only what is not in Room, and ends in Room.
IsSearch(f, Room, next) == f = [u \in Int |-> IF u \in Room THEN u ELSE f[next[u]]]

Jumps(Room, next) ==
  \A u \in Int : u \notin Room => /\ next[u] \in Int /\ next[u] > u
                                /\ \A v \in Int : u <= v /\ v < next[u] => v \notin Room

IsLeast(least, Room, u) ==
  least \in Int /\ least >= u /\ least \in Room /\ \A v \in Int : u <= v /\ v < least => v \notin Room

LEMMA LeastFrom ==
  ASSUME NEW Room, NEW top \in Int, \A u \in Int : u >= top => u \in Room, NEW u \in Int
  PROVE  \E least : IsLeast(least, Room, u)
<1> DEFINE T == {n \in Nat : u + n \in Room}
<1>1. T # {}
  <2>1. CASE u >= top
    <3>1. 0 \in T
      BY <2>1
    <3> QED
      BY <3>1
  <2>2. CASE u < top
    <3>1. top - u \in Nat /\ u + (top - u) = top
      BY <2>2
    <3>2. top - u \in T
      BY <3>1
    <3> QED
      BY <3>2
  <2> QED
    BY <2>1, <2>2
<1>2. PICK m \in T : \A n \in T : m <= n
  <2>1. T \subseteq Nat
    OBVIOUS
  <2> HIDE DEF T
  <2> QED
    BY <1>1, <2>1, LeastNumber
<1>3. \A v \in Int : u <= v /\ v < u + m => v \notin Room
  <2> SUFFICES ASSUME NEW v \in Int, u <= v, v < u + m, v \in Room PROVE FALSE
    OBVIOUS
  <2>1. v - u \in Nat /\ u + (v - u) = v
    OBVIOUS
  <2>2. v - u \in T
    BY <2>1
  <2>3. m \in Nat /\ ~(m <= v - u)
    OBVIOUS
  <2> QED
    BY <1>2, <2>2, <2>3
<1>4. u + m \in Int /\ u + m >= u /\ u + m \in Room
  OBVIOUS
<1> QED
  BY <1>3, <1>4 DEF IsLeast

LEMMA SearchExists ==
  ASSUME NEW Room, NEW next, Jumps(Room, next),
         NEW top \in Int, \A u \in Int : u >= top => u \in Room
  PROVE  \E f : IsSearch(f, Room, next)
<1> DEFINE least(u) == CHOOSE x : IsLeast(x, Room, u)
           f == [u \in Int |-> least(u)]
<1>1. \A u \in Int : IsLeast(least(u), Room, u)
  BY LeastFrom
<1> HIDE DEF least
<1>2. \A u \in Int : \A x, y : IsLeast(x, Room, u) /\ IsLeast(y, Room, u) => x = y
  BY DEF IsLeast
<1>3. \A u \in Int : f[u] = IF u \in Room THEN u ELSE f[next[u]]
  <2> SUFFICES ASSUME NEW u \in Int PROVE f[u] = IF u \in Room THEN u ELSE f[next[u]]
    OBVIOUS
  <2>1. CASE u \in Room
    <3>1. IsLeast(u, Room, u)
      BY <2>1 DEF IsLeast
    <3>2. least(u) = u
      BY <1>1, <1>2, <3>1
    <3> QED
      BY <2>1, <3>2
  <2>2. CASE u \notin Room
    <3>1. next[u] \in Int /\ next[u] > u /\ \A v \in Int : u <= v /\ v < next[u] => v \notin Room
      BY <2>2 DEF Jumps
    <3>2. IsLeast(least(next[u]), Room, next[u])
      BY <1>1, <3>1
    <3>3. IsLeast(least(next[u]), Room, u)
      BY <3>1, <3>2 DEF IsLeast
    <3>4. least(u) = least(next[u])
      BY <1>1, <1>2, <3>3
    <3> QED
      BY <2>2, <3>1, <3>4
  <2> QED
    BY <2>1, <2>2
<1>4. IsSearch(f, Room, next)
  <2> DEFINE h == [u \in Int |-> IF u \in Room THEN u ELSE f[next[u]]]
  <2>1. DOMAIN f = Int /\ f = [u \in Int |-> f[u]]
    OBVIOUS
  <2> HIDE DEF f
  <2>2. h = [u \in Int |-> f[u]]
    BY <1>3
  <2> QED
    BY <2>1, <2>2 DEF IsSearch
<1> QED
  BY <1>4

LEMMA SearchIs ==
  ASSUME NEW Room, NEW next, Jumps(Room, next),
         NEW top \in Int, \A u \in Int : u >= top => u \in Room,
         NEW f, IsSearch(f, Room, next), NEW t \in Int
  PROVE  IsLeast(f[t], Room, t)
<1>1. \A u \in Int : f[u] = IF u \in Room THEN u ELSE f[next[u]]
  <2> DEFINE h == [u \in Int |-> IF u \in Room THEN u ELSE f[next[u]]]
  <2>1. f = h
    BY DEF IsSearch
  <2>2. \A u \in Int : h[u] = IF u \in Room THEN u ELSE f[next[u]]
    OBVIOUS
  <2> HIDE DEF h
  <2> QED
    BY <2>1, <2>2
<1> DEFINE Bad == {u \in Int : ~IsLeast(f[u], Room, u)}
           T == {n \in Nat : top - n \in Bad}
<1>2. SUFFICES ASSUME t \in Bad PROVE FALSE
  OBVIOUS
<1>3. \A u \in Room : u \in Int => u \notin Bad
  BY <1>1 DEF IsLeast
<1>4. \A u \in Bad : u \in Int /\ u \notin Room /\ next[u] \in Bad /\ next[u] > u
  <2> SUFFICES ASSUME NEW u \in Bad PROVE u \in Int /\ u \notin Room /\ next[u] \in Bad /\ next[u] > u
    OBVIOUS
  <2>1. u \in Int /\ u \notin Room
    BY <1>3
  <2>2. next[u] \in Int /\ next[u] > u /\ \A v \in Int : u <= v /\ v < next[u] => v \notin Room
    BY <2>1 DEF Jumps
  <2>3. f[u] = f[next[u]]
    BY <1>1, <2>1
  <2>4. ASSUME IsLeast(f[next[u]], Room, next[u]) PROVE IsLeast(f[u], Room, u)
    BY <2>1, <2>2, <2>3, <2>4 DEF IsLeast
  <2> QED
    BY <2>1, <2>2, <2>4
<1>5. \A u \in Bad : top - u \in T /\ u < top
  <2> SUFFICES ASSUME NEW u \in Bad PROVE top - u \in T /\ u < top
    OBVIOUS
  <2>1. u \in Int /\ u < top
    BY <1>4
  <2>2. top - u \in Nat /\ top - (top - u) = u
    BY <2>1
  <2> QED
    BY <2>1, <2>2
<1>6. PICK m \in T : \A n \in T : m <= n
  <2>1. T \subseteq Nat /\ T # {}
    BY <1>2, <1>5
  <2> HIDE DEF T
  <2> QED
    BY <2>1, LeastNumber
<1>7. m \in Nat /\ top - m \in Bad
  BY <1>6
<1>8. next[top - m] \in Bad /\ next[top - m] > top - m /\ next[top - m] \in Int
  BY <1>4, <1>7
<1>9. top - next[top - m] \in T
  BY <1>5, <1>8
<1>10. m <= top - next[top - m]
  BY <1>6, <1>9
<1> QED
  BY <1>7, <1>8, <1>10

\* Beyond all lifts there is room.
LEMMA RoomInTheEnd ==
  ASSUME NEW lifts, IsLifts(lifts), NEW p, IsParams(p)
  PROVE  \E top \in Int : \A u \in Int : u >= top =>
           \A span \in Nat : span <= LiftCap(p) => Fits(lifts, u, span, p)
<1> DEFINE w == Window(p)
<1>1. w \in Nat \ {0} /\ LiftCap(p) \in Nat
  BY WindowCap
<1>2. PICK last \in Int : \A t \in DOMAIN lifts : t <= last
  <2>1. CASE DOMAIN lifts = {}
    <3>1. 0 \in Int
      OBVIOUS
    <3> QED
      BY <2>1, <3>1
  <2>2. CASE DOMAIN lifts # {}
    <3> DEFINE D == DOMAIN lifts
    <3>1. IsFiniteSet(D) /\ D \subseteq Int /\ D # {}
      BY <2>2 DEF IsLifts
    <3> HIDE DEF D
    <3>2. PICK x \in D : \A y \in D : x >= y
      BY <3>1, Extremes
    <3>3. x \in Int /\ \A y \in D : y <= x
      BY <3>1, <3>2
    <3> QED
      BY <3>3 DEF D
  <2> QED
    BY <2>1, <2>2
<1>3. \A u \in Int : u >= last + w + 1 =>
        \A span \in Nat : span <= LiftCap(p) => Fits(lifts, u, span, p)
  <2> SUFFICES ASSUME NEW u \in Int, u >= last + w + 1, NEW span \in Nat, span <= LiftCap(p),
                      NEW x \in (u - w + 1)..u
               PROVE  LoadFrom(lifts, x, p) + span <= LiftCap(p)
    BY DEF Fits
  <2>1. x \in Int /\ x > last
    BY <1>1
  <2>2. \A t \in DOMAIN lifts : t < x
    BY <1>2, <2>1 DEF IsLifts
  <2>3. LoadFrom(lifts, x, p) = 0
    BY <2>1, <2>2, LoadIs
  <2> QED
    BY <1>1, <2>3
<1>4. last + w + 1 \in Int
  BY <1>1
<1> QED
  BY <1>3, <1>4

\* The search leaves out no instant with room.
LEMMA FirstFitIs ==
  ASSUME NEW lifts, IsLifts(lifts), NEW p, IsParams(p), NEW t \in Int,
         NEW span \in Nat, span <= LiftCap(p)
  PROVE  IsLeast(FirstFit(lifts, t, span, p), {u \in Int : Fits(lifts, u, span, p)}, t)
<1> DEFINE w == Window(p)
           O(u) == Overloaded(lifts, u, span, p)
           Room == {u \in Int : Fits(lifts, u, span, p)}
           next == [u \in Int |-> Min(O(u)) + w]
           step(f) == [u \in Int |-> IF O(u) = {} THEN u ELSE f[Min(O(u)) + w]]
           fit == CHOOSE f : f = step(f)
<1>1. w \in Nat \ {0} /\ LiftCap(p) \in Nat
  BY WindowCap
<1>2. FirstFit(lifts, t, span, p) = fit[t]
  BY <1>1 DEF FirstFit
<1>3. \A u \in Int : O(u) = {} <=> u \in Room
  BY RoomIs
<1>4. \A u \in Int : /\ O(u) \subseteq (u - w + 1)..u /\ IsFiniteSet(O(u))
                    /\ \A x \in O(u) : ~(LoadFrom(lifts, x, p) + span <= LiftCap(p))
  <2> SUFFICES ASSUME NEW u \in Int
               PROVE  /\ O(u) \subseteq (u - w + 1)..u /\ IsFiniteSet(O(u))
                      /\ \A x \in O(u) : ~(LoadFrom(lifts, x, p) + span <= LiftCap(p))
    OBVIOUS
  <2>1. O(u) \subseteq (u - w + 1)..u
    BY <1>1 DEF Overloaded, Origins, IsLifts
  <2>2. IsFiniteSet((u - w + 1)..u)
    BY <1>1, FS_Interval
  <2>3. IsFiniteSet(O(u))
    <3> HIDE DEF O
    <3> QED
      BY <2>1, <2>2, FS_Subset
  <2>4. ASSUME NEW x \in O(u) PROVE ~(LoadFrom(lifts, x, p) + span <= LiftCap(p))
    <3>1. x \in Int /\ LoadFrom(lifts, x, p) > LiftCap(p) - span
      BY <1>1, <2>1 DEF Overloaded
    <3>2. LoadFrom(lifts, x, p) \in Nat
      BY <3>1, LoadIs
    <3> QED
      BY <1>1, <3>1, <3>2
  <2> QED
    BY <2>1, <2>3, <2>4
<1>5. \A u \in Int : \A x \in (u - w + 1)..u :
        ~(LoadFrom(lifts, x, p) + span <= LiftCap(p)) => u \notin Room
  BY DEF Fits
<1>6. \E top \in Int : \A u \in Int : u >= top => u \in Room
  BY RoomInTheEnd
<1>7. \A u \in Int : next[u] = Min(O(u)) + w
  OBVIOUS
<1> HIDE DEF w, O, Room, next
<1>8. Jumps(Room, next)
  <2> SUFFICES ASSUME NEW u \in Int, u \notin Room
               PROVE  /\ next[u] \in Int /\ next[u] > u
                      /\ \A v \in Int : u <= v /\ v < next[u] => v \notin Room
    BY DEF Jumps
  <2>1. Min(O(u)) \in O(u)
    <3>1. O(u) \subseteq Int /\ O(u) # {} /\ IsFiniteSet(O(u))
      BY <1>1, <1>3, <1>4
    <3> QED
      BY <3>1, MinIs
  <2> DEFINE x == Min(O(u))
  <2>2. /\ x \in Int /\ u - w + 1 <= x /\ x <= u /\ next[u] = x + w
        /\ ~(LoadFrom(lifts, x, p) + span <= LiftCap(p))
    BY <1>1, <1>4, <1>7, <2>1
  <2> HIDE DEF x
  <2>3. ASSUME NEW v \in Int, u <= v, v < next[u] PROVE v \notin Room
    <3>1. x \in (v - w + 1)..v
      BY <1>1, <2>2, <2>3
    <3> QED
      BY <1>5, <2>2, <3>1
  <2> QED
    BY <1>1, <2>2, <2>3
<1>9. \A f : f = step(f) <=> IsSearch(f, Room, next)
  <2> SUFFICES ASSUME NEW f PROVE step(f) = [u \in Int |-> IF u \in Room THEN u ELSE f[next[u]]]
    BY DEF IsSearch
  <2>1. \A u \in Int : (IF O(u) = {} THEN u ELSE f[Min(O(u)) + w])
                        = IF u \in Room THEN u ELSE f[next[u]]
    BY <1>3, <1>7
  <2> QED
    BY <2>1
<1> HIDE DEF step
<1>10. IsSearch(fit, Room, next)
  BY <1>6, <1>8, <1>9, SearchExists
<1> HIDE DEF fit
<1>11. IsLeast(fit[t], Room, t)
  BY <1>6, <1>8, <1>10, SearchIs
<1> QED
  BY <1>2, <1>11 DEF Room

-----------------------------------------------------------------------------
(* The largest gap.                                                        *)

\* Where the j-th set is at the earliest, for the sake of the i-th.
Reach(spans, i, j, gap) == spans[i].left + (j - i) * gap

LEMMA ReachIs ==
  ASSUME NEW m \in Nat, NEW spans, SpanSeq(spans, m), NEW i \in 1..m, NEW j \in 1..m, NEW gap \in Int
  PROVE  /\ Reach(spans, i, j, gap) \in Int /\ Reach(spans, i, i, gap) = spans[i].left
         /\ Reach(spans, i, j + 1, gap) = Reach(spans, i, j, gap) + gap
<1> DEFINE d == j - i
           l == spans[i].left
<1>1. l \in Int /\ d \in Int
  BY DEF SpanSeq
<1>2. d * gap \in Int /\ (d + 1) * gap = d * gap + gap /\ 0 * gap = 0
  BY <1>1
<1>3. j + 1 - i = d + 1 /\ i - i = 0
  OBVIOUS
<1>4. Reach(spans, i, j, gap) = l + d * gap /\ Reach(spans, i, i, gap) = l + 0 * gap
      /\ Reach(spans, i, j + 1, gap) = l + (d + 1) * gap
  BY <1>3 DEF Reach
<1> DEFINE x == d * gap
           y == (d + 1) * gap
<1>5. x \in Int /\ y = x + gap
  BY <1>2
<1>6. Reach(spans, i, j, gap) = l + x /\ Reach(spans, i, j + 1, gap) = l + y
  BY <1>4
<1>7. Reach(spans, i, i, gap) = l + 0
  BY <1>2, <1>4
<1> HIDE DEF d, l, x, y
<1> QED
  BY <1>1, <1>5, <1>6, <1>7 DEF l

\* The greedy test asks just whether every set can reach every later one in time.
LEMMA GreedyIs ==
  ASSUME NEW m \in Nat \ {0}, NEW spans, SpanSeq(spans, m), NEW gap \in Int
  PROVE  FeasibleGap(spans, gap) <=>
           \A i, j \in 1..m : i <= j => Reach(spans, i, j, gap) <= spans[j].right
<1> DEFINE n == m - 1
           S == Int
           next(k, x) == Max({spans[k + 1].left, x + gap})
           start == spans[1].left
           g == [k \in 1..n |-> [x \in S |-> next(k, x)]]
           IsLoop(e) == e = [k \in 1..m |-> IF k = 1 THEN spans[1].left
                                            ELSE Max({spans[k].left, e[k - 1] + gap})]
           earliest == CHOOSE e : IsLoop(e)
<1>0. m \in Nat /\ m >= 1 /\ n \in Nat /\ 1 \in 1..m
  OBVIOUS
<1>1. \A k \in 1..m : spans[k].left \in Int /\ spans[k].right \in Int
  BY DEF SpanSeq
<1>2. start \in S /\ \A k \in 1..n : \A x \in S :
        /\ next(k, x) \in S /\ next(k, x) >= spans[k + 1].left /\ next(k, x) >= x + gap
        /\ (next(k, x) = spans[k + 1].left \/ next(k, x) = x + gap)
  <2>1. start \in S
    BY <1>0, <1>1
  <2>2. ASSUME NEW k \in 1..n, NEW x \in S
        PROVE  /\ next(k, x) \in S /\ next(k, x) >= spans[k + 1].left /\ next(k, x) >= x + gap
               /\ (next(k, x) = spans[k + 1].left \/ next(k, x) = x + gap)
    <3> DEFINE a == spans[k + 1].left
               b == x + gap
    <3>1. a \in Int /\ b \in Int
      <4>1. k + 1 \in 1..m
        BY <1>0
      <4> QED
        BY <1>1, <4>1
    <3> HIDE DEF a, b
    <3>2. Max({a, b}) = IF a >= b THEN a ELSE b
      BY <3>1, PairIs
    <3>3. Max({a, b}) \in Int /\ Max({a, b}) >= a /\ Max({a, b}) >= b
          /\ (Max({a, b}) = a \/ Max({a, b}) = b)
      BY <3>1, <3>2
    <3> QED
      BY <3>3 DEF a, b
  <2> QED
    BY <2>1, <2>2
<1>3. /\ g \in [1..n -> [S -> S]]
      /\ \A k \in 1..n : \A x \in S : g[k][x] = next(k, x)
  <2> HIDE DEF next, S
  <2> QED
    BY <1>2
<1> HIDE DEF g, start, S
<1>4. PICK f : IsRun(f, n, S, start, g)
  BY <1>0, <1>2, <1>3, Recursion
<1> DEFINE e == [k \in 1..m |-> f[k - 1]]
<1>5. IsLoop(e)
  <2>1. f \in [0..n -> S] /\ f[0] = start /\ \A k \in 1..n : f[k] = g[k][f[k - 1]]
    BY <1>4 DEF IsRun
  <2>2. \A k \in 1..m : f[k - 1] = IF k = 1 THEN spans[1].left ELSE Max({spans[k].left, e[k - 1] + gap})
    <3> SUFFICES ASSUME NEW k \in 1..m
                 PROVE  f[k - 1] = IF k = 1 THEN spans[1].left ELSE Max({spans[k].left, e[k - 1] + gap})
      OBVIOUS
    <3>1. CASE k = 1
      BY <2>1, <3>1 DEF start
    <3>2. CASE k # 1
      <4>1. k - 1 \in 1..n /\ k - 1 \in 1..m /\ k - 1 - 1 \in 0..n /\ k - 1 + 1 = k
        BY <1>0, <3>2
      <4>2. e[k - 1] = f[k - 1 - 1] /\ f[k - 1 - 1] \in S
        BY <2>1, <4>1
      <4>3. f[k - 1] = next(k - 1, f[k - 1 - 1])
        BY <1>3, <2>1, <4>1, <4>2
      <4>4. f[k - 1] = Max({spans[k].left, e[k - 1] + gap})
        BY <4>1, <4>2, <4>3
      <4> QED
        BY <3>2, <4>4
    <3> QED
      BY <3>1, <3>2
  <2> HIDE DEF e
  <2>3. e = [k \in 1..m |-> f[k - 1]]
    BY DEF e
  <2> QED
    BY <2>2, <2>3
<1>6. IsLoop(earliest)
  <2> HIDE DEF IsLoop, e
  <2> QED
    BY <1>5
<1>7. FeasibleGap(spans, gap) <=> \A k \in 1..m : earliest[k] <= spans[k].right
  <2>1. Len(spans) = m
    BY DEF SpanSeq
  <2> QED
    BY <2>1 DEF FeasibleGap
<1> HIDE DEF earliest
<1>8. /\ earliest[1] = spans[1].left
      /\ \A k \in 1..n : earliest[k + 1] = next(k, earliest[k])
  <2>0. \A k \in 1..m : earliest[k] = IF k = 1 THEN spans[1].left
                                      ELSE Max({spans[k].left, earliest[k - 1] + gap})
    <3> DEFINE h == [k \in 1..m |-> IF k = 1 THEN spans[1].left
                                   ELSE Max({spans[k].left, earliest[k - 1] + gap})]
    <3>1. earliest = h
      BY <1>6
    <3>2. \A k \in 1..m : h[k] = IF k = 1 THEN spans[1].left
                                 ELSE Max({spans[k].left, earliest[k - 1] + gap})
      OBVIOUS
    <3> HIDE DEF h
    <3> QED
      BY <3>1, <3>2
  <2>1. earliest[1] = spans[1].left
    BY <1>0, <2>0
  <2>2. ASSUME NEW k \in 1..n PROVE earliest[k + 1] = next(k, earliest[k])
    <3>1. k + 1 \in 1..m /\ k + 1 # 1 /\ k + 1 - 1 = k
      BY <1>0
    <3>2. earliest[k + 1] = Max({spans[k + 1].left, earliest[k + 1 - 1] + gap})
      BY <2>0, <3>1
    <3> QED
      BY <3>1, <3>2
  <2> QED
    BY <2>1, <2>2
<1> DEFINE IsEarliest(k) ==
             /\ earliest[k] \in Int
             /\ \A i \in 1..k : Reach(spans, i, k, gap) <= earliest[k]
             /\ \E i \in 1..k : Reach(spans, i, k, gap) = earliest[k]
           T == {k \in 0..n : IsEarliest(k + 1)}
<1> HIDE DEF next, e, IsLoop
<1>9. \A k \in 1..m : IsEarliest(k)
  <2>1. 0 \in T
    <3>1. Reach(spans, 1, 1, gap) = spans[1].left /\ spans[1].left \in Int
      BY <1>0, <1>1, ReachIs
    <3>2. earliest[0 + 1] = spans[1].left /\ 1..(0 + 1) = {1}
      BY <1>8
    <3> QED
      BY <1>0, <3>1, <3>2
  <2>2. ASSUME NEW k \in 1..n, k - 1 \in T PROVE k \in T
    <3>1. IsEarliest(k)
      <4>1. k - 1 + 1 = k
        OBVIOUS
      <4> QED
        BY <2>2, <4>1
    <3>2. k \in 1..m /\ k + 1 \in 1..m /\ k \in Int
      BY <1>0
    <3> DEFINE was == earliest[k]
               is == earliest[k + 1]
               l == spans[k + 1].left
    <3>3. was \in S /\ was \in Int
      BY <3>1 DEF S
    <3>4. is \in Int /\ is >= l /\ is >= was + gap /\ (is = l \/ is = was + gap)
      BY <1>2, <1>8, <3>3 DEF S
    <3>5. l \in Int /\ Reach(spans, k + 1, k + 1, gap) = l
      BY <1>1, <3>2, ReachIs
    <3>6. \A i \in 1..k : /\ Reach(spans, i, k, gap) \in Int
                         /\ Reach(spans, i, k + 1, gap) = Reach(spans, i, k, gap) + gap
      <4> SUFFICES ASSUME NEW i \in 1..k
                   PROVE  /\ Reach(spans, i, k, gap) \in Int
                          /\ Reach(spans, i, k + 1, gap) = Reach(spans, i, k, gap) + gap
        OBVIOUS
      <4>1. i \in 1..m
        BY <1>0
      <4> QED
        BY <1>0, <3>2, <4>1, ReachIs
    <3>7. /\ \A i \in 1..k : Reach(spans, i, k, gap) <= was
          /\ \E i \in 1..k : Reach(spans, i, k, gap) = was
      BY <3>1
    <3>8. 1..(k + 1) = 1..k \cup {k + 1}
      BY <3>2
    <3> HIDE DEF was, is, l
    <3>9. \A i \in 1..(k + 1) : Reach(spans, i, k + 1, gap) <= is
      <4> SUFFICES ASSUME NEW i \in 1..(k + 1) PROVE Reach(spans, i, k + 1, gap) <= is
        OBVIOUS
      <4>1. CASE i = k + 1
        BY <3>4, <3>5, <4>1
      <4>2. CASE i \in 1..k
        <5> DEFINE r == Reach(spans, i, k, gap)
        <5>1. r \in Int /\ r <= was /\ Reach(spans, i, k + 1, gap) = r + gap
          BY <3>6, <3>7, <4>2
        <5> HIDE DEF r
        <5> QED
          BY <3>3, <3>4, <5>1
      <4> QED
        BY <3>8, <4>1, <4>2
    <3>10. \E i \in 1..(k + 1) : Reach(spans, i, k + 1, gap) = is
      <4>1. CASE is = l
        BY <3>5, <3>8, <4>1
      <4>2. CASE is = was + gap
        BY <3>6, <3>7, <3>8, <4>2
      <4> QED
        BY <3>4, <4>1, <4>2
    <3> QED
      BY <1>0, <3>4, <3>9, <3>10 DEF is
  <2> SUFFICES ASSUME NEW k \in 1..m PROVE IsEarliest(k)
    OBVIOUS
  <2>3. k - 1 \in Nat /\ k - 1 + 1 = k /\ \A j \in 1..(k - 1) : j \in 1..n
    BY <1>0
  <2>4. k - 1 \in T
    <3> HIDE DEF T
    <3> QED
      BY <2>1, <2>2, <2>3, UpTo
  <2> QED
    BY <2>3, <2>4
<1>10. ASSUME \A k \in 1..m : earliest[k] <= spans[k].right,
              NEW i \in 1..m, NEW j \in 1..m, i <= j
       PROVE  Reach(spans, i, j, gap) <= spans[j].right
  <2>0. i \in 1..j
    BY <1>0, <1>10
  <2>1. Reach(spans, i, j, gap) \in Int
    BY <1>0, ReachIs
  <2>2. Reach(spans, i, j, gap) <= earliest[j] /\ earliest[j] <= spans[j].right /\ earliest[j] \in Int
    BY <1>9, <1>10, <2>0
  <2> QED
    BY <1>1, <2>1, <2>2
<1>11. ASSUME \A i, j \in 1..m : i <= j => Reach(spans, i, j, gap) <= spans[j].right,
              NEW k \in 1..m
       PROVE  earliest[k] <= spans[k].right
  <2>1. PICK i \in 1..k : Reach(spans, i, k, gap) = earliest[k]
    BY <1>9
  <2>2. i \in 1..m /\ i <= k
    BY <1>0
  <2> QED
    BY <1>11, <2>1, <2>2
<1> QED
  BY <1>7, <1>10, <1>11

\* A larger gap is harder, and one as large as all the room there is too hard.
LEMMA GapsAre ==
  ASSUME NEW m \in Nat, m >= 2, NEW spans, SpanSeq(spans, m)
  PROVE  /\ \A gap, less \in Int : less <= gap /\ FeasibleGap(spans, gap) => FeasibleGap(spans, less)
         /\ \A top, gap \in Int : IsTop(top, spans, m) /\ gap >= top => ~FeasibleGap(spans, gap)
<1>0. m \in Nat \ {0} /\ 1 \in 1..m /\ 2 \in 1..m
  OBVIOUS
<1>1. ASSUME NEW gap \in Int, NEW less \in Int, less <= gap, FeasibleGap(spans, gap)
      PROVE  FeasibleGap(spans, less)
  <2> SUFFICES ASSUME NEW i \in 1..m, NEW j \in 1..m, i <= j
               PROVE  Reach(spans, i, j, less) <= spans[j].right
    BY <1>0, GreedyIs
  <2>1. Reach(spans, i, j, gap) <= spans[j].right
    BY <1>0, <1>1, GreedyIs
  <2> DEFINE d == j - i
  <2>2. d \in Nat
    OBVIOUS
  <2>3. d * less <= d * gap /\ d * less \in Int /\ d * gap \in Int
    <3>1. gap - less \in Nat /\ d * (gap - less) \in Nat
      BY <1>1, <2>2
    <3>2. d * (gap - less) = d * gap - d * less /\ d * less \in Int /\ d * gap \in Int
      BY <2>2
    <3> DEFINE x == d * (gap - less)
               y == d * gap
               z == d * less
    <3>3. x \in Nat /\ x = y - z /\ y \in Int /\ z \in Int
      BY <3>1, <3>2
    <3> HIDE DEF x, y, z
    <3>4. z <= y
      BY <3>3
    <3> QED
      BY <3>2, <3>4 DEF y, z
  <2>4. spans[i].left \in Int /\ spans[j].right \in Int
    BY DEF SpanSeq
  <2> DEFINE x == d * less
             y == d * gap
             l == spans[i].left
  <2>5. Reach(spans, i, j, less) = l + x /\ Reach(spans, i, j, gap) = l + y
    BY DEF Reach
  <2>6. x <= y /\ x \in Int /\ y \in Int /\ l \in Int
    BY <2>3, <2>4
  <2> HIDE DEF d, x, y, l
  <2> QED
    BY <2>1, <2>4, <2>5, <2>6
<1>2. ASSUME NEW top \in Int, NEW gap \in Int, IsTop(top, spans, m), gap >= top, FeasibleGap(spans, gap)
      PROVE  FALSE
  <2>1. Reach(spans, 1, 2, gap) <= spans[2].right
    BY <1>0, <1>2, GreedyIs
  <2>2. Reach(spans, 1, 2, gap) = spans[1].left + gap
    <3>1. Reach(spans, 1, 1 + 1, gap) = Reach(spans, 1, 1, gap) + gap
          /\ Reach(spans, 1, 1, gap) = spans[1].left
      BY <1>0, ReachIs
    <3> QED
      BY <3>1
  <2>3. spans[2].right - spans[1].left < top
    BY <1>0, <1>2 DEF IsTop
  <2>4. spans[1].left \in Int /\ spans[2].right \in Int
    BY <1>0 DEF SpanSeq
  <2> QED
    BY <1>2, <2>1, <2>2, <2>3, <2>4
<1> QED
  BY <1>1, <1>2

\* The powers of two; a number of the code has Bits bits.
Power[n \in 0..Bits] == IF n = 0 THEN 1 ELSE 2 * Power[n - 1]

LEMMA PowerIs ==
  /\ Power[0] = 1 /\ \A n \in 0..Bits : Power[n] \in Nat \ {0}
  /\ \A n \in 1..Bits : Power[n] = 2 * Power[n - 1]
<1> DEFINE n == Bits
           S == Nat \ {0}
           one == 1
           g == [k \in 1..n |-> [x \in S |-> 2 * x]]
           IsLoop(f) == f = [k \in 0..n |-> IF k = 0 THEN 1 ELSE 2 * f[k - 1]]
           power == CHOOSE f : IsLoop(f)
<1>0. n \in Nat
  BY DEF Bits
<1>1. one \in S /\ \A x \in S : 2 * x \in S
  OBVIOUS
<1> HIDE DEF n, S
<1>2. g \in [1..n -> [S -> S]] /\ \A k \in 1..n : \A x \in S : g[k][x] = 2 * x
  BY <1>1
<1> HIDE DEF g
<1>3. PICK f : IsRun(f, n, S, one, g)
  BY <1>0, <1>1, <1>2, Recursion
<1>4. f \in [0..n -> S] /\ f[0] = 1 /\ \A k \in 1..n : f[k] = 2 * f[k - 1]
  BY <1>0, <1>2, <1>3 DEF IsRun
<1>5. IsLoop(f)
  BY <1>0, <1>4
<1>6. IsLoop(power)
  <2> HIDE DEF IsLoop
  <2> QED
    BY <1>5
<1>7. Power = power
  BY DEF Power, n
<1> HIDE DEF power
<1>8. power[0] = 1 /\ \A k \in 1..n : power[k] = 2 * power[k - 1]
  BY <1>0, <1>6
<1> DEFINE T == {k \in 0..n : power[k] \in S}
<1>9. \A k \in 0..n : power[k] \in S
  <2> SUFFICES ASSUME NEW k \in 0..n PROVE k \in T
    OBVIOUS
  <2>1. 0 \in T /\ \A j \in 1..k : j - 1 \in T => j \in T
    BY <1>0, <1>1, <1>8
  <2> HIDE DEF T
  <2> QED
    BY <1>0, <2>1, UpTo
<1> QED
  BY <1>7, <1>8, <1>9 DEF n, S

\* The search ends at the largest gap that passes the test, if its numbers have Bits bits.
LEMMA BisectedIs ==
  ASSUME NEW m \in Nat, m >= 2, NEW spans, SpanSeq(spans, m), FeasibleGap(spans, 0),
         \A i, j \in 1..m : spans[j].right - spans[i].left + 1 < Power[Bits]
  PROVE  /\ MaxFeasibleGap(spans) \in Nat /\ FeasibleGap(spans, MaxFeasibleGap(spans))
         /\ ~FeasibleGap(spans, MaxFeasibleGap(spans) + 1)
<1>0. Bits \in Nat /\ 0 \in 0..Bits /\ Bits \in 0..Bits
  BY DEF Bits
<1>1. PICK top, b : /\ IsTop(top, spans, m) /\ IsBisection(b, top, spans)
                    /\ MaxFeasibleGap(spans) = b[Bits].lo
  BY BisectionIs
<1>2. top \in Int /\ top < Power[Bits]
  BY <1>1 DEF IsTop
<1>3. /\ b \in [0..Bits -> [lo : Int, hi : Int]] /\ b[0] = [lo |-> 0, hi |-> top]
      /\ \A k \in 1..Bits : b[k] = Halved(spans, b[k - 1])
  BY <1>1 DEF IsBisection
<1> DEFINE Between(x, room) == /\ x \in [lo : Int, hi : Int] /\ 0 <= x.lo /\ x.lo <= x.hi
                               /\ FeasibleGap(spans, x.lo)
                               /\ (\A gap \in Int : gap > x.hi => ~FeasibleGap(spans, gap))
                               /\ x.hi - x.lo < room
           T == {k \in 0..Bits : Between(b[k], Power[Bits - k])}
<1>4. top >= 0
  <2>1. 0 >= top => ~FeasibleGap(spans, 0)
    BY <1>1, <1>2, GapsAre
  <2> QED
    BY <1>2, <2>1
<1>5. 0 \in T
  <2>1. Bits - 0 = Bits /\ b[0].lo = 0 /\ b[0].hi = top /\ b[0] \in [lo : Int, hi : Int]
    BY <1>0, <1>2, <1>3
  <2>2. \A gap \in Int : gap > top => ~FeasibleGap(spans, gap)
    BY <1>1, <1>2, GapsAre
  <2>3. Between(b[0], Power[Bits - 0])
    BY <1>2, <1>4, <2>1, <2>2
  <2> QED
    BY <1>0, <2>3
<1>6. ASSUME NEW k \in 1..Bits, k - 1 \in T PROVE k \in T
  <2> DEFINE x == b[k - 1]
             y == b[k]
             p == Power[Bits - k]
             mid == (x.lo + x.hi + 1) \div 2
  <2>1. Power[Bits - (k - 1)] = 2 * p /\ p \in Nat \ {0}
    <3>1. Bits - (k - 1) \in 1..Bits /\ Bits - k \in 0..Bits /\ Bits - (k - 1) - 1 = Bits - k
      BY <1>0
    <3> QED
      BY <3>1, PowerIs
  <2>2. Between(x, 2 * p)
    BY <1>6, <2>1
  <2>3. y = IF x.lo >= x.hi THEN x
            ELSE IF FeasibleGap(spans, mid) THEN [lo |-> mid, hi |-> x.hi]
            ELSE [lo |-> x.lo, hi |-> mid - 1]
    BY <1>3 DEF Halved
  <2> SUFFICES Between(y, p)
    OBVIOUS
  <2> HIDE DEF x, y, p
  <2>4. x.lo \in Int /\ x.hi \in Int /\ 0 <= x.lo /\ x.lo <= x.hi /\ x.hi - x.lo < 2 * p
    BY <2>2
  <2>5. mid \in Int /\ 2 * mid <= x.lo + x.hi + 1 /\ x.lo + x.hi <= 2 * mid
    BY <2>4
  <2>10. /\ x \in [lo : Int, hi : Int] /\ FeasibleGap(spans, x.lo)
         /\ \A gap \in Int : gap > x.hi => ~FeasibleGap(spans, gap)
    BY <2>2
  <2>6. CASE x.lo >= x.hi
    <3>1. y = x
      BY <2>3, <2>6
    <3>2. x.hi - x.lo < p
      BY <2>1, <2>4, <2>6
    <3> QED
      BY <2>4, <2>10, <3>1, <3>2
  <2>7. CASE ~(x.lo >= x.hi) /\ FeasibleGap(spans, mid)
    <3>1. y = [lo |-> mid, hi |-> x.hi]
      BY <2>3, <2>7
    <3> HIDE DEF mid
    <3>2. 0 <= mid /\ mid <= x.hi /\ x.hi - mid < p
      BY <2>1, <2>4, <2>5, <2>7
    <3>3. y \in [lo : Int, hi : Int] /\ y.lo = mid /\ y.hi = x.hi
      BY <2>4, <2>5, <3>1
    <3> QED
      BY <2>7, <2>10, <3>2, <3>3
  <2>8. CASE ~(x.lo >= x.hi) /\ ~FeasibleGap(spans, mid)
    <3>1. y = [lo |-> x.lo, hi |-> mid - 1]
      BY <2>3, <2>8
    <3>2. \A gap \in Int : gap > mid - 1 => ~FeasibleGap(spans, gap)
      <4> SUFFICES ASSUME NEW gap \in Int, gap > mid - 1, FeasibleGap(spans, gap) PROVE FALSE
        OBVIOUS
      <4> HIDE DEF mid
      <4>1. mid <= gap /\ mid \in Int
        BY <2>5
      <4> QED
        BY <2>8, <4>1, GapsAre
    <3> HIDE DEF mid
    <3>3. x.lo <= mid - 1 /\ (mid - 1) - x.lo < p /\ mid - 1 \in Int
      BY <2>1, <2>4, <2>5, <2>8
    <3>4. y \in [lo : Int, hi : Int] /\ y.lo = x.lo /\ y.hi = mid - 1
      BY <2>4, <3>1, <3>3
    <3> QED
      BY <2>4, <2>10, <3>2, <3>3, <3>4
  <2> HIDE DEF Between, mid
  <2> QED
    BY <2>6, <2>7, <2>8
<1> HIDE DEF T
<1>7. Bits \in T
  BY <1>0, <1>5, <1>6, UpTo
<1>8. Between(b[Bits], 1)
  <2>1. Bits - Bits = 0
    BY <1>0
  <2> QED
    BY <1>7, <2>1, PowerIs DEF T
<1> DEFINE lo == b[Bits].lo
           hi == b[Bits].hi
<1>9. lo \in Int /\ hi \in Int /\ 0 <= lo /\ lo <= hi /\ hi - lo < 1
  BY <1>8
<1>10. FeasibleGap(spans, lo) /\ \A gap \in Int : gap > hi => ~FeasibleGap(spans, gap)
  BY <1>8
<1>11. MaxFeasibleGap(spans) = lo
  BY <1>1
<1> HIDE DEF lo, hi
<1>12. lo \in Nat /\ lo + 1 \in Int /\ lo + 1 > hi
  BY <1>9
<1> QED
  BY <1>10, <1>11, <1>12

LEMMA FloorIs ==
  ASSUME NEW a \in Int, NEW d \in Nat \ {0}, NEW g \in Int
  PROVE  a \div d \in Int /\ (d * g <= a <=> g <= a \div d)
<1> DEFINE q == a \div d
<1>1. q \in Int /\ d * q <= a /\ a < d * q + d /\ d * q \in Int /\ d * g \in Int
  OBVIOUS
<1> HIDE DEF q
<1>2. ASSUME g <= q PROVE d * g <= a
  <2>1. q - g \in Nat /\ d * (q - g) \in Nat /\ d * (q - g) = d * q - d * g
    BY <1>1, <1>2
  <2> DEFINE x == d * q
             y == d * g
  <2>2. x - y \in Nat /\ x \in Int /\ y \in Int /\ x <= a
    BY <1>1, <2>1
  <2> HIDE DEF x, y
  <2>3. y <= a
    BY <2>2
  <2> QED
    BY <2>3 DEF y
<1>3. ASSUME g > q PROVE ~(d * g <= a)
  <2>1. g - q - 1 \in Nat /\ d * (g - q - 1) \in Nat /\ d * (g - q - 1) = d * g - d * q - d
    BY <1>1, <1>3
  <2> DEFINE x == d * q
             y == d * g
  <2>2. y - x - d \in Nat /\ x \in Int /\ y \in Int /\ a < x + d
    BY <1>1, <2>1
  <2> HIDE DEF x, y
  <2>3. ~(y <= a)
    BY <2>2
  <2> QED
    BY <2>3 DEF y
<1> QED
  BY <1>1, <1>2, <1>3 DEF q

\* What each pair of sets leaves for each gap between them.
LEMMA GapIsMin ==
  ASSUME NEW m \in Nat, m >= 2, NEW spans, SpanSeq(spans, m),
         \A i, j \in 1..m : i <= j => spans[i].left <= spans[j].right,
         \A i, j \in 1..m : spans[j].right - spans[i].left + 1 < Power[Bits]
  PROVE  LET pairs == {p \in (DOMAIN spans) \X (DOMAIN spans) : p[1] < p[2]}
         IN  MaxFeasibleGap(spans)
               = Min({(spans[p[2]].right - spans[p[1]].left) \div (p[2] - p[1]) : p \in pairs})
<1> DEFINE pairs == {p \in (DOMAIN spans) \X (DOMAIN spans) : p[1] < p[2]}
           room == [p \in pairs |-> (spans[p[2]].right - spans[p[1]].left) \div (p[2] - p[1])]
           rooms == {room[p] : p \in pairs}
           G == MaxFeasibleGap(spans)
<1>0. m \in Nat \ {0} /\ 1 \in 1..m /\ 2 \in 1..m /\ DOMAIN spans = 1..m
  BY DEF SpanSeq
<1>1. \A i, j \in 1..m : \A gap \in Int : i < j =>
        /\ room[<<i, j>>] \in Int
        /\ Reach(spans, i, j, gap) <= spans[j].right <=> gap <= room[<<i, j>>]
  <2> SUFFICES ASSUME NEW i \in 1..m, NEW j \in 1..m, NEW gap \in Int, i < j
               PROVE  /\ room[<<i, j>>] \in Int
                      /\ Reach(spans, i, j, gap) <= spans[j].right <=> gap <= room[<<i, j>>]
    OBVIOUS
  <2> DEFINE d == j - i
             l == spans[i].left
             r == spans[j].right
             a == r - l
  <2>1. d \in Nat \ {0} /\ l \in Int /\ r \in Int /\ a \in Int
    BY DEF SpanSeq
  <2>2. room[<<i, j>>] = a \div d
    <3>1. <<i, j>> \in pairs
      BY <1>0
    <3> QED
      BY <3>1
  <2>3. Reach(spans, i, j, gap) = l + d * gap
    BY DEF Reach
  <2> HIDE DEF d, l, a, room
  <2>4. a \div d \in Int /\ (d * gap <= a <=> gap <= a \div d) /\ d * gap \in Int
    BY <2>1, FloorIs
  <2> DEFINE x == d * gap
  <2>5. x \in Int /\ Reach(spans, i, j, gap) = l + x /\ (x <= a <=> gap <= room[<<i, j>>])
    BY <2>2, <2>3, <2>4
  <2> HIDE DEF x
  <2>6. l + x <= r <=> x <= a
    BY <2>1, <2>5 DEF a
  <2>7. room[<<i, j>>] \in Int
    BY <2>2, <2>4
  <2> QED
    BY <2>5, <2>6, <2>7 DEF r
<1>2. FeasibleGap(spans, 0)
  <2>1. ASSUME NEW i \in 1..m, NEW j \in 1..m, i <= j PROVE Reach(spans, i, j, 0) <= spans[j].right
    <3>1. Reach(spans, i, j, 0) = spans[i].left
      <4>1. (j - i) * 0 = 0 /\ spans[i].left \in Int
        BY DEF SpanSeq
      <4> QED
        BY <4>1 DEF Reach
    <3> QED
      BY <2>1, <3>1
  <2> QED
    BY <1>0, <2>1, GreedyIs
<1>3. G \in Nat /\ FeasibleGap(spans, G) /\ ~FeasibleGap(spans, G + 1)
  BY <1>2, BisectedIs
<1> HIDE DEF G
<1>4. \A p \in pairs : p[1] \in 1..m /\ p[2] \in 1..m /\ p[1] < p[2] /\ p = <<p[1], p[2]>>
  BY <1>0
<1>5. \A p \in pairs : G <= room[p] /\ room[p] \in Int
  <2> SUFFICES ASSUME NEW p \in pairs PROVE G <= room[p] /\ room[p] \in Int
    OBVIOUS
  <2> DEFINE i == p[1]
             j == p[2]
  <2>1. i \in 1..m /\ j \in 1..m /\ i < j /\ p = <<i, j>>
    BY <1>4
  <2> HIDE DEF i, j, pairs, room
  <2>2. G \in Int /\ i <= j
    BY <1>3, <2>1
  <2>3. Reach(spans, i, j, G) <= spans[j].right
    BY <1>0, <1>3, <2>1, <2>2, GreedyIs
  <2> QED
    BY <1>1, <2>1, <2>2, <2>3
<1>6. \E p \in pairs : room[p] <= G
  <2>1. PICK i \in 1..m, j \in 1..m : i <= j /\ ~(Reach(spans, i, j, G + 1) <= spans[j].right)
    <3>1. G + 1 \in Int
      BY <1>3
    <3> QED
      BY <1>0, <1>3, <3>1, GreedyIs
  <2>2. i # j
    <3>0. G + 1 \in Int
      BY <1>3
    <3>1. Reach(spans, i, i, G + 1) = spans[i].left
      BY <3>0, ReachIs
    <3>2. spans[i].left <= spans[i].right
      BY DEF SpanSeq
    <3> QED
      BY <2>1, <3>1, <3>2
  <2>3. i < j /\ G + 1 \in Int
    BY <1>3, <2>1, <2>2
  <2>4. <<i, j>> \in pairs
    BY <1>0, <2>3
  <2> HIDE DEF pairs, room
  <2>5. room[<<i, j>>] \in Int /\ ~(G + 1 <= room[<<i, j>>])
    BY <1>1, <2>1, <2>3
  <2>6. room[<<i, j>>] <= G
    BY <1>3, <2>5
  <2> QED
    BY <2>4, <2>6
<1>7. IsFiniteSet(pairs) /\ DOMAIN room = pairs
  <2>1. IsFiniteSet((1..m) \X (1..m))
    <3>1. IsFiniteSet(1..m)
      BY FS_Interval
    <3> QED
      BY <3>1, FS_Product, Zenon
  <2>2. pairs \subseteq (1..m) \X (1..m)
    BY <1>0
  <2> HIDE DEF pairs
  <2> QED
    BY <2>1, <2>2, FS_Subset
<1>8. rooms = {(spans[p[2]].right - spans[p[1]].left) \div (p[2] - p[1]) : p \in pairs}
  OBVIOUS
<1> HIDE DEF pairs, room
<1>9. IsFiniteSet(rooms) /\ rooms \subseteq Int /\ rooms # {}
  BY <1>5, <1>6, <1>7, ImageFinite
<1>10. /\ \A y \in rooms : G <= y
       /\ \E y \in rooms : y <= G
  BY <1>5, <1>6
<1> HIDE DEF rooms
<1>11. Min(rooms) \in rooms /\ \A y \in rooms : Min(rooms) <= y
  BY <1>9, MinIs
<1>12. Min(rooms) \in Int /\ G <= Min(rooms) /\ Min(rooms) <= G
  <2>1. PICK y \in rooms : y <= G
    BY <1>10
  <2>2. Min(rooms) \in Int /\ y \in Int /\ Min(rooms) <= y /\ G <= Min(rooms)
    BY <1>9, <1>10, <1>11
  <2> QED
    BY <1>3, <2>1, <2>2
<1>13. G = Min(rooms)
  BY <1>3, <1>12
<1> QED
  BY <1>8, <1>13 DEF G, pairs

\* The spans of a cluster leave every two sets some room.
LEMMA ClusterRoom ==
  ASSUME NEW boils, BoilSet(boils), \A t \in boils : t.startTime <= t.endTime,
         NEW ratio \in Nat, NEW sets, NEW spans, AreSets(sets, spans, boils, ratio),
         NEW i \in 1..Len(sets), NEW j \in 1..Len(sets)
  PROVE  /\ \E a, b \in boils : spans[i].left = Left(a, ratio) /\ spans[j].right = Right(b, ratio)
         /\ i <= j => spans[i].left <= spans[j].right
<1>1. /\ spans[i] = Span(sets[i], ratio) /\ BoilSet(sets[i]) /\ sets[i] # {} /\ sets[i] \subseteq boils
      /\ spans[j] = Span(sets[j], ratio) /\ BoilSet(sets[j]) /\ sets[j] # {} /\ sets[j] \subseteq boils
  BY DEF AreSets, Together
<1>2. PICK a \in sets[i], b \in sets[j] : spans[i].left = Left(a, ratio) /\ spans[j].right = Right(b, ratio)
  <2>0. ratio \in Int
    OBVIOUS
  <2>1. \E a \in sets[i] : Span(sets[i], ratio).left = Left(a, ratio)
    BY <1>1, <2>0, SpanIs
  <2>2. \E b \in sets[j] : Span(sets[j], ratio).right = Right(b, ratio)
    BY <1>1, <2>0, SpanIs
  <2> QED
    BY <1>1, <2>1, <2>2
<1>3. ASSUME i < j PROVE spans[i].left <= spans[j].right
  <2>1. ~EarlierCentre(b, a)
    BY <1>2, <1>3 DEF AreSets, Ordered
  <2>2. a \in boils /\ b \in boils /\ IsBoil(a) /\ IsBoil(b)
    BY <1>1, <1>2 DEF BoilSet
  <2>3. a.endTime <= b.endTime
    BY <2>1, <2>2 DEF EarlierCentre, IsBoil
  <2> DEFINE d == a.endTime - a.startTime
             e == b.endTime - b.startTime
             x == d * ratio
             y == e * ratio
  <2>4. Left(a, ratio) = a.endTime * 100 - x /\ Right(b, ratio) = b.endTime * 100 + y
    BY Zenon DEF Left, Right
  <2> HIDE DEF x, y
  <2>5. d \in Nat /\ e \in Nat
    <3>1. a.startTime <= a.endTime /\ b.startTime <= b.endTime
      BY <2>2
    <3> QED
      BY <2>2, <3>1 DEF IsBoil
  <2> HIDE DEF d, e
  <2>6. x \in Nat /\ y \in Nat
    BY <2>5 DEF x, y
  <2> DEFINE l == Left(a, ratio)
             r == Right(b, ratio)
  <2>7. a.endTime \in Int /\ b.endTime \in Int
    BY <2>2 DEF IsBoil
  <2>8. l <= r
    BY <2>3, <2>4, <2>6, <2>7
  <2> QED
    BY <1>2, <2>8
<1>4. ASSUME i = j PROVE spans[i].left <= spans[j].right
  BY <1>4 DEF AreSets, SpanSeq
<1>5. i \in Int /\ j \in Int
  BY DEF AreSets
<1> QED
  BY <1>1, <1>2, <1>3, <1>4, <1>5

-----------------------------------------------------------------------------
(* The inputs a behaviour builds.                                          *)

\* The times are numbers of the code, on the scale of the windows.
TimesFit == \A s \in StartTimes, d \in Durations : 150 * (s + d) + 1 < Power[Bits]

Slots == UNION {[1..n -> Nat] : n \in Nat}

GivenBoils ==
  /\ with \in Configs /\ BoilSet(given)
  /\ \A t \in given : /\ t.seq < Cardinality(given)
                       /\ \E s \in StartTimes, d \in Durations : t.startTime = s /\ t.endTime = s + d

GivenLifts == with \in Params /\ given \in Seq([serveAt : Int, slots : Slots])

GivenPolicies ==
  /\ IsFiniteSet(DOMAIN given) /\ DOMAIN given \subseteq Int
  /\ \A p \in DOMAIN given : given[p].priority \in Int

GivenInv ==
  /\ subject = "boils" => GivenBoils
  /\ subject = "lifts" => GivenLifts
  /\ subject = "policies" => GivenPolicies

LEMMA GivenInit == Init => GivenInv
<1> SUFFICES ASSUME Init PROVE GivenInv
  OBVIOUS
<1>1. CASE subject = "boils" /\ given = {} /\ with \in Configs
  BY <1>1, FS_EmptySet DEF GivenInv, GivenBoils, BoilSet
<1>2. CASE subject = "lifts" /\ given = <<>> /\ with \in Params
  BY <1>2 DEF GivenInv, GivenLifts
<1>3. CASE subject = "policies" /\ given = <<>>
  BY <1>3, FS_EmptySet DEF GivenInv, GivenPolicies
<1>4. CASE subject = "value"
  BY <1>4 DEF GivenInv
<1> QED
  BY <1>1, <1>2, <1>3, <1>4 DEF Init

LEMMA GivenStep == GivenInv /\ [Next]_vars => GivenInv'
<1> SUFFICES ASSUME GivenInv, [Next]_vars PROVE GivenInv'
  OBVIOUS
<1>0. CASE UNCHANGED vars
  BY <1>0 DEF vars, GivenInv, GivenBoils, GivenLifts, GivenPolicies
<1>1. ASSUME NEW s \in StartTimes, NEW d \in Durations, UNCHANGED <<subject, with>>, StartTimer(s, d)
      PROVE  GivenInv'
  <2> DEFINE n == Cardinality(given)
             t == [seq |-> n, startTime |-> s, endTime |-> s + d, boiledAt |-> None, adjustment |-> 0]
  <2>1. subject = "boils" /\ given' = given \cup {t} /\ GivenBoils
    BY <1>1 DEF StartTimer, GivenInv
  <2>2. n \in Nat /\ IsFiniteSet(given) /\ s \in Nat /\ d \in Nat
    BY <2>1, FS_CardinalityType, AlgorithmsAssumption DEF GivenBoils, BoilSet
  <2>3. IsBoil(t) /\ t.seq = n /\ t.startTime = s /\ t.endTime = s + d
    BY <2>2 DEF IsBoil
  <2>4. t \notin given
    BY <2>1, <2>2, <2>3 DEF GivenBoils
  <2> HIDE DEF t
  <2>5. IsFiniteSet(given') /\ Cardinality(given') = n + 1
    BY <2>1, <2>2, <2>4, FS_AddElement
  <2> HIDE DEF n
  <2>6. \A u \in given : u.seq \in Nat /\ u.seq < n
    BY <2>1 DEF GivenBoils, BoilSet, IsBoil, n
  <2>7. BoilSet(given')
    BY <2>1, <2>2, <2>3, <2>5, <2>6 DEF BoilSet, GivenBoils
  <2>8. \A u \in given' : /\ u.seq < Cardinality(given')
                          /\ \E s2 \in StartTimes, d2 \in Durations : u.startTime = s2 /\ u.endTime = s2 + d2
    <3> SUFFICES ASSUME NEW u \in given'
                 PROVE  /\ u.seq < Cardinality(given')
                        /\ \E s2 \in StartTimes, d2 \in Durations : u.startTime = s2 /\ u.endTime = s2 + d2
      OBVIOUS
    <3>1. CASE u = t
      BY <2>2, <2>3, <2>5, <3>1
    <3>2. CASE u \in given
      BY <2>1, <2>2, <2>5, <2>6, <3>2 DEF GivenBoils
    <3> QED
      BY <2>1, <3>1, <3>2
  <2>9. GivenBoils'
    BY <1>1, <2>1, <2>7, <2>8 DEF GivenBoils
  <2> QED
    BY <1>1, <2>1, <2>9 DEF GivenInv
<1>2. ASSUME NEW t \in Instants, NEW n \in Spans, UNCHANGED <<subject, with>>, Lift(t, n)
      PROVE  GivenInv'
  <2>1. subject = "lifts" /\ GivenLifts
        /\ given' = Append(given, [serveAt |-> t, slots |-> [s \in 1..n |-> s]])
    BY <1>2 DEF Lift, GivenInv
  <2>2. t \in Int /\ n \in Nat
    BY AlgorithmsAssumption
  <2>3. [s \in 1..n |-> s] \in Slots
    <3>1. [s \in 1..n |-> s] \in [1..n -> Nat]
      BY <2>2
    <3> QED
      BY <2>2, <3>1 DEF Slots
  <2>4. [serveAt |-> t, slots |-> [s \in 1..n |-> s]] \in [serveAt : Int, slots : Slots]
    BY <2>2, <2>3
  <2>5. GivenLifts'
    BY <1>2, <2>1, <2>4, AppendProperties DEF GivenLifts
  <2> QED
    BY <1>2, <2>1, <2>5 DEF GivenInv
<1>3. ASSUME NEW p \in Ids, NEW n \in Priorities, NEW fields, UNCHANGED <<subject, with>>,
             AddPolicy(p, n, fields)
      PROVE  GivenInv'
  <2>1. subject = "policies" /\ GivenPolicies
        /\ given' = With(given, p, [priority |-> n, fields |-> fields])
    BY <1>3 DEF AddPolicy, GivenInv
  <2>2. p \in Int /\ n \in Int
    BY AlgorithmsAssumption
  <2>3. /\ DOMAIN given' = DOMAIN given \cup {p}
        /\ \A q \in DOMAIN given' : given'[q] = IF q = p THEN [priority |-> n, fields |-> fields]
                                               ELSE given[q]
    BY <2>1 DEF With
  <2>4. IsFiniteSet(DOMAIN given')
    BY <2>1, <2>3, FS_AddElement DEF GivenPolicies
  <2>5. GivenPolicies'
    BY <2>1, <2>2, <2>3, <2>4 DEF GivenPolicies
  <2> QED
    BY <1>3, <2>1, <2>5 DEF GivenInv
<1>4. ASSUME NEW f, NEW v, UNCHANGED subject, Submit(f, v)
      PROVE  GivenInv'
  BY <1>4 DEF Submit, GivenInv
<1> QED
  BY <1>0, <1>1, <1>2, <1>3, <1>4 DEF Next

LEMMA GivenInvariance == Spec => []GivenInv
BY GivenInit, GivenStep, PTL DEF Spec

-----------------------------------------------------------------------------
(* What the runs check, for inputs of any size.                            *)

\* sync.ts maxFeasibleGap: the gap is the least of what each two sets leave for each gap
\* between them, if the times are numbers of the code.
THEOREM GapIsLargestHolds == TimesFit => (Spec => []GapIsLargest)
<1> SUFFICES ASSUME TimesFit PROVE Spec => []GapIsLargest
  OBVIOUS
<1>1. ASSUME GivenInv PROVE GapIsLargest
  <2> SUFFICES ASSUME subject = "boils", NEW spans \in AllSpans
               PROVE  LET pairs == {p \in (DOMAIN spans) \X (DOMAIN spans) : p[1] < p[2]}
                      IN  pairs # {} =>
                            MaxFeasibleGap(spans)
                              = Min({(spans[p[2]].right - spans[p[1]].left) \div (p[2] - p[1]) : p \in pairs})
    BY DEF GapIsLargest
  <2>1. GivenBoils
    BY <1>1 DEF GivenInv
  <2>2. PICK t \in given : spans = ClusterSpans(t, given, with)
    BY DEF AllSpans, ClusterSpans, ClusterSets
  <2> DEFINE sets == ClusterSets(t, given, with)
             ratio == with.ratio
             m == Len(sets)
  <2>3. IsConfig(with) /\ ratio \in 0..50
    BY <2>1, AlgorithmsAssumption DEF GivenBoils, IsConfig
  <2>4. AreSets(sets, spans, given, ratio) /\ BoilSet(given)
    BY <2>1, <2>2, <2>3, ClusterSpansAre DEF GivenBoils
  <2> HIDE DEF sets, ratio
  <2>5. m \in Nat /\ SpanSeq(spans, m) /\ DOMAIN spans = 1..m
    BY <2>4 DEF AreSets, SpanSeq
  <2>6. \A u \in given : /\ u.startTime \in Nat /\ u.endTime \in Nat /\ u.startTime <= u.endTime
                         /\ 150 * u.endTime + 1 < Power[Bits]
    <3> SUFFICES ASSUME NEW u \in given
                 PROVE  /\ u.startTime \in Nat /\ u.endTime \in Nat /\ u.startTime <= u.endTime
                        /\ 150 * u.endTime + 1 < Power[Bits]
      OBVIOUS
    <3>1. PICK s \in StartTimes, d \in Durations : u.startTime = s /\ u.endTime = s + d
      BY <2>1 DEF GivenBoils
    <3>2. s \in Nat /\ d \in Nat /\ 150 * (s + d) + 1 < Power[Bits]
      BY AlgorithmsAssumption DEF TimesFit
    <3> QED
      BY <3>1, <3>2
  <2>7. \A i, j \in 1..m : /\ i <= j => spans[i].left <= spans[j].right
                           /\ spans[j].right - spans[i].left + 1 < Power[Bits]
    <3> SUFFICES ASSUME NEW i \in 1..m, NEW j \in 1..m
                 PROVE  /\ i <= j => spans[i].left <= spans[j].right
                        /\ spans[j].right - spans[i].left + 1 < Power[Bits]
      OBVIOUS
    <3>1. /\ \E a, b \in given : spans[i].left = Left(a, ratio) /\ spans[j].right = Right(b, ratio)
          /\ i <= j => spans[i].left <= spans[j].right
      <4>1. ratio \in Nat
        BY <2>3
      <4> QED
        BY <2>4, <2>6, <4>1, ClusterRoom
    <3>2. PICK a \in given, b \in given : spans[i].left = Left(a, ratio) /\ spans[j].right = Right(b, ratio)
      BY <3>1
    <3>3. \A u \in given : LET d == u.endTime - u.startTime
                           IN  d * ratio \in Nat /\ 2 * (d * ratio) <= 100 * u.endTime
      <4> SUFFICES ASSUME NEW u \in given, NEW d, d = u.endTime - u.startTime
                   PROVE  d * ratio \in Nat /\ 2 * (d * ratio) <= 100 * u.endTime
        OBVIOUS
      <4>1. d \in Nat /\ d <= u.endTime /\ u.endTime \in Nat
        BY <2>6
      <4>2. 50 - ratio \in Nat /\ d * (50 - ratio) \in Nat /\ d * (50 - ratio) = d * 50 - d * ratio
        BY <2>3, <4>1
      <4>3. d * ratio \in Nat
        BY <2>3, <4>1
      <4> DEFINE x == d * ratio
      <4>4. x \in Nat /\ d * 50 - x \in Nat
        BY <4>2, <4>3
      <4> HIDE DEF x
      <4>5. 2 * x <= 100 * u.endTime
        BY <4>1, <4>4
      <4> QED
        BY <4>3, <4>5 DEF x
    <3> DEFINE x == (a.endTime - a.startTime) * ratio
               y == (b.endTime - b.startTime) * ratio
    <3>4. x \in Nat /\ y \in Nat /\ 2 * x <= 100 * a.endTime /\ 2 * y <= 100 * b.endTime
      BY <3>3
    <3>5. spans[i].left = a.endTime * 100 - x /\ spans[j].right = b.endTime * 100 + y
      BY <3>2 DEF Left, Right
    <3> HIDE DEF x, y
    <3>6. /\ a.endTime \in Nat /\ b.endTime \in Nat /\ 150 * b.endTime + 1 < Power[Bits]
          /\ Power[Bits] \in Nat
      <4>1. Bits \in 0..Bits
        BY DEF Bits
      <4> QED
        BY <2>6, <4>1, PowerIs
    <3>7. spans[j].right - spans[i].left + 1 < Power[Bits]
      <4> DEFINE e == a.endTime
                 f == b.endTime
                 l == spans[i].left
                 r == spans[j].right
                 top == Power[Bits]
      <4>1. /\ e \in Nat /\ f \in Nat /\ x \in Nat /\ y \in Nat /\ top \in Nat
            /\ 2 * x <= 100 * e /\ 2 * y <= 100 * f /\ 150 * f + 1 < top
            /\ l = e * 100 - x /\ r = f * 100 + y
        BY <3>4, <3>5, <3>6
      <4> HIDE DEF e, f, l, r, top
      <4>2. r - l + 1 < top
        BY <4>1
      <4> QED
        BY <4>2 DEF l, r, top
    <3> QED
      BY <3>1, <3>7
  <2> HIDE DEF m
  <2>8. ASSUME m < 2, NEW p \in (DOMAIN spans) \X (DOMAIN spans) PROVE ~(p[1] < p[2])
    BY <2>5, <2>8
  <2>9. CASE m < 2
    BY <2>8, <2>9
  <2>10. CASE m >= 2
    BY <2>5, <2>7, <2>10, GapIsMin
  <2> QED
    BY <2>5, <2>9, <2>10
<1> QED
  BY <1>1, GivenInvariance, PTL

\* What comes up, whatever is lifted.
LEMMA LiftsAre ==
  ASSUME NEW seq \in Seq([serveAt : Int, slots : Slots])
  PROVE  IsLifts(AdvanceLifts(NoLifts, seq))
<1> DEFINE at == {q.serveAt : q \in ToSet(seq)}
           num(t) == [k \in DOMAIN seq |-> IF seq[k].serveAt = t THEN Len(seq[k].slots) ELSE 0]
<1>1. Len(seq) \in Nat /\ DOMAIN seq = 1..Len(seq)
      /\ \A k \in 1..Len(seq) : seq[k].serveAt \in Int /\ seq[k].slots \in Slots
  <2> DEFINE P == [serveAt : Int, slots : Slots]
  <2>1. \A q \in P : q.serveAt \in Int /\ q.slots \in Slots
    OBVIOUS
  <2>2. seq \in Seq(P)
    OBVIOUS
  <2> HIDE DEF P
  <2>3. Len(seq) \in Nat /\ DOMAIN seq = 1..Len(seq) /\ \A k \in 1..Len(seq) : seq[k] \in P
    BY <2>2
  <2> QED
    BY <2>1, <2>3
<1>2. IsFiniteSet(at) /\ at \subseteq Int
  <2> DEFINE f == [k \in 1..Len(seq) |-> seq[k].serveAt]
             image == {f[k] : k \in 1..Len(seq)}
  <2>1. at = image
    BY <1>1 DEF ToSet
  <2>2. IsFiniteSet(1..Len(seq)) /\ DOMAIN f = 1..Len(seq)
    BY <1>1, FS_Interval
  <2>3. \A k \in 1..Len(seq) : f[k] \in Int
    BY <1>1
  <2> HIDE DEF f
  <2>4. IsFiniteSet(image) /\ image \subseteq Int
    BY <2>2, <2>3, ImageFinite
  <2> QED
    BY <2>1, <2>4
<1>3. \A t \in Int : LiftedAt(seq, t) \in Nat
  <2> SUFFICES ASSUME NEW t \in Int PROVE LiftedAt(seq, t) \in Nat
    OBVIOUS
  <2>1. \A k \in 1..Len(seq) : Len(seq[k].slots) \in Nat
    <3> SUFFICES ASSUME NEW k \in 1..Len(seq) PROVE Len(seq[k].slots) \in Nat
      OBVIOUS
    <3>1. PICK n \in Nat : seq[k].slots \in [1..n -> Nat]
      BY <1>1 DEF Slots
    <3> QED
      BY <3>1
  <2>2. num(t) \in [1..Len(seq) -> Nat]
    BY <1>1, <2>1
  <2> HIDE DEF num
  <2>3. Total(num(t)) \in Nat
    BY <1>1, <2>2, TotalNat
  <2> QED
    BY <2>3 DEF LiftedAt, num
<1> DEFINE table == AdvanceLifts(NoLifts, seq)
<1>4. DOMAIN NoLifts = {} /\ \A t \in at : LiftsAt(NoLifts, t) = 0
  BY DEF NoLifts, LiftsAt
<1>5. DOMAIN table = at /\ \A t \in at : table[t] = LiftsAt(NoLifts, t) + LiftedAt(seq, t)
  BY <1>4 DEF AdvanceLifts
<1> HIDE DEF at, table
<1>6. \A t \in at : table[t] \in Nat
  BY <1>2, <1>3, <1>4, <1>5
<1> QED
  BY <1>2, <1>5, <1>6 DEF IsLifts, table

\* lift.ts firstFit: the first instant that leaves every window around it within the cap,
\* or nothing for what no window holds, whatever is lifted already.
THEOREM FirstFitIsLeastHolds == Spec => []FirstFitIsLeast
<1>1. ASSUME GivenInv PROVE FirstFitIsLeast
  <2> DEFINE table == AdvanceLifts(NoLifts, given)
  <2> SUFFICES ASSUME subject = "lifts", NEW t \in Instants, NEW span \in 1..(LiftCap(with) + 1)
               PROVE  LET fit == FirstFit(table, t, span, with)
                      IN  IF span > LiftCap(with) THEN fit = NoFit
                          ELSE /\ fit >= t /\ HasRoom(table, fit, span)
                               /\ \A u \in t..(fit - 1) : ~HasRoom(table, u, span)
    BY DEF FirstFitIsLeast
  <2> DEFINE fit == FirstFit(table, t, span, with)
             Room == {u \in Int : Fits(table, u, span, with)}
  <2>1. GivenLifts /\ t \in Int
    BY <1>1, AlgorithmsAssumption DEF GivenInv
  <2>2. IsParams(with) /\ LiftCap(with) \in Nat /\ span \in Nat
    BY <2>1, AlgorithmsAssumption, LiftAssumption DEF GivenLifts, IsParams, LiftCap
  <2>3. IsLifts(table)
    BY <2>1, LiftsAre DEF GivenLifts
  <2> HIDE DEF table
  <2>4. CASE span > LiftCap(with)
    BY <2>4 DEF FirstFit
  <2>5. ASSUME ~(span > LiftCap(with)) PROVE IsLeast(fit, Room, t)
    <3>1. span <= LiftCap(with)
      BY <2>2, <2>5
    <3> QED
      BY <2>1, <2>2, <2>3, <3>1, FirstFitIs
  <2>6. \A u \in Int : u \in Room <=> HasRoom(table, u, span)
    BY DEF Fits, HasRoom
  <2> HIDE DEF fit, Room
  <2>7. ASSUME IsLeast(fit, Room, t)
        PROVE  /\ fit >= t /\ HasRoom(table, fit, span)
               /\ \A u \in t..(fit - 1) : ~HasRoom(table, u, span)
    BY <2>1, <2>6, <2>7 DEF IsLeast
  <2> QED
    BY <2>4, <2>5, <2>7 DEF fit
<1> QED
  BY <1>1, GivenInvariance, PTL

-----------------------------------------------------------------------------
(* What the folding of policies comes to.                                  *)

ArePolicies(policies, ids) ==
  IsFiniteSet(ids) /\ ids \subseteq Int /\ \A p \in ids : policies[p].priority \in Int

Asserts(policies, p, field) == field \in DOMAIN policies[p].fields

Enforces(policies, p, field) ==
  Asserts(policies, p, field) /\ policies[p].fields[field].mode = "enforced"

\* What the fold holds after a policy that asserts the field.
Held(policies, p, field) ==
  [value |-> policies[p].fields[field].value, locked |-> policies[p].fields[field].mode = "enforced"]

Nothing == [value |-> None, locked |-> FALSE]

\* The policies come in the order of their ranks, all of them.
LEMMA OrderIs ==
  ASSUME NEW policies, NEW ids, ArePolicies(policies, ids)
  PROVE  /\ \A k \in 1..Cardinality(ids) : PolicyOrder(policies, ids)[k] \in ids
         /\ \A p \in ids : \E k \in 1..Cardinality(ids) : PolicyOrder(policies, ids)[k] = p
         /\ \A j, k \in 1..Cardinality(ids) :
              j < k => policies[PolicyOrder(policies, ids)[j]].priority
                         <= policies[PolicyOrder(policies, ids)[k]].priority
<1> DEFINE n == Cardinality(ids)
           R == {p \in ids \X ids : Outranks(policies, p[1], p[2])}
           rank == RankIn(ids, R)
           order == PolicyOrder(policies, ids)
<1>0. n \in Nat /\ IsFiniteSet(ids)
  BY FS_CardinalityType DEF ArePolicies
<1>1. \A p, q \in ids : <<p, q>> \in R <=> Outranks(policies, p, q)
  OBVIOUS
<1>2. \A p \in ids : rank[p] = Cardinality({q \in ids : Outranks(policies, q, p)})
  <2>1. \A p \in ids : {q \in ids : <<q, p>> \in R} = {q \in ids : Outranks(policies, q, p)}
    BY <1>1
  <2> HIDE DEF R
  <2> QED
    BY <2>1 DEF RankIn
<1>3. \A k \in 1..n : order[k] = CHOOSE p \in ids : rank[p] = k - 1
  BY <1>2 DEF PolicyOrder
<1> HIDE DEF R, rank, n, order
<1>4. /\ \A p \in ids : <<p, p>> \notin R
      /\ \A p, q, r \in ids : <<p, q>> \in R /\ <<q, r>> \in R => <<p, r>> \in R
      /\ \A p, q \in ids : p # q => <<p, q>> \in R \/ <<q, p>> \in R
  BY <1>1 DEF Outranks, ArePolicies
<1>5. rank \in Bijection(ids, 0..(n - 1)) /\ \A p, q \in ids : <<p, q>> \in R => rank[p] < rank[q]
  BY <1>0, <1>4, RankedBy DEF rank, n
<1>6. /\ \A p \in ids : rank[p] \in 0..(n - 1)
      /\ \A v \in 0..(n - 1) : \E p \in ids : rank[p] = v
      /\ \A p, q \in ids : rank[p] = rank[q] => p = q
  BY <1>5 DEF Bijection, Injection, Surjection, IsInjective
<1>7. \A k \in 1..n : order[k] \in ids /\ rank[order[k]] = k - 1
  <2> SUFFICES ASSUME NEW k \in 1..n PROVE order[k] \in ids /\ rank[order[k]] = k - 1
    OBVIOUS
  <2>1. k - 1 \in 0..(n - 1)
    BY <1>0
  <2>2. \E p \in ids : rank[p] = k - 1
    BY <1>6, <2>1
  <2> QED
    BY <1>3, <2>2
<1>8. \A p \in ids : \E k \in 1..n : order[k] = p
  <2> SUFFICES ASSUME NEW p \in ids PROVE \E k \in 1..n : order[k] = p
    OBVIOUS
  <2>1. rank[p] \in 0..(n - 1) /\ rank[p] + 1 \in 1..n /\ rank[p] + 1 - 1 = rank[p]
    BY <1>0, <1>6
  <2>2. order[rank[p] + 1] \in ids /\ rank[order[rank[p] + 1]] = rank[p]
    BY <1>7, <2>1
  <2> QED
    BY <1>6, <2>1, <2>2
<1>9. ASSUME NEW j \in 1..n, NEW k \in 1..n, j < k
      PROVE  policies[order[j]].priority <= policies[order[k]].priority
  <2>1. order[j] \in ids /\ order[k] \in ids /\ rank[order[j]] = j - 1 /\ rank[order[k]] = k - 1
    BY <1>7
  <2>2. j - 1 < k - 1 /\ ~(k - 1 < j - 1) /\ j - 1 # k - 1
    BY <1>0, <1>9
  <2> DEFINE p == order[j]
             q == order[k]
  <2>3. p \in ids /\ q \in ids /\ ~(rank[q] < rank[p]) /\ rank[p] # rank[q]
    BY <2>1, <2>2
  <2> HIDE DEF p, q
  <2>4. Outranks(policies, p, q)
    BY <1>1, <1>4, <1>5, <2>3
  <2>5. policies[p].priority <= policies[q].priority
    BY <2>3, <2>4 DEF Outranks, ArePolicies
  <2> QED
    BY <2>5 DEF p, q
<1> QED
  BY <1>7, <1>8, <1>9 DEF n, order

\* Who decides a field: the first policy that enforces it or, if none does, the last that
\* asserts it.
Decides(policies, ids, field, w) ==
  /\ w \in ids /\ Asserts(policies, w, field)
  /\ IF Enforces(policies, w, field)
     THEN \A p \in ids : Enforces(policies, p, field) => policies[w].priority <= policies[p].priority
     ELSE \A p \in ids : /\ ~Enforces(policies, p, field)
                         /\ Asserts(policies, p, field) => policies[p].priority <= policies[w].priority

LEMMA FoldIs ==
  ASSUME NEW policies, NEW ids, ArePolicies(policies, ids), NEW field
  PROVE  \/ /\ Fold(policies, ids, field) = Nothing
            /\ \A p \in ids : ~Asserts(policies, p, field)
         \/ \E w \in ids : /\ Decides(policies, ids, field, w)
                           /\ Fold(policies, ids, field) = Held(policies, w, field)
<1> DEFINE n == Cardinality(ids)
           order == PolicyOrder(policies, ids)
           A == {k \in 1..n : Asserts(policies, order[k], field)}
           E == {k \in 1..n : Enforces(policies, order[k], field)}
           held == [k \in 1..n |-> Held(policies, order[k], field)]
           S == {Nothing} \cup {held[k] : k \in 1..n}
           next(k, x) == IF k \notin A \/ x.locked THEN x ELSE held[k]
           g == [k \in 1..n |-> [x \in S |-> next(k, x)]]
           step(a, k) == IF k = 0 THEN [value |-> None, locked |-> FALSE]
                         ELSE LET fields == policies[order[k]].fields
                              IN  IF field \notin DOMAIN fields \/ a[k - 1].locked THEN a[k - 1]
                                  ELSE [value  |-> fields[field].value,
                                        locked |-> fields[field].mode = "enforced"]
           IsAcc(a) == a = [k \in 0..n |-> step(a, k)]
           acc == CHOOSE a : IsAcc(a)
<1>0. n \in Nat
  BY FS_CardinalityType DEF ArePolicies
<1>1. Fold(policies, ids, field) = acc[n]
  BY DEF Fold
<1>2. /\ Nothing \in S /\ \A k \in 1..n : held[k] \in S
      /\ E \subseteq A /\ A \subseteq 1..n
  BY DEF Enforces
<1>3. /\ \A k \in 1..n : k \in A <=> Asserts(policies, order[k], field)
      /\ \A k \in 1..n : k \in E <=> Enforces(policies, order[k], field)
      /\ \A k \in 1..n : held[k] = Held(policies, order[k], field)
  OBVIOUS
<1>4. ~Nothing.locked /\ \A k \in A : held[k].locked <=> k \in E
  BY <1>3 DEF Nothing, Held, Enforces
<1>5. /\ g \in [1..n -> [S -> S]]
      /\ \A k \in 1..n : \A x \in S : g[k][x] = next(k, x)
  <2> HIDE DEF S, held, A
  <2> QED
    BY <1>2
<1>6. \A a : \A k \in 0..n : step(a, k) = IF k = 0 THEN Nothing ELSE next(k, a[k - 1])
  <2> SUFFICES ASSUME NEW a, NEW k \in 0..n
               PROVE  step(a, k) = IF k = 0 THEN Nothing ELSE next(k, a[k - 1])
    OBVIOUS
  <2>1. CASE k = 0
    BY <2>1 DEF Nothing
  <2>2. CASE k # 0
    <3>1. k \in 1..n
      BY <1>0, <2>2
    <3>2. k \in A <=> field \in DOMAIN policies[order[k]].fields
      BY <1>3, <3>1 DEF Asserts
    <3>3. held[k] = [value  |-> policies[order[k]].fields[field].value,
                     locked |-> policies[order[k]].fields[field].mode = "enforced"]
      BY <1>3, <3>1 DEF Held
    <3> HIDE DEF A, held
    <3> QED
      BY <2>2, <3>2, <3>3
  <2> QED
    BY <2>1, <2>2
<1> HIDE DEF step
<1>7. PICK f : IsRun(f, n, S, Nothing, g)
  <2> HIDE DEF S, g
  <2> QED
    BY <1>0, <1>2, <1>5, Recursion
<1>8. IsAcc(f)
  <2>1. f \in [0..n -> S] /\ f[0] = Nothing /\ \A k \in 1..n : f[k] = g[k][f[k - 1]]
    BY <1>7 DEF IsRun
  <2> HIDE DEF g, S, A, held
  <2>2. \A k \in 1..n : f[k] = next(k, f[k - 1])
    BY <1>0, <1>5, <2>1
  <2>3. \A k \in 0..n : f[k] = step(f, k)
    BY <1>0, <1>6, <2>1, <2>2
  <2>4. f = [k \in 0..n |-> f[k]]
    BY <2>1
  <2> QED
    BY <2>3, <2>4
<1>9. acc = [k \in 0..n |-> step(acc, k)]
  <2> HIDE DEF step
  <2> QED
    BY <1>8
<1> HIDE DEF acc, A, E, held, S, g
<1>10. acc[0] = Nothing /\ \A k \in 1..n : acc[k] = next(k, acc[k - 1])
  <2>1. \A k \in 0..n : acc[k] = step(acc, k)
    BY <1>9
  <2> QED
    BY <1>0, <1>6, <2>1
<1> DEFINE Decided(k, w) == /\ w \in A /\ acc[k] = held[w]
                            /\ IF w \in E THEN \A i \in 1..k : i \in E => w <= i
                               ELSE \A i \in 1..k : i \notin E /\ (i \in A => i <= w)
           Upto(k) == \/ acc[k] = Nothing /\ \A i \in 1..k : i \notin A
                      \/ \E w \in 1..k : Decided(k, w)
           T == {k \in 0..n : Upto(k)}
<1>11. n \in T
  <2>1. 0 \in T
    BY <1>0, <1>10
  <2>2. ASSUME NEW k \in 1..n, k - 1 \in T PROVE k \in T
    <3>0. k \in Nat /\ k \in 0..n /\ \A i \in 1..k : i \in 1..(k - 1) \/ i = k
      BY <1>0
    <3>1. acc[k] = next(k, acc[k - 1])
      BY <1>10
    <3>2. CASE acc[k - 1] = Nothing /\ \A i \in 1..(k - 1) : i \notin A
      <4>1. CASE k \in A
        <5>1. acc[k] = held[k]
          BY <1>4, <3>1, <3>2, <4>1
        <5>2. Decided(k, k)
          BY <1>2, <3>0, <3>2, <4>1, <5>1
        <5> QED
          BY <3>0, <5>2
      <4>2. CASE k \notin A
        <5>1. acc[k] = Nothing
          BY <3>1, <3>2, <4>2
        <5> QED
          BY <3>0, <3>2, <4>2, <5>1
      <4> QED
        BY <4>1, <4>2
    <3>3. ASSUME NEW w \in 1..(k - 1), Decided(k - 1, w) PROVE k \in T
      <4>0. w \in 1..k /\ w < k /\ w \in A
        BY <3>0, <3>3
      <4>1. CASE k \in A /\ w \notin E
        <5>1. acc[k] = held[k]
          BY <1>4, <3>1, <3>3, <4>0, <4>1
        <5>2. \A i \in 1..k : i \in E => k <= i
          BY <3>0, <3>3, <4>1
        <5>3. k \notin E => \A i \in 1..k : i \notin E /\ (i \in A => i <= k)
          BY <3>0, <3>3, <4>1
        <5>4. Decided(k, k)
          BY <4>1, <5>1, <5>2, <5>3
        <5> QED
          BY <3>0, <5>4
      <4>2. CASE k \notin A \/ w \in E
        <5>1. acc[k] = held[w]
          BY <1>4, <3>1, <3>3, <4>0, <4>2
        <5>2. w \in E => \A i \in 1..k : i \in E => w <= i
          BY <3>0, <3>3, <4>0
        <5>3. w \notin E => \A i \in 1..k : i \notin E /\ (i \in A => i <= w)
          BY <1>2, <3>0, <3>3, <4>2
        <5>4. Decided(k, w)
          BY <4>0, <5>1, <5>2, <5>3
        <5> QED
          BY <3>0, <4>0, <5>4
      <4> QED
        BY <4>1, <4>2
    <3>4. Upto(k - 1)
      BY <2>2
    <3> HIDE DEF T, Decided
    <3> QED
      BY <3>2, <3>3, <3>4
  <2> HIDE DEF T
  <2> QED
    BY <1>0, <2>1, <2>2, UpTo
<1>12. Upto(n)
  BY <1>11
<1> HIDE DEF order, n
<1>13. /\ \A k \in 1..n : order[k] \in ids
       /\ \A p \in ids : \E k \in 1..n : order[k] = p
       /\ \A j, k \in 1..n : j < k => policies[order[j]].priority <= policies[order[k]].priority
  BY OrderIs DEF order, n
<1>14. CASE acc[n] = Nothing /\ \A i \in 1..n : i \notin A
  <2>1. \A p \in ids : ~Asserts(policies, p, field)
    BY <1>3, <1>13, <1>14
  <2> QED
    BY <1>1, <1>14, <2>1
<1>15. ASSUME NEW w \in 1..n, Decided(n, w)
       PROVE  Decides(policies, ids, field, order[w]) /\ acc[n] = Held(policies, order[w], field)
  <2>1. /\ order[w] \in ids /\ Asserts(policies, order[w], field)
        /\ acc[n] = Held(policies, order[w], field)
        /\ w \in E <=> Enforces(policies, order[w], field)
    BY <1>3, <1>13, <1>15
  <2>2. \A i \in 1..n : /\ i <= w => policies[order[i]].priority <= policies[order[w]].priority
                        /\ w <= i => policies[order[w]].priority <= policies[order[i]].priority
    <3> SUFFICES ASSUME NEW i \in 1..n
                 PROVE  /\ i <= w => policies[order[i]].priority <= policies[order[w]].priority
                        /\ w <= i => policies[order[w]].priority <= policies[order[i]].priority
      OBVIOUS
    <3>1. policies[order[w]].priority \in Int
      BY <2>1 DEF ArePolicies
    <3>2. CASE i = w
      BY <3>1, <3>2
    <3>3. CASE i < w
      BY <1>0, <1>13, <3>3
    <3>4. CASE w < i
      BY <1>0, <1>13, <3>4
    <3> QED
      BY <1>0, <3>2, <3>3, <3>4
  <2>4. CASE w \in E
    <3> SUFFICES ASSUME NEW p \in ids, Enforces(policies, p, field)
                 PROVE  policies[order[w]].priority <= policies[p].priority
      BY <2>1, <2>4 DEF Decides
    <3>1. PICK i \in 1..n : order[i] = p
      BY <1>13
    <3>2. i \in E
      BY <1>3, <3>1
    <3> QED
      BY <1>15, <2>2, <2>4, <3>1, <3>2
  <2>5. CASE w \notin E
    <3> SUFFICES ASSUME NEW p \in ids
                 PROVE  /\ ~Enforces(policies, p, field)
                        /\ Asserts(policies, p, field) => policies[p].priority <= policies[order[w]].priority
      BY <2>1, <2>5 DEF Decides
    <3>1. PICK i \in 1..n : order[i] = p
      BY <1>13
    <3>2. (i \in E <=> Enforces(policies, p, field)) /\ (i \in A <=> Asserts(policies, p, field))
      BY <1>3, <3>1
    <3> QED
      BY <1>15, <2>2, <2>5, <3>1, <3>2
  <2> QED
    BY <2>1, <2>4, <2>5
<1> HIDE DEF Decided
<1> QED
  BY <1>1, <1>12, <1>13, <1>14, <1>15

\* Two assertions of a field with one priority are found.
LEMMA AssertsOnce ==
  ASSUME NEW policies, NEW ids, ArePolicies(policies, ids),
         DetectAmbiguousAssignment(policies, ids) = {}, NEW field \in Fields,
         NEW p \in ids, NEW q \in ids, Asserts(policies, p, field), Asserts(policies, q, field),
         policies[p].priority = policies[q].priority
  PROVE  p = q
<1> SUFFICES ASSUME p # q PROVE FALSE
  OBVIOUS
<1> DEFINE c == [priority |-> policies[p].priority, field |-> field]
           H == {r \in ids : policies[r].priority = c.priority /\ c.field \in DOMAIN policies[r].fields}
<1>1. p \in H /\ q \in H
  BY DEF Asserts
<1>2. IsFiniteSet(H)
  <2>1. H \subseteq ids /\ IsFiniteSet(ids)
    BY DEF ArePolicies
  <2> HIDE DEF H
  <2> QED
    BY <2>1, FS_Subset
<1>3. c \in [priority : {policies[r].priority : r \in ids}, field : Fields]
  OBVIOUS
<1>4. ~(Cardinality(H) >= 2)
  <2> HIDE DEF c
  <2> QED
    BY <1>3 DEF DetectAmbiguousAssignment
<1> HIDE DEF H, c
<1>5. Cardinality(H) \in Nat /\ Cardinality(H) # 0 /\ Cardinality(H) # 1
  BY <1>1, <1>2, FS_CardinalityType, FS_EmptySet, FS_Singleton
<1> QED
  BY <1>4, <1>5

\* The fold of renamed policies, when no two assert a field with one priority.
LEMMA FoldRenamed ==
  ASSUME NEW P, NEW ids, ArePolicies(P, ids), DetectAmbiguousAssignment(P, ids) = {},
         NEW rename \in [ids -> ids], NEW Q,
         \A p, q \in ids : rename[p] = rename[q] => p = q,
         \A q \in ids : \E p \in ids : rename[p] = q,
         \A p \in ids : Q[rename[p]] = P[p],
         NEW field \in Fields
  PROVE  Fold(Q, ids, field) = Fold(P, ids, field)
<1>0. /\ ArePolicies(Q, ids)
      /\ \A p \in ids : rename[p] \in ids /\ Q[rename[p]] = P[p]
  BY DEF ArePolicies
<1>1. \A p \in ids : /\ Asserts(Q, rename[p], field) <=> Asserts(P, p, field)
                     /\ Enforces(Q, rename[p], field) <=> Enforces(P, p, field)
                     /\ Held(Q, rename[p], field) = Held(P, p, field)
  BY <1>0 DEF Asserts, Enforces, Held
<1>2. CASE \A p \in ids : ~Asserts(P, p, field)
  <2>1. \A q \in ids : ~Asserts(Q, q, field)
    BY <1>1, <1>2
  <2> QED
    BY <1>0, <1>2, <2>1, FoldIs DEF Decides
<1>3. CASE \E p \in ids : Asserts(P, p, field)
  <2>1. PICK w \in ids : Decides(P, ids, field, w) /\ Fold(P, ids, field) = Held(P, w, field)
    BY <1>3, FoldIs
  <2>2. PICK u \in ids : Decides(Q, ids, field, u) /\ Fold(Q, ids, field) = Held(Q, u, field)
    BY <1>0, <1>1, <1>3, FoldIs
  <2>3. PICK v \in ids : rename[v] = u
    OBVIOUS
  <2>4. Decides(P, ids, field, v)
    BY <1>0, <1>1, <2>2, <2>3 DEF Decides
  <2>5. P[v].priority \in Int /\ P[w].priority \in Int
    BY DEF ArePolicies
  <2>6. Asserts(P, v, field) /\ Asserts(P, w, field) /\ P[v].priority = P[w].priority
    BY <2>1, <2>4, <2>5 DEF Decides
  <2>7. v = w
    BY <2>6, AssertsOnce
  <2> QED
    BY <1>1, <2>1, <2>2, <2>3, <2>7
<1> QED
  BY <1>2, <1>3

\* policy-conflict.ts detectAmbiguousAssignment: where it finds nothing the names of the
\* policies decide nothing, however many there are and whatever they assert.
THEOREM UnambiguousIgnoresNamesHolds == Spec => []UnambiguousIgnoresNames
<1>1. ASSUME GivenInv PROVE UnambiguousIgnoresNames
  <2> DEFINE ids == DOMAIN given
  <2> SUFFICES ASSUME subject = "policies", DetectAmbiguousAssignment(given, ids) = {},
                      NEW rename \in [ids -> ids], IsInjective(rename)
               PROVE  ComposeEffectiveConfig([q \in ids |-> given[CHOOSE p \in ids : rename[p] = q]],
                                             ids, with)
                        = ComposeEffectiveConfig(given, ids, with)
    BY DEF UnambiguousIgnoresNames
  <2> DEFINE Q == [q \in ids |-> given[CHOOSE p \in ids : rename[p] = q]]
  <2>1. IsFiniteSet(ids) /\ ArePolicies(given, ids)
    BY <1>1 DEF GivenInv, GivenPolicies, ArePolicies
  <2> HIDE DEF ids
  <2>2. rename \in Injection(ids, ids)
    BY DEF Injection
  <2>3. rename \in Surjection(ids, ids)
    BY <2>1, <2>2, FS_Injection
  <2>4. /\ \A p, q \in ids : rename[p] = rename[q] => p = q
        /\ \A q \in ids : \E p \in ids : rename[p] = q
    BY <2>3 DEF Surjection, IsInjective
  <2>5. ASSUME NEW p \in ids PROVE Q[rename[p]] = given[p]
    <3>1. rename[p] \in ids /\ (CHOOSE r \in ids : rename[r] = rename[p]) = p
      BY <2>4
    <3> QED
      BY <3>1
  <2> HIDE DEF Q
  <2>6. \A field \in Fields : Fold(Q, ids, field) = Fold(given, ids, field)
    BY <2>1, <2>4, <2>5, FoldRenamed
  <2>7. ComposeEffectiveConfig(Q, ids, with) = ComposeEffectiveConfig(given, ids, with)
    BY <2>6 DEF ComposeEffectiveConfig
  <2> QED
    BY <2>7 DEF Q, ids
<1> QED
  BY <1>1, GivenInvariance, PTL
=============================================================================
