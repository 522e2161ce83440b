----------------------------- MODULE PlannedProofs -----------------------------
(***************************************************************************)
(* Proofs about PlannedStore, for every value of its constants.            *)
(*                                                                         *)
(* What is asked of the planner: the last request that was made stands for *)
(* what waits.  A digest is made of the state that an event has settled;   *)
(* the plans that are adopted later change neither the bowls nor the       *)
(* kettles, because a settled state is settled again to itself.  New       *)
(* settings end this, and the next event that changes the store restores   *)
(* it: only what is settled by the present settings is settled again to    *)
(* itself.                                                                 *)
(***************************************************************************)
EXTENDS PlannedStore, BoilSyncProofs

-----------------------------------------------------------------------------
(* A settled state is settled.                                             *)

IsKettle(t) ==
  DOMAIN t = {"seq", "slots", "firmness", "startTime", "endTime", "boiledAt", "adjustment",
              "item", "table"}

IsBowl(i) ==
  /\ DOMAIN i = {"order", "index", "firmness", "table", "arrival", "completedAt",
                 "interruptedAt", "tableAssignedAt"}
  /\ i.arrival \in Nat

HasShape(s) ==
  /\ DOMAIN s = {"timers", "nextSeq", "items", "last", "accepted", "shown", "requested"}
  /\ IsFiniteSet(s.items) /\ \A i \in s.items : IsBowl(i)
  /\ \A t \in s.timers : IsKettle(t)

IsSettled(s, p) == s.timers = Synchronize(s.timers, p)

\* Synchronisation looks at the boils alone, and leaves them as they are.
LEMMA SynchronizeTwice ==
  ASSUME NEW timers, \A t \in timers : IsKettle(t), NEW cfg
  PROVE  /\ \A t \in Synchronize(timers, cfg) : IsKettle(t)
         /\ Synchronize(Synchronize(timers, cfg), cfg) = Synchronize(timers, cfg)
<1> DEFINE boils == Boils(timers)
           to(t) == IF t.boiledAt = None THEN [t EXCEPT !.adjustment = AdjustmentOf(Boil(t), boils, cfg)] ELSE t
           synced == {to(t) : t \in timers}
<1>1. \A t \in timers : /\ IsKettle(to(t)) /\ to(t).boiledAt = t.boiledAt /\ Boil(to(t)) = Boil(t)
                        /\ to(to(t)) = to(t)
  BY DEF IsKettle, Boil
<1>2. Synchronize(timers, cfg) = synced
  BY DEF Synchronize
<1>3. Boils(synced) = boils
  <2> HIDE DEF to
  <2> QED
    BY <1>1 DEF Boils, Running
<1>4. Synchronize(synced, cfg) = {to(u) : u \in synced}
  BY <1>3 DEF Synchronize
<1> HIDE DEF to
<1>5. {to(u) : u \in synced} = synced
  BY <1>1
<1> QED
  BY <1>1, <1>2, <1>4, <1>5

LEMMA SettleIs ==
  ASSUME NEW moved, HasShape(moved)
  PROVE  /\ HasShape(Settle(moved, params)) /\ IsSettled(Settle(moved, params), params)
         /\ Settle(moved, params).items = moved.items
         /\ Settle(moved, params).requested = moved.requested
         /\ Settle(moved, params).accepted = moved.accepted
         /\ Settle(moved, params).timers = Synchronize(moved.timers, params)
<1> DEFINE next == [moved EXCEPT !.timers = Synchronize(moved.timers, params)]
<1>1. Settle(moved, params) = next
  BY DEF Settle
<1>2. /\ DOMAIN next = DOMAIN moved /\ next.timers = Synchronize(moved.timers, params)
      /\ next.items = moved.items /\ next.requested = moved.requested /\ next.accepted = moved.accepted
  BY DEF HasShape
<1> HIDE DEF next
<1> QED
  BY <1>1, <1>2, SynchronizeTwice DEF HasShape, IsSettled

-----------------------------------------------------------------------------
(* Digests and requests.                                                   *)

\* DigestInput with the settings as a parameter.
DigestWith(s, at, p) ==
  [targets |-> [k \in DOMAIN PlanTargets(Live(s, at), at) |->
                  LET i == PlanTargets(Live(s, at), at)[k]
                  IN  <<i.order, i.index, i.firmness, i.table, i.arrival>>],
   running |-> {<<t.seq, t.slots, AdjustedEnd(t)>> : t \in s.timers},
   settings |-> p]

LEMMA DigestIs == \A s, at : DigestInput(s, at) = DigestWith(s, at, params)
BY DEF DigestInput, DigestWith

\* The input of a digest and that of a request, as sets.
AsSets(digest) ==
  [targets |-> ToSet(digest.targets), running |-> digest.running, settings |-> digest.settings]

Digested(request) ==
  [targets |-> {<<i.order, i.index, i.firmness, i.table, i.arrival>> : i \in request.pending},
   running |-> {<<t.seq, t.slots, AdjustedEnd(t)>> : t \in request.running},
   settings |-> request.params]

LEMMA DigestOfRequest ==
  ASSUME NEW s, NEW at
  PROVE  AsSets(DigestWith(s, at, params)) = Digested(PlanRequest(s, at))
<1> DEFINE targets == PlanTargets(Live(s, at), at)
           fact(i) == <<i.order, i.index, i.firmness, i.table, i.arrival>>
           kettles == {<<t.seq, t.slots, AdjustedEnd(t)>> : t \in s.timers}
           listed == [k \in DOMAIN targets |-> fact(targets[k])]
<1>1. DigestWith(s, at, params) = [targets |-> listed, running |-> kettles, settings |-> params]
  BY DEF DigestWith
<1>2. /\ PlanRequest(s, at).pending = ToSet(targets) /\ PlanRequest(s, at).running = s.timers
      /\ PlanRequest(s, at).params = params
  BY DEF PlanRequest
<1>3. Digested(PlanRequest(s, at)) = [targets |-> {fact(i) : i \in ToSet(targets)}, running |-> kettles,
                                        settings |-> params]
  BY <1>2 DEF Digested
<1> HIDE DEF targets, fact, kettles
<1>4. ToSet(listed) = {fact(i) : i \in ToSet(targets)}
  BY DEF ToSet
<1> HIDE DEF listed
<1> QED
  BY <1>1, <1>3, <1>4 DEF AsSets

LEMMA SameInput ==
  ASSUME NEW s, NEW u, s.items = u.items, s.timers = u.timers
  PROVE  \A at, p : Live(s, at) = Live(u, at) /\ DigestWith(s, at, p) = DigestWith(u, at, p)
BY DEF Live, DigestWith

\* Something is planned, and so digested, when something waits.
LEMMA SomethingWaits ==
  ASSUME NEW s, IsFiniteSet(s.items), NEW at, NEW p
  PROVE  LET waiting == {i \in Live(s, at) : IsLive(i, at)}
         IN  /\ PlanTargets(Live(s, at), at) # <<>> => waiting # {}
             /\ waiting # {} => DigestWith(s, at, p).targets # <<>>
<1> DEFINE waiting == {i \in Live(s, at) : IsLive(i, at)}
           order == InArrivalOrder(waiting)
           n == Min({PlanTargetLimit, Len(order)})
           targets == PlanTargets(Live(s, at), at)
<1>1. IsFiniteSet(waiting)
  <2>1. waiting \subseteq s.items
    BY DEF Live, PendingOrders
  <2> QED
    BY <2>1, FS_Subset
<1>2. /\ Cardinality(waiting) \in Nat /\ (Cardinality(waiting) = 0 <=> waiting = {})
      /\ DOMAIN order = 1..Cardinality(waiting)
  BY <1>1, FS_CardinalityType, FS_EmptySet DEF InArrivalOrder
<1>3. order \in Seq({order[k] : k \in DOMAIN order}) /\ Len(order) = Cardinality(waiting)
  <2> HIDE DEF waiting
  <2>1. order = [k \in 1..Cardinality(waiting) |-> order[k]]
    BY DEF InArrivalOrder
  <2> HIDE DEF order
  <2> QED
    BY <1>2, <2>1
<1>4. n = IF PlanTargetLimit <= Len(order) THEN PlanTargetLimit ELSE Len(order)
  <2>1. Len(order) \in Int /\ PlanTargetLimit \in Int
    BY <1>2, <1>3, PlanRulesAssumption
  <2>2. \A a, b \in Int : Min({a, b}) = IF a <= b THEN a ELSE b
    BY PairIs
  <2> QED
    BY <2>1, <2>2
<1>5. targets = SubSeq(order, 1, n)
  BY DEF PlanTargets, Take
<1> HIDE DEF waiting, order, n, targets
<1>6. CASE waiting = {}
  <2>1. n < 1 /\ n \in Int
    BY <1>2, <1>3, <1>4, <1>6, PlanRulesAssumption
  <2>2. targets = <<>>
    BY <1>5, <2>1, SubSeqEmpty
  <2> QED
    BY <1>6, <2>2 DEF waiting, targets
<1>7. CASE waiting # {}
  <2>1. n \in 1..Len(order)
    BY <1>2, <1>3, <1>4, <1>7, PlanRulesAssumption
  <2>2. Len(targets) = n /\ targets \in Seq({order[k] : k \in DOMAIN order})
    BY <1>2, <1>3, <1>5, <2>1, SubSeqProperties
  <2>3. DOMAIN targets = 1..n
    BY <2>2, LenProperties
  <2>4. DOMAIN DigestWith(s, at, p).targets = DOMAIN targets
    BY DEF DigestWith, targets
  <2>5. 1 \in DOMAIN DigestWith(s, at, p).targets
    BY <1>2, <1>3, <2>1, <2>3, <2>4
  <2>6. DOMAIN <<>> = {}
    OBVIOUS
  <2>7. DigestWith(s, at, p).targets # <<>>
    BY <2>5, <2>6
  <2> QED
    BY <1>7, <2>7 DEF waiting
<1> QED
  BY <1>6, <1>7

-----------------------------------------------------------------------------
(* The invariant: the last request is the one the digest was made of, and, *)
(* unless the settings have changed since the last event, the store is     *)
(* settled and at some time since the digest was that of the store.        *)

Told == store.requested # <<>> => AsSets(store.requested[1]) = Digested(asked)

Answered(t) ==
  DigestWith(store, t, params).targets # <<>> => store.requested = <<DigestWith(store, t, params)>>

AskedInv ==
  /\ HasShape(store) /\ now \in Nat
  /\ Told
  /\ ~reconfigured => IsSettled(store, params) /\ \E t \in 0..now : Answered(t)

\* What follows an event, or the adoption of a plan, which asks for nothing.
LEMMA SettledStep ==
  ASSUME AskedInv, NEW moved, HasShape(moved), moved.requested = store.requested,
         NEW may \in BOOLEAN, may \/ (moved.items = store.items /\ moved.timers = store.timers),
         Perform(SettlePlan(store, moved, now, may)), now' = now,
         ~reconfigured' => ~reconfigured \/ (may /\ store' # store)
  PROVE  AskedInv'
<1> DEFINE next == Settle(moved, params)
           confirmed == [next EXCEPT !.shown = ShownPlanOf(Committed(next, now))]
           digest == DigestWith(confirmed, now, params)
           asks == AsksFor(confirmed, digest, may)
           told == [confirmed EXCEPT !.requested = <<digest>>]
           result == SettlePlan(store, moved, now, may)
<1>1. /\ HasShape(next) /\ IsSettled(next, params) /\ next.items = moved.items
      /\ next.requested = store.requested
      /\ moved.timers = store.timers /\ IsSettled(store, params) => next.timers = store.timers
  BY SettleIs DEF IsSettled
<1>2. /\ store' = result.state
      /\ asked' = IF result.asks THEN PlanRequest(result.state, now) ELSE asked
      /\ params' = params
  BY DEF Perform
<1>3. CASE result = Unchanged(store)
  <2>1. store' = store /\ asked' = asked
    BY <1>2, <1>3 DEF Unchanged
  <2> QED
    BY <1>2, <2>1 DEF AskedInv, Told, Answered, IsSettled
<1>4. CASE result = Shows(next, Committed(next, now), now, may)
  <2>1. /\ result.state = (IF asks THEN told ELSE confirmed) /\ result.asks = asks
    <3>1. DigestInput(confirmed, now) = digest
      BY DigestIs
    <3> HIDE DEF digest
    <3>2. result = Confirmed(confirmed, Committed(next, now), digest, asks)
      BY <1>4, <3>1 DEF Shows
    <3> HIDE DEF confirmed, asks, result
    <3> QED
      BY <3>2 DEF Confirmed, told
  <2>2. /\ HasShape(confirmed) /\ IsSettled(confirmed, params) /\ confirmed.requested = store.requested
        /\ confirmed.items = next.items /\ confirmed.timers = next.timers
    <3> HIDE DEF next
    <3> QED
      BY <1>1 DEF HasShape, IsSettled
  <2> HIDE DEF confirmed
  <2>3. /\ HasShape(told) /\ IsSettled(told, params) /\ told.requested = <<digest>>
        /\ told.items = confirmed.items /\ told.timers = confirmed.timers
    <3> HIDE DEF digest
    <3> QED
      BY <2>2 DEF HasShape, IsSettled
  <2>4. DigestWith(told, now, params) = digest
    <3>1. told.items = confirmed.items /\ told.timers = confirmed.timers
      BY <2>3
    <3> HIDE DEF told
    <3> QED
      BY <3>1, SameInput
  <2> HIDE DEF told
  <2>5. CASE asks
    <3>1. store' = told /\ asked' = PlanRequest(told, now)
      BY <1>2, <2>1, <2>5
    <3>2. Told'
      BY <2>3, <2>4, <3>1, DigestOfRequest DEF Told
    <3>3. Answered(now)'
      BY <1>2, <2>3, <2>4, <3>1 DEF Answered
    <3>4. IsSettled(store, params)'
      BY <1>2, <2>3, <3>1 DEF IsSettled
    <3> QED
      BY <2>3, <3>1, <3>2, <3>3, <3>4 DEF AskedInv
  <2>6. CASE ~asks
    <3>1. store' = confirmed /\ asked' = asked
      BY <1>2, <2>1, <2>6
    <3>2. Told'
      BY <2>2, <3>1 DEF Told, AskedInv
    <3>3. IsSettled(store, params)'
      BY <1>2, <2>2, <3>1 DEF IsSettled
    <3>4. ASSUME ~reconfigured' PROVE \E t \in 0..now : Answered(t)'
      <4>1. CASE may
        <5>1. <<digest>> = confirmed.requested \/ digest.targets = <<>>
          BY <2>6, <4>1 DEF AsksFor
        <5>2. Answered(now)'
          BY <1>2, <3>1, <5>1 DEF Answered
        <5> QED
          BY <5>2 DEF AskedInv
      <4>2. CASE ~may
        <5>1. IsSettled(store, params) /\ \E t \in 0..now : Answered(t)
          BY <3>4, <4>2 DEF AskedInv
        <5>2. \A t : DigestWith(confirmed, t, params) = DigestWith(store, t, params)
          BY <1>1, <2>2, <4>2, <5>1, SameInput
        <5> QED
          BY <1>2, <2>2, <3>1, <5>1, <5>2 DEF Answered
      <4> QED
        BY <4>1, <4>2
    <3> QED
      BY <2>2, <3>1, <3>2, <3>3, <3>4 DEF AskedInv
  <2> QED
    BY <2>5, <2>6
<1> QED
  BY <1>3, <1>4 DEF SettlePlan, Settled

\* The same for the events of the kitchen and of the POS.
LEMMA EventStep ==
  ASSUME AskedInv, NEW moved, HasShape(moved), moved.requested = store.requested,
         Handle(moved), now' = now
  PROVE  AskedInv'
BY SettledStep DEF Handle

-----------------------------------------------------------------------------
(* Every event moves to bowls and kettles.                                 *)

\* What is made of the bowls one by one.
LEMMA BowlByBowl ==
  ASSUME NEW items, IsFiniteSet(items), NEW f, DOMAIN f = items, \A i \in items : IsBowl(f[i])
  PROVE  LET made == {f[i] : i \in items} IN IsFiniteSet(made) /\ \A i \in made : IsBowl(i)
BY ImageFinite

LEMMA ArrivalMoves ==
  ASSUME AskedInv, NEW o \in DOMAIN Orders, \A i \in store.items : i.order # o
  PROVE  LET moved == ArriveOrder(store, {ToOrderItem(o, line, now) : line \in Orders[o]})
         IN  HasShape(moved) /\ moved.requested = store.requested
<1> DEFINE toItem == [line \in Orders[o] |-> ToOrderItem(o, line, now)]
           arrival == {ToOrderItem(o, line, now) : line \in Orders[o]}
           items == store.items
           updated == {WithOrderAttributes(i, Arrived(arrival, Key(i))) :
                         i \in {j \in items : Key(j) \in KeysOf(arrival)}}
           kept == {i \in items : /\ Key(i) \notin KeysOf(arrival)
                                 /\ i.order \in {a.order : a \in arrival} => KeepsMissingLine(i, store.timers)}
           new(key) == [Arrived(arrival, key) EXCEPT !.arrival = FirstArrival(items, Arrived(arrival, key))]
           fresh == {new(key) : key \in KeysOf(arrival) \ KeysOf(items)}
           after == UpsertOrder(items, store.timers, arrival)
<1>1. IsFiniteSet(arrival)
  <2>1. arrival = {toItem[line] : line \in Orders[o]}
    OBVIOUS
  <2>2. IsFiniteSet({toItem[line] : line \in Orders[o]})
    <3>1. DOMAIN toItem = Orders[o]
      OBVIOUS
    <3> HIDE DEF toItem
    <3> QED
      BY <3>1, ImageFinite, PlannedStoreAssumption
  <2> QED
    BY <2>1, <2>2
<1>2. \A a \in arrival : IsBowl(a) /\ a.order = o /\ a.arrival = now
  BY DEF ToOrderItem, IsBowl, AskedInv
<1>3. {j \in items : Key(j) \in KeysOf(arrival)} = {}
  BY <1>2 DEF Key, KeysOf
<1> HIDE DEF arrival
<1>4. \A key \in KeysOf(arrival) : IsBowl(new(key))
  <2> SUFFICES ASSUME NEW key \in KeysOf(arrival) PROVE IsBowl(new(key))
    OBVIOUS
  <2>1. Arrived(arrival, key) \in arrival
    BY DEF Arrived, KeysOf
  <2>2. FirstArrival(items, Arrived(arrival, key)) = now
    BY <1>2, <2>1 DEF FirstArrival
  <2> QED
    BY <1>2, <2>1, <2>2 DEF IsBowl, AskedInv
<1>5. IsFiniteSet(KeysOf(arrival) \ KeysOf(items))
  <2> DEFINE keyOf == [a \in arrival |-> Key(a)]
  <2>1. KeysOf(arrival) = {keyOf[a] : a \in arrival} /\ DOMAIN keyOf = arrival
    BY DEF KeysOf
  <2> HIDE DEF keyOf
  <2>2. IsFiniteSet(KeysOf(arrival))
    BY <1>1, <2>1, ImageFinite
  <2> QED
    BY <2>2, FS_Difference
<1>6. IsFiniteSet(fresh) /\ \A i \in fresh : IsBowl(i)
  <2> DEFINE keys == KeysOf(arrival) \ KeysOf(items)
             f == [key \in keys |-> new(key)]
  <2>1. fresh = {f[key] : key \in keys} /\ DOMAIN f = keys /\ \A key \in keys : IsBowl(f[key])
    BY <1>4
  <2> HIDE DEF f, keys, fresh
  <2> QED
    BY <1>5, <2>1, BowlByBowl DEF keys
<1>7. after \subseteq items \cup fresh
  <2>1. after \subseteq updated \cup kept \cup fresh
    BY DEF UpsertOrder, TruncateOrderItems
  <2>2. updated = {}
    BY <1>3
  <2>3. kept \subseteq items
    OBVIOUS
  <2> HIDE DEF updated, kept, fresh, after
  <2> QED
    BY <2>1, <2>2, <2>3
<1>8. IsFiniteSet(after) /\ \A i \in after : IsBowl(i)
  <2>1. IsFiniteSet(items \cup fresh) /\ \A i \in items \cup fresh : IsBowl(i)
    <3> HIDE DEF fresh
    <3> QED
      BY <1>6, FS_Union DEF AskedInv, HasShape
  <2> HIDE DEF after, fresh
  <2> QED
    BY <1>7, <2>1, FS_Subset
<1> HIDE DEF after
<1> QED
  BY <1>8 DEF ArriveOrder, HasShape, AskedInv, arrival, after

LEMMA CancellationMoves ==
  ASSUME AskedInv, NEW o
  PROVE  LET moved == CancelOrder(store, o) IN HasShape(moved) /\ moved.requested = store.requested
<1>1. RemoveOrder(store.items, store.timers, o) \subseteq store.items
  BY DEF RemoveOrder
<1> QED
  BY <1>1, FS_Subset DEF CancelOrder, HasShape, AskedInv

LEMMA StartMoves ==
  ASSUME AskedInv, NEW slots, NEW firmness, NEW duration, NEW item, NEW table
  PROVE  LET moved == AddTimer(store, slots, firmness, duration, item, table, now)
         IN  HasShape(moved) /\ moved.requested = store.requested
BY DEF AddTimer, HasShape, IsKettle, AskedInv

\* A bowl and its kettle go, marked with the time.
LEMMA EndMoves ==
  ASSUME AskedInv, NEW seq
  PROVE  /\ LET moved == CompleteTimer(store, seq, now)
            IN  HasShape(moved) /\ moved.requested = store.requested
         /\ LET moved == CancelTimer(store, seq, now)
            IN  HasShape(moved) /\ moved.requested = store.requested
<1> DEFINE items == store.items
           f == [i \in items |-> IF IsSource(store, seq, i) THEN [i EXCEPT !.completedAt = now] ELSE i]
           g == [i \in items |-> IF IsSource(store, seq, i) THEN [i EXCEPT !.interruptedAt = now] ELSE i]
<1>1. IsFiniteSet(items) /\ \A i \in items : IsBowl(f[i]) /\ IsBowl(g[i])
  BY DEF AskedInv, HasShape, IsBowl
<1>2. /\ CompleteTimer(store, seq, now).items = {f[i] : i \in items}
      /\ CancelTimer(store, seq, now).items = {g[i] : i \in items}
  BY DEF CompleteTimer, CancelTimer, HasShape, AskedInv
<1>3. DOMAIN f = items /\ DOMAIN g = items
  OBVIOUS
<1> HIDE DEF f, g, items
<1>4. LET a == {f[i] : i \in items} IN IsFiniteSet(a) /\ \A i \in a : IsBowl(i)
  BY <1>1, <1>3, BowlByBowl
<1>5. LET a == {g[i] : i \in items} IN IsFiniteSet(a) /\ \A i \in a : IsBowl(i)
  BY <1>1, <1>3, BowlByBowl
<1>6. Without(store.timers, seq) \subseteq store.timers
  BY DEF Without
<1>7. HasShape(CompleteTimer(store, seq, now)) /\ CompleteTimer(store, seq, now).requested = store.requested
  BY <1>2, <1>4, <1>6 DEF CompleteTimer, HasShape, AskedInv
<1>8. HasShape(CancelTimer(store, seq, now)) /\ CancelTimer(store, seq, now).requested = store.requested
  BY <1>2, <1>5, <1>6 DEF CancelTimer, HasShape, AskedInv
<1> QED
  BY <1>7, <1>8

LEMMA AssignmentMoves ==
  ASSUME AskedInv, NEW key, NEW table
  PROVE  LET moved == AssignTable(store, key, table, now)
         IN  HasShape(moved) /\ moved.requested = store.requested
<1> DEFINE items == store.items
           f == [i \in items |-> IF Key(i) = key THEN [i EXCEPT !.table = table, !.tableAssignedAt = now] ELSE i]
<1>1. IsFiniteSet(items) /\ (\A i \in items : IsBowl(f[i])) /\ DOMAIN f = items
  BY DEF AskedInv, HasShape, IsBowl
<1>2. AssignTable(store, key, table, now).items = {f[i] : i \in items}
  BY DEF AssignTable, HasShape, AskedInv
<1> HIDE DEF f, items
<1>3. LET a == {f[i] : i \in items} IN IsFiniteSet(a) /\ \A i \in a : IsBowl(i)
  BY <1>1, BowlByBowl
<1> QED
  BY <1>2, <1>3 DEF AssignTable, HasShape, AskedInv, IsKettle

LEMMA AlarmMoves ==
  ASSUME AskedInv
  PROVE  LET moved == FireDueTimers(store, now, params)
         IN  HasShape(moved) /\ moved.requested = store.requested
BY DEF FireDueTimers, HasShape, AskedInv, IsKettle

-----------------------------------------------------------------------------
(* The theorem.                                                            *)

LEMMA AskedInit == Init => AskedInv
<1> SUFFICES ASSUME Init PROVE AskedInv
  OBVIOUS
<1>1. HasShape(store) /\ now = 0 /\ store.requested = <<>> /\ store.timers = {} /\ store.items = {}
  BY FS_EmptySet DEF Init, HasShape
<1>2. IsSettled(store, params)
  BY <1>1 DEF IsSettled, Synchronize
<1>3. Answered(0)
  <2>1. {i \in Live(store, 0) : IsLive(i, 0)} = {}
    BY <1>1 DEF Live, PendingOrders
  <2>2. PlanTargets(Live(store, 0), 0) = <<>>
    BY <1>1, <2>1, SomethingWaits DEF HasShape
  <2>3. DOMAIN DigestWith(store, 0, params).targets = {}
    BY <2>2 DEF DigestWith
  <2>4. DigestWith(store, 0, params).targets = <<>>
    <3>1. DigestWith(store, 0, params).targets
            = [k \in {} |-> LET i == PlanTargets(Live(store, 0), 0)[k]
                            IN  <<i.order, i.index, i.firmness, i.table, i.arrival>>]
      BY <2>2, <2>3 DEF DigestWith
    <3> QED
      BY <3>1
  <2> QED
    BY <2>4 DEF Answered
<1> QED
  BY <1>1, <1>2, <1>3 DEF AskedInv, Told

LEMMA AskedStep == AskedInv /\ [Next]_vars => AskedInv'
<1> SUFFICES ASSUME AskedInv, [Next]_vars PROVE AskedInv'
  OBVIOUS
<1>1. CASE ReceiveOrder
  <2>1. PICK moved \in OrderArrivals(store) \cup OrderCancellations(store) : Handle(moved) /\ now' = now
    BY <1>1 DEF ReceiveOrder, Event
  <2>2. HasShape(moved) /\ moved.requested = store.requested
    BY ArrivalMoves, CancellationMoves DEF OrderArrivals, OrderCancellations
  <2> QED
    BY <2>1, <2>2, EventStep
<1>2. CASE WebSocketMessage
  <2>1. PICK moved \in Starts(store) \cup AdHocStarts(store) \cup Completions(store)
                         \cup Cancellations(store) \cup TableAssignments(store) :
          Handle(moved) /\ now' = now
    BY <1>2 DEF WebSocketMessage, Event
  <2> DEFINE Moves == HasShape(moved) /\ moved.requested = store.requested
  <2>2. ASSUME moved \in Starts(store) PROVE Moves
    <3>1. PICK i \in store.items, slots \in SUBSET DOMAIN params.at :
            moved = StartOrderItem(store, slots, Key(i), now)
      BY <2>2 DEF Starts, Clear
    <3> QED
      BY <3>1, StartMoves DEF StartOrderItem
  <2>3. ASSUME moved \in AdHocStarts(store) PROVE Moves
    BY <2>3, StartMoves DEF AdHocStarts, StartTimer
  <2>4. ASSUME moved \in Completions(store) \cup Cancellations(store) PROVE Moves
    BY <2>4, EndMoves DEF Completions, Cancellations
  <2>5. ASSUME moved \in TableAssignments(store) PROVE Moves
    BY <2>5, AssignmentMoves DEF TableAssignments
  <2>6. Moves
    BY <2>1, <2>2, <2>3, <2>4, <2>5
  <2> QED
    BY <2>1, <2>6, EventStep
<1>3. CASE AlarmFired
  BY <1>3, AlarmMoves, EventStep DEF AlarmFired
<1>4. CASE Reconfigure
  BY <1>4 DEF Reconfigure, Event, AskedInv, Told
<1>5. CASE DeliverPlan
  <2>1. PICK plan \in plans : Perform(Received(store, plan, now)) /\ now' = now
    BY <1>5 DEF DeliverPlan
  <2>2. reconfigured' = reconfigured /\ params' = params
    BY <1>5, <2>1 DEF DeliverPlan, Perform
  <2> DEFINE adopted == Admitted([store EXCEPT !.timers = Synchronize(@, params)], plan, now)
             moved == [store EXCEPT !.accepted = adopted]
  <2>3. Received(store, plan, now) = Adopt(store, adopted, now)
    BY DEF Received
  <2> HIDE DEF adopted
  <2>4. CASE adopted = <<>>
    <3>1. store' = store /\ asked' = asked
      BY <2>1, <2>3, <2>4 DEF Adopt, Unchanged, Perform
    <3> QED
      BY <2>1, <2>2, <3>1 DEF AskedInv, Told, Answered, IsSettled
  <2>5. CASE adopted # <<>>
    <3>1. Perform(SettlePlan(store, moved, now, FALSE))
      BY <2>1, <2>3, <2>5 DEF Adopt
    <3>2. /\ HasShape(moved) /\ moved.requested = store.requested
          /\ moved.items = store.items /\ moved.timers = store.timers
      BY DEF AskedInv, HasShape
    <3> HIDE DEF moved
    <3> QED
      BY <2>1, <2>2, <3>1, <3>2, SettledStep
  <2> QED
    BY <2>4, <2>5
<1>6. CASE Solve \/ DropRequest \/ DropPlan \/ UNCHANGED vars
  <2>1. /\ store' = store /\ asked' = asked /\ now' = now
        /\ params' = params /\ reconfigured' = reconfigured
    BY <1>6 DEF Solve, DropRequest, DropPlan, vars, settings
  <2> QED
    BY <2>1 DEF AskedInv, Told, Answered, IsSettled
<1>7. CASE Tick
  <2>1. /\ store' = store /\ asked' = asked /\ now' = now + 1
        /\ params' = params /\ reconfigured' = reconfigured
    BY <1>7 DEF Tick, settings
  <2>2. ASSUME ~reconfigured PROVE \E u \in 0..now' : Answered(u)'
    <3>1. PICK t \in 0..now : Answered(t)
      BY <2>2 DEF AskedInv
    <3>2. t \in 0..now' /\ Answered(t)'
      BY <2>1, <3>1 DEF Answered, AskedInv
    <3> QED
      BY <3>2
  <2> QED
    BY <2>1, <2>2 DEF AskedInv, Told, IsSettled
<1> QED
  BY <1>1, <1>2, <1>3, <1>4, <1>5, <1>6, <1>7 DEF Next

\* The content of a request is what its digest is made of, without the times of arrival.
LEMMA ContentIs ==
  ASSUME NEW r
  PROVE  InputOf(r) = [targets |-> {<<<<b[1], b[2]>>, b[3], b[4]>> : b \in Digested(r).targets},
                       kettles |-> {<<k[2], k[3]>> : k \in Digested(r).running},
                       settings |-> Digested(r).settings]
<1> DEFINE bowl(i) == <<i.order, i.index, i.firmness, i.table, i.arrival>>
           kettle(t) == <<t.seq, t.slots, AdjustedEnd(t)>>
           told(b) == <<<<b[1], b[2]>>, b[3], b[4]>>
           taken(k) == <<k[2], k[3]>>
<1>1. \A i : told(bowl(i)) = <<Key(i), i.firmness, i.table>>
  BY DEF Key
<1>2. \A t : taken(kettle(t)) = <<t.slots, AdjustedEnd(t)>>
  OBVIOUS
<1> HIDE DEF bowl, kettle, told, taken
<1>3. {told(b) : b \in {bowl(i) : i \in r.pending}} = {<<Key(i), i.firmness, i.table>> : i \in r.pending}
  BY <1>1
<1>4. {taken(k) : k \in {kettle(t) : t \in r.running}} = {<<t.slots, AdjustedEnd(t)>> : t \in r.running}
  BY <1>2
<1>5. /\ Digested(r).targets = {bowl(i) : i \in r.pending}
      /\ Digested(r).running = {kettle(t) : t \in r.running}
      /\ Digested(r).settings = r.params
  BY DEF Digested, bowl, kettle
<1>6. InputOf(r) = [targets |-> {told(b) : b \in Digested(r).targets},
                    kettles |-> {taken(k) : k \in Digested(r).running},
                    settings |-> Digested(r).settings]
  BY <1>3, <1>4, <1>5 DEF InputOf
<1> QED
  BY <1>6 DEF told, taken

LEMMA ContentOf ==
  ASSUME NEW r, NEW q, Digested(r) = Digested(q)
  PROVE  InputOf(r) = InputOf(q)
BY ContentIs

LEMMA AskedAbout == AskedInv => AskedAboutThis
<1> SUFFICES ASSUME AskedInv, ~reconfigured, PlanTargets(Live(store, now), now) # <<>>
             PROVE  \E t \in 0..now : InputOf(asked) = InputOf(PlanRequest(store, t))
  BY DEF AskedAboutThis
<1>1. PICK t \in 0..now : Answered(t)
  BY DEF AskedInv
<1>2. PICK i \in Live(store, now) : IsLive(i, now)
  BY SomethingWaits DEF AskedInv, HasShape
<1>3. i \in Live(store, t) /\ IsLive(i, t)
  <2>1. i \in store.items /\ i.arrival \in Nat
    BY <1>2 DEF Live, PendingOrders, AskedInv, HasShape, IsBowl
  <2> QED
    BY <1>1, <1>2, <2>1, OrderItemsAssumption DEF Live, PendingOrders, IsLive, AskedInv
<1>4. DigestWith(store, t, params).targets # <<>>
  BY <1>3, SomethingWaits DEF AskedInv, HasShape
<1>5. store.requested = <<DigestWith(store, t, params)>>
  BY <1>1, <1>4 DEF Answered
<1>6. Digested(PlanRequest(store, t)) = Digested(asked)
  BY <1>5, DigestOfRequest DEF AskedInv, Told
<1> QED
  BY <1>1, <1>6, ContentOf

\* While a bowl waits, the last request told the planner of just the bowls, kettles and
\* settings that were there at some time since, whatever was lost, late or adopted in
\* between, unless the settings have changed since the last event that changed the store.
THEOREM AskedAboutThisHolds == Spec => []AskedAboutThis
<1>1. Init => AskedInv
  BY AskedInit
<1>2. AskedInv /\ [Next]_vars => AskedInv'
  BY AskedStep
<1>3. AskedInv => AskedAboutThis
  BY AskedAbout
<1> QED
  BY <1>1, <1>2, <1>3, PTL DEF Spec
=============================================================================
