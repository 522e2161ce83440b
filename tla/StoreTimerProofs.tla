-------------------------- MODULE StoreTimerProofs --------------------------
(***************************************************************************)
(* Proofs about StoreTimerDO, for every value of its constants.            *)
(*                                                                         *)
(* Timers: the inductive invariant StoreInv, what it implies, and that the *)
(* object implements AtomicStore.  An event's result is Decide(s, moved,   *)
(* cfg).  The lemmas show that each moved state is Sound when s is, that   *)
(* Decide keeps it so, and that Decide never lets a slot be held twice.    *)
(* The steps of the object then only have to be taken apart into puts that *)
(* succeed, fail, or are none.                                             *)
(*                                                                         *)
(* Items: the list and the kettles agree (ItemsSound), what the kitchen    *)
(* has done is never undone by what the POS says, the newest record of a   *)
(* terminal is what the list shows, and a client that is connected shows   *)
(* the store.  A batch of records is received one by one.  What holds      *)
(* after each of them is proved by the least number of records after which *)
(* it does not.                                                            *)
(*                                                                         *)
(* The alarm: a timer is never called boiled before its tolerance window,  *)
(* a put by the alarm or by a start leaves no running timer due, and with  *)
(* the object at rest the alarm is set for the earliest running timer.     *)
(* The argument is about fireDueTimers.  Renewed relates the timers before *)
(* and after some of its rounds; Quiet is what a round leaves that marks   *)
(* no timer, and what every further round and the final synchronisation    *)
(* keep.  A round that marks one leaves fewer running timers.              *)
(***************************************************************************)
EXTENDS StoreTimerDO, BoilSyncProofs

\* The part of the invariant that is about one engine state.
Sound(s) ==
  /\ IsState(s)
  /\ \A t \in s.timers : t.seq < s.nextSeq
  /\ \A t, u \in s.timers : t.seq = u.seq => t = u
  /\ \A t, u \in s.timers : t.item # None /\ t.item = u.item => t = u

\* The boil times are numbers, so an end is one.
LEMMA BoilTimes == \A f \in DOMAIN BoilTime : BoilTime[f] \in Nat
  BY StoreEngineAssumption

\* Timers renewed one by one, none of them renumbered, leave the state sound.
LEMMA Renewal ==
  ASSUME NEW s, NEW new, Sound(s),
         DOMAIN new = DOMAIN s, new.nextSeq = s.nextSeq,
         \A u \in new.timers : IsTimer(u),
         \A u, v \in new.timers : \E t, w \in s.timers :
           /\ u.seq = t.seq /\ u.item = t.item
           /\ v.seq = w.seq /\ v.item = w.item
           /\ t = w => u = v
  PROVE  Sound(new)
<1>1. IsState(new)
  BY DEF Sound, IsState
<1>2. \A u \in new.timers : u.seq < new.nextSeq
  BY DEF Sound
<1>3. \A u, v \in new.timers : u.seq = v.seq => u = v
  BY DEF Sound
<1>4. \A u, v \in new.timers : u.item # None /\ u.item = v.item => u = v
  BY DEF Sound
<1> QED
  BY <1>1, <1>2, <1>3, <1>4 DEF Sound

\* sync.ts: synchronisation only sets adjustments.
LEMMA SettleSound ==
  ASSUME NEW s, NEW cfg, Sound(s)
  PROVE  Sound(Settle(s, cfg))
<1> DEFINE adj(t) == AdjustmentOf(Boil(t), Boils(s.timers), cfg)
           f(t) == IF t.boiledAt = None THEN [t EXCEPT !.adjustment = adj(t)] ELSE t
           new == Settle(s, cfg)
<1>1. /\ DOMAIN new = DOMAIN s /\ new.nextSeq = s.nextSeq
      /\ new.timers = {f(t) : t \in s.timers}
  BY DEF Settle, Synchronize, Sound, IsState
<1>2. \A t \in s.timers : IsTimer(f(t)) /\ f(t).seq = t.seq /\ f(t).item = t.item
  <2> HIDE DEF adj
  <2> QED BY DEF Sound, IsState, IsTimer
<1> HIDE DEF f, new
<1>3. \A u \in new.timers : IsTimer(u)
  BY <1>1, <1>2
<1>4. \A u, v \in new.timers : \E t, w \in s.timers :
        /\ u.seq = t.seq /\ u.item = t.item
        /\ v.seq = w.seq /\ v.item = w.item
        /\ t = w => u = v
  BY <1>1, <1>2
<1>5. Sound(new)
  BY <1>1, <1>3, <1>4, Renewal
<1> QED
  BY <1>5 DEF new

LEMMA DecideSound ==
  ASSUME NEW s, NEW moved, NEW cfg, Sound(s), Sound(moved)
  PROVE  Sound(Decide(s, moved, cfg))
  BY SettleSound DEF Decide

\* decide.ts: whatever an event does, a slot is not held twice after it.
LEMMA DecideKeepsSlots ==
  ASSUME NEW s, NEW moved, NEW cfg, ~DuplicatedSlot(s)
  PROVE  ~DuplicatedSlot(Decide(s, moved, cfg))
  BY DEF Decide

-----------------------------------------------------------------------------
(* One lemma per event of the core.                                        *)

\* Timers only taken away, or left as they are: cancel, complete and all orders.
LEMMA Removal ==
  ASSUME NEW s, NEW new, Sound(s),
         DOMAIN new = DOMAIN s, new.nextSeq = s.nextSeq, new.timers \subseteq s.timers
  PROVE  Sound(new)
  BY DEF Sound, IsState

\* start.ts: a new timer, for no item or for one that is in no kettle.
LEMMA AddTimerSound ==
  ASSUME NEW s, Sound(s), NEW slots \in SlotSets, NEW firmness \in DOMAIN BoilTime,
         NEW duration \in Nat, NEW item \in Keys \cup {None}, NEW table, NEW at \in Nat,
         item # None => \A t \in s.timers : t.item # item
  PROVE  Sound(AddTimer(s, slots, firmness, duration, item, table, at))
<1> DEFINE added == [seq |-> s.nextSeq, slots |-> slots, firmness |-> firmness,
                     startTime |-> at, endTime |-> at + duration,
                     boiledAt |-> None, adjustment |-> 0, item |-> item, table |-> table]
           new == AddTimer(s, slots, firmness, duration, item, table, at)
<1>1. /\ DOMAIN new = DOMAIN s /\ new.nextSeq = s.nextSeq + 1
      /\ new.timers = s.timers \cup {added}
  BY DEF AddTimer, Sound, IsState
<1>2. IsTimer(added) /\ added.seq = s.nextSeq /\ added.item = item
  BY DEF Sound, IsState, IsTimer
<1>3. s.nextSeq \in Nat /\ \A t \in s.timers : t.seq \in Nat /\ t.seq < s.nextSeq
  BY DEF Sound, IsState, IsTimer
<1> HIDE DEF added, new
<1>4. IsState(new)
  BY <1>1, <1>2, <1>3 DEF Sound, IsState
<1>5. \A t \in new.timers : t.seq < new.nextSeq
  BY <1>1, <1>2, <1>3
<1>6. \A t, u \in new.timers : t.seq = u.seq => t = u
  BY <1>1, <1>2, <1>3 DEF Sound
<1>7. \A t, u \in new.timers : t.item # None /\ t.item = u.item => t = u
  BY <1>1, <1>2 DEF Sound
<1>8. Sound(new)
  BY <1>4, <1>5, <1>6, <1>7 DEF Sound
<1> QED
  BY <1>8 DEF new

LEMMA StartSound ==
  ASSUME NEW s, Sound(s), NEW slots \in SlotSets, NEW duration, NEW at \in Nat,
         CanStart(s, slots, duration)
  PROVE  Sound(StartTimer(s, slots, duration, at))
  BY StoreEngineAssumption, AddTimerSound DEF StartTimer, CanStart

\* A pending item is in no kettle.
LEMMA StartItemSound ==
  ASSUME NEW s, Sound(s), NEW slots \in SlotSets, NEW key \in Keys, NEW at \in Nat,
         CanStartOrderItem(s, slots, key, at)
  PROVE  Sound(StartOrderItem(s, slots, key, at))
<1>1. key # None => \A t \in s.timers : t.item # key
  BY DEF CanStartOrderItem, PendingOrders, ItemStatus, RefersTo
<1>2. ItemAt(s, key).firmness \in DOMAIN BoilTime
  BY DEF CanStartOrderItem
<1> QED
  BY <1>1, <1>2, BoilTimes, AddTimerSound DEF StartOrderItem

LEMMA CancelSound ==
  ASSUME NEW s, Sound(s), NEW seq, NEW at
  PROVE  Sound(CancelTimer(s, seq, at)) /\ Sound(CompleteTimer(s, seq, at))
<1>1. /\ DOMAIN CancelTimer(s, seq, at) = DOMAIN s
      /\ CancelTimer(s, seq, at).nextSeq = s.nextSeq
      /\ CancelTimer(s, seq, at).timers = Without(s.timers, seq)
  BY DEF CancelTimer, Sound, IsState
<1>2. /\ DOMAIN CompleteTimer(s, seq, at) = DOMAIN s
      /\ CompleteTimer(s, seq, at).nextSeq = s.nextSeq
      /\ CompleteTimer(s, seq, at).timers = Without(s.timers, seq)
  BY DEF CompleteTimer, Sound, IsState
<1>3. Without(s.timers, seq) \subseteq s.timers
  BY DEF Without
<1> QED
  BY <1>1, <1>2, <1>3, Removal

LEMMA OrdersSound ==
  ASSUME NEW s, Sound(s), NEW arrival, NEW order, NEW batch
  PROVE  /\ Sound(ArriveOrder(s, arrival)) /\ Sound(CancelOrder(s, order))
         /\ Sound(ArriveRecords(s, batch))
<1>1. /\ DOMAIN ArriveOrder(s, arrival) = DOMAIN s
      /\ ArriveOrder(s, arrival).nextSeq = s.nextSeq
      /\ ArriveOrder(s, arrival).timers = s.timers
  BY DEF ArriveOrder, Sound, IsState
<1>2. /\ DOMAIN CancelOrder(s, order) = DOMAIN s
      /\ CancelOrder(s, order).nextSeq = s.nextSeq
      /\ CancelOrder(s, order).timers = s.timers
  BY DEF CancelOrder, Sound, IsState
<1>3. /\ DOMAIN ArriveRecords(s, batch) = DOMAIN s
      /\ ArriveRecords(s, batch).nextSeq = s.nextSeq
      /\ ArriveRecords(s, batch).timers = s.timers
  BY DEF ArriveRecords, Sound, IsState
<1> QED
  BY <1>1, <1>2, <1>3, Removal

\* adjust.ts, assign-table.ts, fire.ts: timers renewed in place.
LEMMA AdjustSound ==
  ASSUME NEW s, Sound(s), NEW seq, NEW firmness \in DOMAIN BoilTime
  PROVE  Sound(AdjustTimer(s, seq, firmness))
<1> DEFINE f(t) == IF t.seq = seq
                   THEN [t EXCEPT !.firmness = firmness,
                                  !.endTime = t.startTime + BoilTime[firmness]]
                   ELSE t
           new == AdjustTimer(s, seq, firmness)
<1>1. /\ DOMAIN new = DOMAIN s /\ new.nextSeq = s.nextSeq
      /\ new.timers = {f(t) : t \in s.timers}
  BY DEF AdjustTimer, Sound, IsState
<1>2. \A t \in s.timers : IsTimer(f(t)) /\ f(t).seq = t.seq /\ f(t).item = t.item
  BY BoilTimes DEF Sound, IsState, IsTimer
<1> HIDE DEF f, new
<1>3. Sound(new)
  BY <1>1, <1>2, Renewal
<1> QED
  BY <1>3 DEF new

LEMMA AssignSound ==
  ASSUME NEW s, Sound(s), NEW key, NEW table, NEW at
  PROVE  Sound(AssignTable(s, key, table, at))
<1> DEFINE f(t) == IF t.item = key THEN [t EXCEPT !.table = table] ELSE t
           new == AssignTable(s, key, table, at)
<1>1. /\ DOMAIN new = DOMAIN s /\ new.nextSeq = s.nextSeq
      /\ new.timers = {f(t) : t \in s.timers}
  BY DEF AssignTable, Sound, IsState
<1>2. \A t \in s.timers : IsTimer(f(t)) /\ f(t).seq = t.seq /\ f(t).item = t.item
  BY DEF Sound, IsState, IsTimer
<1> HIDE DEF f, new
<1>3. Sound(new)
  BY <1>1, <1>2, Renewal
<1> QED
  BY <1>3 DEF new

LEMMA FireSound ==
  ASSUME NEW s, Sound(s), NEW at \in Nat, NEW cfg
  PROVE  Sound(FireDueTimers(s, at, cfg))
<1> DEFINE drained == Drain(s.timers, at, cfg)
           final(t) == CHOOSE u \in drained : u.seq = t.seq
           boiled(t) == IF t.boiledAt = None /\ final(t).boiledAt # None THEN at ELSE t.boiledAt
           f(t) == [t EXCEPT !.boiledAt = boiled(t), !.adjustment = final(t).adjustment]
           new == FireDueTimers(s, at, cfg)
<1>1. /\ DOMAIN new = DOMAIN s /\ new.nextSeq = s.nextSeq
      /\ new.timers = {f(t) : t \in s.timers}
  BY DEF FireDueTimers, Sound, IsState
<1>2. \A t \in s.timers : IsTimer(f(t)) /\ f(t).seq = t.seq /\ f(t).item = t.item
  <2> HIDE DEF final
  <2> QED BY DEF Sound, IsState, IsTimer
<1> HIDE DEF f, new
<1>3. Sound(new)
  BY <1>1, <1>2, Renewal
<1> QED
  BY <1>3 DEF new

-----------------------------------------------------------------------------
(* The steps of the object.                                                *)

\* The part of the invariant that is about the object's control state.
Control ==
  /\ now \in Nat /\ faults \in 0..MaxFaults
  /\ effects \in Nat \cup {None}
  /\ alarm # None => alarm.retry \in Nat /\ alarm.kind \in {"set", "retry", "rearm"}
  /\ invocation \in Nat \cup {None} /\ (invocation # None => effects # None)
  /\ projection \in Projections \cup {None}
  /\ posting # None => posting.post \in Posts /\ posting.at \in 0..now

\* StoreInv by parts: control, durable state, and the working copy.
Parts == Control /\ Sound(disk) /\ ~DuplicatedSlot(disk) /\ MemoryIsDurable

LEMMA StoreInvParts == StoreInv <=> Parts
<1>1. StoreInv => Sound(disk) /\ ~DuplicatedSlot(disk)
  BY DEF StoreInv, TypeOK, TimersNumbered, OneTimerPerSlot, OneTimerPerItem, Sound,
         DuplicatedSlot
<1>2. StoreInv => Control /\ MemoryIsDurable
  BY DEF StoreInv, TypeOK, Control
<1>3. Sound(disk) /\ ~DuplicatedSlot(disk) =>
        IsState(disk) /\ TimersNumbered /\ OneTimerPerSlot /\ OneTimerPerItem
  BY DEF TimersNumbered, OneTimerPerSlot, OneTimerPerItem, Sound, DuplicatedSlot
<1>4. IsState(disk) /\ MemoryIsDurable => (Up => IsState(mem))
  BY DEF MemoryIsDurable
<1> QED
  BY <1>1, <1>2, <1>3, <1>4 DEF StoreInv, Parts, TypeOK, Control

LEMMA InitParts == Init => Parts
<1> SUFFICES ASSUME Init PROVE Parts
  OBVIOUS
<1>1. Control
  BY StoreTimerAssumption, StoreEngineAssumption DEF Init, Control
<1>2. Sound(disk) /\ ~DuplicatedSlot(disk)
  BY DEF Init, EmptyState, Sound, IsState, DuplicatedSlot
<1>3. MemoryIsDurable
  BY DEF Init, MemoryIsDurable, Up
<1> QED
  BY <1>1, <1>2, <1>3 DEF Parts

\* What an event leaves when its move is sound, whether its put succeeds or fails.
LEMMA Outcome ==
  ASSUME Parts, NEW moved, Sound(moved), NEW at \in Nat,
         RunEffects(disk, Decide(disk, moved, Cfg), at)
  PROVE  /\ Sound(disk') /\ ~DuplicatedSlot(disk') /\ mem' = disk'
         /\ faults' \in 0..MaxFaults
         /\ effects' \in Nat \cup {None} /\ (effects # None => effects' # None)
<1> DEFINE next == Decide(disk, moved, Cfg)
<1>1. Sound(next) /\ ~DuplicatedSlot(next)
  BY DecideSound, DecideKeepsSlots DEF Parts
<1> HIDE DEF next
<1>2. CASE NothingChanged(disk, next)
  BY <1>1, <1>2 DEF NothingChanged, Parts, Control
<1>3. CASE Persists(disk, next, at)
  BY StoreTimerAssumption, StoreEngineAssumption, <1>1, <1>3 DEF Persists, Parts, Control
<1>4. CASE PersistFails(disk, next)
  BY StoreTimerAssumption, <1>1, <1>4 DEF PersistFails, Parts, Control
<1>5. RunEffects(disk, next, at)
  BY DEF next
<1> QED
  BY <1>2, <1>3, <1>4, <1>5 DEF RunEffects

\* An event handled while the object is idle.
LEMMA HandleParts ==
  ASSUME Parts, Idle, NEW moved, Sound(moved), NEW at \in Nat, Handle(moved, at),
         posting' \in {posting, None}
  PROVE  Parts'
<1>1. mem = disk
  BY DEF Parts, MemoryIsDurable, Idle
<1>2. RunEffects(disk, Decide(disk, moved, Cfg), at)
  BY <1>1 DEF Handle
<1>3. /\ Sound(disk') /\ ~DuplicatedSlot(disk') /\ mem' = disk'
      /\ faults' \in 0..MaxFaults
      /\ effects' \in Nat \cup {None} /\ (effects # None => effects' # None)
  BY <1>2, Outcome
<1>4. UNCHANGED <<now, alarm, invocation, view, projection>>
  BY DEF Handle
<1>5. Control'
  BY <1>3, <1>4 DEF Parts, Control
<1> QED
  BY <1>3, <1>5 DEF Parts, MemoryIsDurable

\* A step that leaves the storage and the working copy alone, or forgets the latter.
LEMMA QuietParts ==
  ASSUME Parts, Control', disk' = disk, mem' \in {mem, None}
  PROVE  Parts'
  BY DEF Parts, MemoryIsDurable, Up

LEMMA ConstructParts == ASSUME Parts, Construct PROVE Parts'
<1>1. Sound(FireDueTimers(disk, now, Cfg))
  BY FireSound DEF Parts, Control
<1>2. /\ Sound(disk') /\ ~DuplicatedSlot(disk') /\ mem' = disk'
      /\ faults' \in 0..MaxFaults
      /\ effects' \in Nat \cup {None} /\ (effects # None => effects' # None)
  BY <1>1, Outcome DEF Construct, Parts, Control
<1>3. Control'
  BY <1>2 DEF Construct, Parts, Control
<1> QED
  BY <1>2, <1>3 DEF Parts, MemoryIsDurable

LEMMA AlarmParts == ASSUME Parts, AlarmFires PROVE Parts'
<1> DEFINE next == Decide(mem, FireDueTimers(mem, now, Cfg), Cfg)
<1>1. mem = disk /\ now \in Nat /\ effects = None /\ alarm.retry \in Nat
  BY DEF AlarmFires, Parts, MemoryIsDurable, Idle, Control, AlarmDue
<1>2. Sound(FireDueTimers(disk, now, Cfg))
  BY <1>1, FireSound DEF Parts
<1>3. RunEffects(disk, Decide(disk, FireDueTimers(disk, now, Cfg), Cfg), now)
  BY <1>1 DEF AlarmFires, RunEffects
<1>4. /\ Sound(disk') /\ ~DuplicatedSlot(disk') /\ mem' = disk'
      /\ faults' \in 0..MaxFaults /\ effects' \in Nat \cup {None}
  BY <1>1, <1>2, <1>3, Outcome
<1>5. /\ invocation' \in Nat \cup {None} /\ (invocation' # None => effects' # None)
      /\ alarm' # None => alarm'.retry \in Nat /\ alarm'.kind \in {"set", "retry", "rearm"}
  <2> HIDE DEF next
  <2>1. CASE NothingChanged(mem, next) /\ alarm' = None /\ invocation' = None
    BY <2>1
  <2>2. CASE Persists(mem, next, now) /\ alarm' = None /\ invocation' = alarm.retry
    BY StoreTimerAssumption, StoreEngineAssumption, <1>1, <2>2 DEF Persists
  <2>3. CASE PersistFails(mem, next) /\ AlarmFailed(alarm.retry) /\ invocation' = None
    BY <1>1, <2>3 DEF AlarmFailed, RetryOf
  <2>4. \/ NothingChanged(mem, next) /\ alarm' = None /\ invocation' = None
        \/ Persists(mem, next, now) /\ alarm' = None /\ invocation' = alarm.retry
        \/ PersistFails(mem, next) /\ AlarmFailed(alarm.retry) /\ invocation' = None
    BY DEF AlarmFires, next
  <2> QED
    BY <2>1, <2>2, <2>3, <2>4
<1>6. UNCHANGED <<now, view, projection, posting>>
  BY DEF AlarmFires
<1>7. Control'
  BY <1>4, <1>5, <1>6 DEF Parts, Control
<1> QED
  BY <1>4, <1>7 DEF Parts, MemoryIsDurable

LEMMA QuietStepParts ==
  ASSUME Parts,
         \/ Tick \/ RunSideEffects \/ Hibernate \/ Crash \/ Connect \/ Disconnect
         \/ \E post \in Posts : PostBegins(post)
         \/ \E p \in Projections : ApplyProjection(p)
  PROVE  Parts'
<1> USE DEF Parts, Control
<1>1. CASE Tick
  BY <1>1, QuietParts DEF Tick
<1>2. CASE RunSideEffects
  BY <1>2, QuietParts DEF RunSideEffects
<1>3. CASE Hibernate
  BY <1>3, QuietParts DEF Hibernate
<1>4. CASE Crash
  BY <1>4, QuietParts DEF Crash, RetryOf
<1>5. CASE Connect
  BY <1>5, QuietParts DEF Connect
<1>6. CASE Disconnect
  BY <1>6, QuietParts DEF Disconnect
<1>7. CASE \E post \in Posts : PostBegins(post)
  BY <1>7, QuietParts DEF PostBegins
<1>8. CASE \E p \in Projections : ApplyProjection(p)
  BY <1>8, QuietParts DEF ApplyProjection
<1> QED
  BY <1>1, <1>2, <1>3, <1>4, <1>5, <1>6, <1>7, <1>8

LEMMA CommandParts ==
  ASSUME Parts,
         \/ \E slots \in SlotSets : \/ \E d \in Durations : Start(slots, d)
                                    \/ \E key \in Keys : StartItem(slots, key)
         \/ \E seq \in 0..(MaxStarts - 1) : \/ Cancel(seq) \/ Complete(seq)
                                            \/ \E f \in DOMAIN BoilTime : Adjust(seq, f)
         \/ \E key \in Keys, table \in Tables : Assign(key, table)
  PROVE  Parts'
<1>1. now \in Nat /\ Sound(disk)
  BY DEF Parts, Control
<1>2. Idle => mem = disk
  BY DEF Parts, MemoryIsDurable, Idle
<1>3. ASSUME NEW slots \in SlotSets, NEW d \in Durations, Start(slots, d) PROVE Parts'
  BY <1>1, <1>2, <1>3, StartSound, HandleParts DEF Start, FromClient
<1>4. ASSUME NEW slots \in SlotSets, NEW key \in Keys, StartItem(slots, key) PROVE Parts'
  BY <1>1, <1>2, <1>4, StartItemSound, HandleParts DEF StartItem, FromClient
<1>5. ASSUME NEW seq \in 0..(MaxStarts - 1), Cancel(seq) \/ Complete(seq) PROVE Parts'
  BY <1>1, <1>2, <1>5, CancelSound, HandleParts DEF Cancel, Complete, FromClient
<1>6. ASSUME NEW seq \in 0..(MaxStarts - 1), NEW f \in DOMAIN BoilTime, Adjust(seq, f)
      PROVE  Parts'
  BY <1>1, <1>2, <1>6, AdjustSound, HandleParts DEF Adjust, FromClient
<1>7. ASSUME NEW key \in Keys, NEW table \in Tables, Assign(key, table) PROVE Parts'
  BY <1>1, <1>2, <1>7, AssignSound, HandleParts DEF Assign, FromClient
<1> QED
  BY <1>3, <1>4, <1>5, <1>6, <1>7

LEMMA OrderParts ==
  ASSUME Parts, PostEnds \/ \E batch \in Batches : ReceiveRecords(batch)
  PROVE  Parts'
<1>1. now \in Nat /\ Sound(disk) /\ (posting # None => posting.at \in Nat)
  BY DEF Parts, Control
<1>2. Idle => mem = disk
  BY DEF Parts, MemoryIsDurable, Idle
<1>3. CASE PostEnds
  <2>1. Sound(PostOrder(disk, posting.post, posting.at))
    BY <1>1, OrdersSound DEF PostOrder
  <2> QED
    BY <1>1, <1>2, <1>3, <2>1, HandleParts DEF PostEnds
<1>4. ASSUME NEW batch \in Batches, ReceiveRecords(batch) PROVE Parts'
  BY <1>1, <1>2, <1>4, OrdersSound, HandleParts DEF ReceiveRecords
<1> QED
  BY <1>3, <1>4

LEMMA NextParts == ASSUME Parts, [Next]_vars PROVE Parts'
<1>1. CASE UNCHANGED vars
  BY <1>1 DEF vars, Parts, Control, MemoryIsDurable, Up, Sound, DuplicatedSlot
<1>2. CASE Next
  BY <1>2, QuietStepParts, ConstructParts, AlarmParts, CommandParts, OrderParts DEF Next
<1> QED
  BY <1>1, <1>2

-----------------------------------------------------------------------------
(* The theorems.                                                           *)

\* The inductive invariant: in every behaviour, whatever fails.
THEOREM Invariance == Spec => []StoreInv
<1>1. Init => StoreInv
  BY InitParts, StoreInvParts
<1>2. StoreInv /\ [Next]_vars => StoreInv'
  <2>1. StoreInv /\ [Next]_vars => Parts'
    BY StoreInvParts, NextParts
  <2>2. Parts' => StoreInv'
    BY StoreInvParts, PTL
  <2> QED BY <2>1, <2>2
<1> QED
  BY <1>1, <1>2, PTL DEF Spec

\* Every variable keeps its type.
THEOREM TypeCorrect == Spec => []TypeOK
  BY Invariance, PTL DEF StoreInv

\* The working copy is what the storage holds.
THEOREM Durable == Spec => []MemoryIsDurable
  BY Invariance, PTL DEF StoreInv

\* No kettle slot has two timers (ADR-0015).
THEOREM SlotsExclusive == Spec => []OneTimerPerSlot
  BY Invariance, PTL DEF StoreInv

\* No dish is in the kettles twice.
THEOREM ItemsExclusive == Spec => []OneTimerPerItem
  BY Invariance, PTL DEF StoreInv

-----------------------------------------------------------------------------
(* The object implements AtomicStore: an event's put is the abstract       *)
(* event, and everything else the object does is a stutter.                *)

Abstract == [Atomic!Next]_Atomic!vars

\* An event handled on the working copy is the event taken on the durable state, or none.
LEMMA RunsOnce ==
  ASSUME MemoryIsDurable, Idle, NEW moved, NEW at, Handle(moved, at)
  PROVE  Atomic!Take(moved) \/ UNCHANGED <<now, disk, projection>>
<1>1. mem = disk /\ Atomic!Cfg = Cfg
  BY DEF MemoryIsDurable, Idle, Atomic!Cfg, Cfg
<1>2. UNCHANGED <<now, projection>>
  BY DEF Handle
<1>3. disk' \in {disk, Decide(disk, moved, Cfg)}
  BY <1>1 DEF Handle, RunEffects, NothingChanged, Persists, PersistFails
<1> QED
  BY <1>1, <1>2, <1>3 DEF Atomic!Take

\* The same for the timers that are due, on the alarm and at the start of the object.
LEMMA FiresOnce ==
  ASSUME MemoryIsDurable, Construct \/ AlarmFires
  PROVE  Atomic!Fire \/ UNCHANGED <<now, disk, projection>>
<1>1. Atomic!Cfg = Cfg
  BY DEF Atomic!Cfg, Cfg
<1>2. UNCHANGED <<now, projection>>
  BY DEF Construct, AlarmFires
<1>3. disk' \in {disk, Decide(disk, FireDueTimers(disk, now, Cfg), Cfg)}
  <2>1. CASE Construct
    BY <2>1 DEF Construct, RunEffects, NothingChanged, Persists, PersistFails
  <2>2. CASE AlarmFires
    <3>1. mem = disk
      BY <2>2 DEF AlarmFires, Idle, MemoryIsDurable
    <3> QED
      BY <2>2, <3>1 DEF AlarmFires, NothingChanged, Persists, PersistFails
  <2> QED
    BY <2>1, <2>2
<1> QED
  BY <1>1, <1>2, <1>3 DEF Atomic!Fire, Atomic!Take

LEMMA StepImplements ==
  ASSUME MemoryIsDurable, posting # None => posting.post \in Posts /\ posting.at \in 0..now,
         [Next]_vars
  PROVE  Abstract
<1> USE DEF Abstract, Atomic!Next, Atomic!vars
<1>1. Idle => mem = disk
  BY DEF MemoryIsDurable, Idle
<1>2. CASE UNCHANGED vars
  BY <1>2 DEF vars
<1>3. CASE Tick
  BY <1>3 DEF Tick, Atomic!Tick
<1>4. CASE \/ RunSideEffects \/ Hibernate \/ Crash \/ Connect \/ Disconnect
           \/ \E post \in Posts : PostBegins(post)
  BY <1>4 DEF RunSideEffects, Hibernate, Crash, Connect, Disconnect, PostBegins
<1>5. CASE Construct \/ AlarmFires
  BY <1>5, FiresOnce
<1>6. ASSUME NEW slots \in SlotSets, NEW d \in Durations, Start(slots, d) PROVE Abstract
  BY <1>1, <1>6, RunsOnce DEF Start, FromClient, MayStart, Atomic!Start
<1>7. ASSUME NEW slots \in SlotSets, NEW key \in Keys, StartItem(slots, key) PROVE Abstract
  BY <1>1, <1>7, RunsOnce DEF StartItem, FromClient, MayStart, Atomic!StartItem
<1>8. ASSUME NEW seq \in 0..(MaxStarts - 1), Cancel(seq) \/ Complete(seq) PROVE Abstract
  BY <1>1, <1>8, RunsOnce DEF Cancel, Complete, FromClient, Atomic!Cancel, Atomic!Complete
<1>9. ASSUME NEW seq \in 0..(MaxStarts - 1), NEW f \in DOMAIN BoilTime, Adjust(seq, f)
      PROVE  Abstract
  BY <1>1, <1>9, RunsOnce DEF Adjust, FromClient, Atomic!Adjust
<1>10. ASSUME NEW key \in Keys, NEW table \in Tables, Assign(key, table) PROVE Abstract
  BY <1>1, <1>10, RunsOnce DEF Assign, FromClient, Atomic!Assign
<1>11. CASE PostEnds
  BY <1>1, <1>11, RunsOnce DEF PostEnds, Atomic!Post
<1>12. ASSUME NEW batch \in Batches, ReceiveRecords(batch) PROVE Abstract
  BY <1>1, <1>12, RunsOnce DEF ReceiveRecords, Active, Atomic!ReceiveRecords
<1>13. ASSUME NEW p \in Projections, ApplyProjection(p) PROVE Abstract
  BY <1>13 DEF ApplyProjection, Atomic!ApplyProjection
<1> QED
  BY <1>2, <1>3, <1>4, <1>5, <1>6, <1>7, <1>8, <1>9, <1>10, <1>11, <1>12, <1>13 DEF Next

\* Whatever crashes, fails or is evicted, the store takes each event whole or not at all.
THEOREM Atomicity == Spec => ImplementsAtomicStore
<1>1. Init => Atomic!Init
  BY DEF Init, Atomic!Init
<1>2. StoreInv /\ [Next]_vars => [Atomic!Next]_Atomic!vars
  BY StepImplements DEF StoreInv, TypeOK, Abstract
<1> QED
  BY <1>1, <1>2, Invariance, PTL DEF Spec, ImplementsAtomicStore, Atomic!Spec

-----------------------------------------------------------------------------
(* The records of a batch.                                                 *)

\* The course of a batch over its first n records.
CourseOf(s, batch, f, n) ==
  f = [k \in 0..n |-> IF k = 0 THEN [items |-> s.items, last |-> s.last]
                      ELSE ReceiveRecord(f[k - 1], batch[k], s.timers)]

LEMMA BatchHasCourse ==
  ASSUME NEW s, NEW batch, NEW n \in Nat
  PROVE  \E f : CourseOf(s, batch, f, n)
<1> SUFFICES ASSUME ~ \E f : CourseOf(s, batch, f, n) PROVE FALSE
  OBVIOUS
<1> DEFINE T == {m \in Nat : ~ \E f : CourseOf(s, batch, f, m)}
<1>1. PICK m \in T : \A k \in T : m <= k
  BY LeastNumber
<1>2. CASE m = 0
  <2> DEFINE g == [k \in 0..0 |-> [items |-> s.items, last |-> s.last]]
  <2>1. CourseOf(s, batch, g, 0)
    BY DEF CourseOf
  <2> QED
    BY <1>1, <1>2, <2>1
<1>3. CASE m # 0
  <2>1. m - 1 \in Nat /\ m - 1 \notin T
    BY <1>1, <1>3
  <2>2. PICK f : CourseOf(s, batch, f, m - 1)
    BY <2>1
  <2> DEFINE g == [k \in 0..m |-> IF k = m THEN ReceiveRecord(f[m - 1], batch[m], s.timers) ELSE f[k]]
  <2>3. \A k \in 0..m : k # m => g[k] = f[k]
    OBVIOUS
  <2>4. g[m] = ReceiveRecord(f[m - 1], batch[m], s.timers)
    BY <1>1
  <2>5. \A k \in 0..m : g[k] = IF k = 0 THEN [items |-> s.items, last |-> s.last]
                                ELSE ReceiveRecord(g[k - 1], batch[k], s.timers)
    <3> SUFFICES ASSUME NEW k \in 0..m
                 PROVE  g[k] = IF k = 0 THEN [items |-> s.items, last |-> s.last]
                               ELSE ReceiveRecord(g[k - 1], batch[k], s.timers)
      OBVIOUS
    <3> DEFINE start == [items |-> s.items, last |-> s.last]
               next(a, i) == ReceiveRecord(a, batch[i], s.timers)
    <3>1. \A i \in 0..(m - 1) : f[i] = IF i = 0 THEN start ELSE next(f[i - 1], i)
      BY <2>2 DEF CourseOf
    <3>2. g[m] = next(f[m - 1], m)
      BY <2>4
    <3> HIDE DEF start, next, g
    <3>3. g[k] = IF k = 0 THEN start ELSE next(g[k - 1], k)
      BY <1>1, <1>3, <2>3, <3>1, <3>2
    <3> QED
      BY <3>3 DEF start, next
  <2>6. CourseOf(s, batch, g, m)
    <3> HIDE DEF g
    <3>1. DOMAIN g = 0..m /\ g = [k \in 0..m |-> g[k]]
      BY DEF g
    <3> QED
      BY <2>5, <3>1 DEF CourseOf
  <2> QED
    BY <1>1, <2>6
<1> QED
  BY <1>2, <1>3

LEMMA ReceivedUnfolds ==
  ASSUME NEW s, NEW batch, Len(batch) \in Nat
  PROVE  /\ AfterRecords(s, batch)[0] = [items |-> s.items, last |-> s.last]
         /\ \A k \in 1..Len(batch) :
              AfterRecords(s, batch)[k] = ReceiveRecord(AfterRecords(s, batch)[k - 1], batch[k], s.timers)
<1>1. CourseOf(s, batch, AfterRecords(s, batch), Len(batch))
  <2>1. PICK f : CourseOf(s, batch, f, Len(batch))
    BY BatchHasCourse
  <2> QED
    BY <2>1 DEF CourseOf, AfterRecords
<1> QED
  BY <1>1 DEF CourseOf

-----------------------------------------------------------------------------
(* The list of items against the kettles.                                  *)

IsItem(i) ==
  /\ DOMAIN i = {"order", "index", "firmness", "table", "arrival", "completedAt",
                 "interruptedAt", "tableAssignedAt"}
  /\ i.order \in Nat /\ i.index \in Nat /\ i.arrival \in Nat

UniqueKeys(items) == \A i, j \in items : Key(i) = Key(j) => i = j

\* The table that the store has decided for an item is that of its timer.
TablesShared(items, timers) ==
  \A i \in items, t \in timers : RefersTo(t, i) /\ i.tableAssignedAt # None => t.table = i.table

ItemsSound(items, timers) ==
  (\A i \in items : IsItem(i)) /\ UniqueKeys(items) /\ TablesShared(items, timers)

\* What a POS order does not change of an item it has anew.
SameItem(u, i) ==
  /\ Key(u) = Key(i) /\ u.arrival = i.arrival /\ u.completedAt = i.completedAt
  /\ u.tableAssignedAt = i.tableAssignedAt /\ (i.tableAssignedAt # None => u.table = i.table)

LEMMA ArrivedIsOne ==
  ASSUME NEW arrival, NEW key \in KeysOf(arrival)
  PROVE  Arrived(arrival, key) \in arrival /\ Key(Arrived(arrival, key)) = key
BY DEF KeysOf, Arrived

LEMMA FirstArrivalIsNumber ==
  ASSUME NEW items, \A i \in items : IsItem(i), NEW a, a.arrival \in Nat
  PROVE  FirstArrival(items, a) \in Nat
<1> DEFINE known == {i \in items : i.order = a.order}
           arrivals == {i.arrival : i \in known}
<1>1. CASE known = {}
  BY <1>1 DEF FirstArrival
<1>2. CASE known # {}
  <2>1. arrivals \subseteq Nat /\ arrivals # {}
    BY <1>2 DEF IsItem
  <2>2. PICK m \in arrivals : \A n \in arrivals : m <= n
    BY <2>1, LeastNumber
  <2>3. Min(arrivals) \in arrivals
    BY <2>2 DEF Min
  <2> QED
    BY <1>2, <2>1, <2>3 DEF FirstArrival
<1> QED
  BY <1>1, <1>2

LEMMA UpdatedItem ==
  ASSUME NEW i, IsItem(i), NEW a, IsItem(a)
  PROVE  IsItem(WithOrderAttributes(i, a)) /\ SameItem(WithOrderAttributes(i, a), i)
<1> DEFINE table == IF i.tableAssignedAt = None THEN a.table ELSE i.table
<1>1. WithOrderAttributes(i, a) = [i EXCEPT !.firmness = a.firmness, !.table = table]
  BY DEF WithOrderAttributes, IsItem
<1>2. i.tableAssignedAt # None => table = i.table
  OBVIOUS
<1> HIDE DEF table
<1> QED
  BY <1>1, <1>2 DEF IsItem, SameItem, Key

\* The list before its bound is applied.
Merged(items, timers, arrival) ==
  {WithOrderAttributes(i, Arrived(arrival, Key(i))) : i \in {j \in items : Key(j) \in KeysOf(arrival)}}
  \cup {i \in items : /\ Key(i) \notin KeysOf(arrival)
                      /\ i.order \in {a.order : a \in arrival} => KeepsMissingLine(i, timers)}
  \cup {[Arrived(arrival, key) EXCEPT !.arrival = FirstArrival(items, Arrived(arrival, key))] :
          key \in KeysOf(arrival) \ KeysOf(items)}

LEMMA UpsertIsMerged ==
  ASSUME NEW items, NEW timers, NEW arrival
  PROVE  UpsertOrder(items, timers, arrival) = TruncateOrderItems(Merged(items, timers, arrival))
BY DEF UpsertOrder, Merged

\* Whatever is merged is an item of the list, with its key, or a new one.
LEMMA MergedItems ==
  ASSUME NEW items, \A i \in items : IsItem(i), UniqueKeys(items), NEW timers,
         NEW arrival, \A a \in arrival : IsItem(a) /\ a.tableAssignedAt = None
  PROVE  /\ \A u \in Merged(items, timers, arrival) :
              /\ IsItem(u)
              /\ \/ \E i \in items : SameItem(u, i)
                 \/ Key(u) \in KeysOf(arrival) \ KeysOf(items) /\ u.tableAssignedAt = None
         /\ UniqueKeys(Merged(items, timers, arrival))
         /\ \A i \in items : ItemStatus(i, timers) # "unstarted" =>
              \E u \in Merged(items, timers, arrival) : SameItem(u, i)
<1> DEFINE updated(i) == WithOrderAttributes(i, Arrived(arrival, Key(i)))
           Updated == {updated(i) : i \in {j \in items : Key(j) \in KeysOf(arrival)}}
           Kept == {i \in items : /\ Key(i) \notin KeysOf(arrival)
                                  /\ i.order \in {a.order : a \in arrival} => KeepsMissingLine(i, timers)}
           fresh(key) == [Arrived(arrival, key) EXCEPT !.arrival = FirstArrival(items, Arrived(arrival, key))]
           Fresh == {fresh(key) : key \in KeysOf(arrival) \ KeysOf(items)}
<1>1. \A i \in items : Key(i) \in KeysOf(arrival) =>
        IsItem(updated(i)) /\ SameItem(updated(i), i) /\ Key(updated(i)) = Key(i)
  <2> SUFFICES ASSUME NEW i \in items, Key(i) \in KeysOf(arrival)
               PROVE  IsItem(updated(i)) /\ SameItem(updated(i), i)
    BY DEF SameItem
  <2>1. Arrived(arrival, Key(i)) \in arrival
    BY ArrivedIsOne
  <2> QED
    BY <2>1, UpdatedItem
<1>2. \A key \in KeysOf(arrival) \ KeysOf(items) :
        IsItem(fresh(key)) /\ Key(fresh(key)) = key /\ fresh(key).tableAssignedAt = None
  <2> SUFFICES ASSUME NEW key \in KeysOf(arrival) \ KeysOf(items)
               PROVE  IsItem(fresh(key)) /\ Key(fresh(key)) = key /\ fresh(key).tableAssignedAt = None
    OBVIOUS
  <2> DEFINE a == Arrived(arrival, key)
             first == FirstArrival(items, a)
  <2>1. a \in arrival /\ Key(a) = key
    BY ArrivedIsOne
  <2>2. IsItem(a) /\ a.tableAssignedAt = None /\ first \in Nat
    BY <2>1, FirstArrivalIsNumber DEF IsItem
  <2>3. fresh(key) = [a EXCEPT !.arrival = first]
    OBVIOUS
  <2> HIDE DEF a, first, fresh
  <2> QED
    BY <2>1, <2>2, <2>3 DEF IsItem, Key
<1>3. \A i \in Kept : i \in items /\ Key(i) \notin KeysOf(arrival) /\ SameItem(i, i)
  BY DEF SameItem
<1>4. \A i \in items : Key(i) \in KeysOf(items)
  BY DEF KeysOf
<1>5. Merged(items, timers, arrival) = Updated \cup Kept \cup Fresh
  BY DEF Merged
<1>6. \A i \in items : ItemStatus(i, timers) # "unstarted" => i \in Kept \/ Key(i) \in KeysOf(arrival)
  BY DEF KeepsMissingLine
<1> HIDE DEF updated, Kept, fresh
<1>7. \A u \in Updated \cup Kept \cup Fresh :
        /\ IsItem(u)
        /\ \/ \E i \in items : SameItem(u, i)
           \/ Key(u) \in KeysOf(arrival) \ KeysOf(items) /\ u.tableAssignedAt = None
  BY <1>1, <1>2, <1>3
<1>8. UniqueKeys(Updated \cup Kept \cup Fresh)
  <2>1. \A u \in Updated : Key(u) \in KeysOf(arrival) /\ Key(u) \in KeysOf(items)
    BY <1>1, <1>4
  <2>2. \A u, v \in Updated : Key(u) = Key(v) => u = v
    BY <1>1 DEF UniqueKeys
  <2>3. \A u, v \in Fresh : Key(u) = Key(v) => u = v
    BY <1>2
  <2>4. \A u \in Fresh : Key(u) \in KeysOf(arrival) /\ Key(u) \notin KeysOf(items)
    BY <1>2
  <2>5. \A u \in Kept : Key(u) \notin KeysOf(arrival) /\ Key(u) \in KeysOf(items) /\ u \in items
    BY <1>3, <1>4
  <2> HIDE DEF Updated, Fresh
  <2> QED
    BY <2>1, <2>2, <2>3, <2>4, <2>5 DEF UniqueKeys
<1>9. \A i \in items : ItemStatus(i, timers) # "unstarted" =>
        \E u \in Updated \cup Kept \cup Fresh : SameItem(u, i)
  BY <1>1, <1>3, <1>6
<1> QED
  BY <1>5, <1>7, <1>8, <1>9

LEMMA UpsertSound ==
  ASSUME NEW items, NEW timers, ItemsSound(items, timers),
         NEW arrival, \A a \in arrival : IsItem(a) /\ a.tableAssignedAt = None
  PROVE  ItemsSound(UpsertOrder(items, timers, arrival), timers)
<1> DEFINE m == Merged(items, timers, arrival)
<1>1. /\ \A u \in m : /\ IsItem(u)
                      /\ (\E i \in items : SameItem(u, i)) \/ u.tableAssignedAt = None
      /\ UniqueKeys(m)
  BY MergedItems DEF ItemsSound
<1>2. UpsertOrder(items, timers, arrival) \subseteq m
  BY UpsertIsMerged DEF TruncateOrderItems
<1> HIDE DEF m
<1>3. TablesShared(m, timers)
  BY <1>1 DEF ItemsSound, TablesShared, SameItem, RefersTo
<1> QED
  BY <1>1, <1>2, <1>3 DEF ItemsSound, UniqueKeys, TablesShared

LEMMA RemoveSound ==
  ASSUME NEW items, NEW timers, ItemsSound(items, timers), NEW order
  PROVE  ItemsSound(RemoveOrder(items, timers, order), timers)
BY DEF RemoveOrder, ItemsSound, UniqueKeys, TablesShared

-----------------------------------------------------------------------------
(* The list within its limit.                                              *)

\* The keys that the POS may send.
OrderKeys(order, lines) == {<<order, line.index>> : line \in lines}
BatchKeys(batch) == UNION {OrderKeys(batch[k].order, batch[k].lines) : k \in 1..Len(batch)}
PosKeys ==
  (UNION {OrderKeys(post.order, post.lines) : post \in Posts})
  \cup (UNION {BatchKeys(batch) : batch \in Batches})

\* They all have a place on the list.
ListFits == IsFiniteSet(PosKeys) /\ Cardinality(PosKeys) <= OrderItemLimit

LEMMA NothingIsDropped ==
  ASSUME ListFits, NEW items, \A i \in items : IsItem(i), UniqueKeys(items),
         KeysOf(items) \subseteq PosKeys
  PROVE  TruncateOrderItems(items) = items
<1> DEFINE f == [i \in items |-> Key(i)]
<1>1. f \in Injection(items, PosKeys)
  BY DEF Injection, IsInjective, UniqueKeys, KeysOf
<1>2. IsFiniteSet(items) /\ Cardinality(items) <= Cardinality(PosKeys)
  <2> HIDE DEF f
  <2>1. IsFiniteSet(PosKeys)
    BY DEF ListFits
  <2> QED
    BY <1>1, <2>1, FS_Injection
<1>3. ASSUME NEW i \in items
      PROVE  Cardinality({j \in items : ArrivesBefore(i, j)}) < OrderItemLimit
  <2> DEFINE later == {j \in items : ArrivesBefore(i, j)}
  <2>1. ~ArrivesBefore(i, i)
    BY DEF ArrivesBefore, IsItem
  <2>2. later \subseteq items \ {i}
    BY <2>1
  <2>3. IsFiniteSet(items \ {i}) /\ Cardinality(items \ {i}) = Cardinality(items) - 1
    BY <1>2, FS_RemoveElement
  <2>4. IsFiniteSet(later) /\ Cardinality(later) <= Cardinality(items) - 1
    BY <2>2, <2>3, FS_Subset
  <2>5. Cardinality(later) \in Nat /\ Cardinality(items) \in Nat /\ Cardinality(PosKeys) \in Nat
    BY <1>2, <2>4, FS_CardinalityType DEF ListFits
  <2>6. OrderItemLimit \in Nat
    BY OrderItemsAssumption
  <2> HIDE DEF later
  <2>7. Cardinality(later) < OrderItemLimit
    BY <1>2, <2>4, <2>5, <2>6 DEF ListFits
  <2> QED
    BY <2>7 DEF later
<1> QED
  BY <1>3 DEF TruncateOrderItems

\* What is cooking or done has its key, its arrival and that it is done.
Stays(i, items) ==
  \E j \in items : /\ Key(j) = Key(i) /\ j.arrival = i.arrival
                   /\ i.completedAt # None => j.completedAt # None

Touched(i, timers) == ItemStatus(i, timers) # "unstarted"

LEMMA StaysTouched ==
  ASSUME NEW i, NEW j, Key(j) = Key(i), i.completedAt # None => j.completedAt # None,
         NEW timers, Touched(i, timers)
  PROVE  Touched(j, timers)
BY DEF Touched, ItemStatus, RefersTo

LEMMA UpsertKeeps ==
  ASSUME ListFits, NEW items, NEW timers, ItemsSound(items, timers), KeysOf(items) \subseteq PosKeys,
         NEW arrival, \A a \in arrival : IsItem(a) /\ a.tableAssignedAt = None,
         KeysOf(arrival) \subseteq PosKeys
  PROVE  \A i \in items : Touched(i, timers) => Stays(i, UpsertOrder(items, timers, arrival))
<1> DEFINE m == Merged(items, timers, arrival)
<1>1. /\ \A u \in m : /\ IsItem(u)
                      /\ (\E i \in items : SameItem(u, i)) \/ Key(u) \in KeysOf(arrival)
      /\ UniqueKeys(m)
      /\ \A i \in items : ItemStatus(i, timers) # "unstarted" => \E u \in m : SameItem(u, i)
  BY MergedItems DEF ItemsSound
<1> HIDE DEF m
<1>2. KeysOf(m) \subseteq PosKeys
  BY <1>1 DEF KeysOf, SameItem
<1>3. UpsertOrder(items, timers, arrival) = m
  BY <1>1, <1>2, NothingIsDropped, UpsertIsMerged DEF m
<1> QED
  BY <1>1, <1>3 DEF Touched, Stays, SameItem

LEMMA UpsertKeys ==
  ASSUME NEW items, NEW timers, ItemsSound(items, timers),
         NEW arrival, \A a \in arrival : IsItem(a) /\ a.tableAssignedAt = None
  PROVE  KeysOf(UpsertOrder(items, timers, arrival)) \subseteq KeysOf(items) \cup KeysOf(arrival)
<1> DEFINE m == Merged(items, timers, arrival)
<1>1. \A u \in m : (\E i \in items : SameItem(u, i)) \/ Key(u) \in KeysOf(arrival)
  BY MergedItems DEF ItemsSound
<1>2. UpsertOrder(items, timers, arrival) \subseteq m
  BY UpsertIsMerged DEF TruncateOrderItems
<1> HIDE DEF m
<1> QED
  BY <1>1, <1>2 DEF KeysOf, SameItem

LEMMA RemoveKeeps ==
  ASSUME NEW items, NEW timers, NEW order
  PROVE  /\ \A i \in items : Touched(i, timers) => Stays(i, RemoveOrder(items, timers, order))
         /\ KeysOf(RemoveOrder(items, timers, order)) \subseteq KeysOf(items)
BY DEF Touched, Stays, RemoveOrder, KeepsMissingLine, KeysOf

-----------------------------------------------------------------------------
(* A batch, record by record.                                              *)

LEMMA ItemsOfOrder ==
  ASSUME NEW order \in Nat, NEW lines, \A line \in lines : line.index \in Nat, NEW at \in Nat
  PROVE  LET arrival == {ToOrderItem(order, line, at) : line \in lines}
         IN  /\ \A a \in arrival : IsItem(a) /\ a.tableAssignedAt = None
             /\ KeysOf(arrival) = {<<order, line.index>> : line \in lines}
<1> DEFINE item(line) == ToOrderItem(order, line, at)
           arrival == {item(line) : line \in lines}
<1>1. \A line \in lines : /\ IsItem(item(line)) /\ item(line).tableAssignedAt = None
                          /\ Key(item(line)) = <<order, line.index>>
  BY DEF ToOrderItem, IsItem, Key
<1> HIDE DEF item
<1>2. \A a \in arrival : IsItem(a) /\ a.tableAssignedAt = None
  BY <1>1
<1>3. KeysOf(arrival) = {Key(item(line)) : line \in lines}
  BY DEF KeysOf
<1>4. {Key(item(line)) : line \in lines} = {<<order, line.index>> : line \in lines}
  BY <1>1
<1> QED
  BY <1>2, <1>3, <1>4 DEF item

LEMMA RecordItems ==
  ASSUME NEW batch \in Batches, NEW k \in 1..Len(batch)
  PROVE  /\ \A a \in ReceivedItems(batch[k]) : IsItem(a) /\ a.tableAssignedAt = None
         /\ KeysOf(ReceivedItems(batch[k])) \subseteq PosKeys
<1>1. /\ batch[k].order \in Nat /\ batch[k].arrival \in Nat
      /\ \A line \in batch[k].lines : line.index \in Nat
  BY ArrivalsAssumption
<1>2. /\ \A a \in ReceivedItems(batch[k]) : IsItem(a) /\ a.tableAssignedAt = None
      /\ KeysOf(ReceivedItems(batch[k])) = {<<batch[k].order, line.index>> : line \in batch[k].lines}
  BY <1>1, ItemsOfOrder DEF ReceivedItems
<1>3. {<<batch[k].order, line.index>> : line \in batch[k].lines} \subseteq PosKeys
  <2>1. OrderKeys(batch[k].order, batch[k].lines) \subseteq BatchKeys(batch)
    BY DEF BatchKeys
  <2>2. BatchKeys(batch) \subseteq PosKeys
    BY DEF PosKeys
  <2> QED
    BY <2>1, <2>2 DEF OrderKeys
<1> QED
  BY <1>2, <1>3

\* What is carried from record to record.
Carried(s, acc) ==
  /\ DOMAIN acc = {"items", "last"}
  /\ ItemsSound(acc.items, s.timers) /\ KeysOf(acc.items) \subseteq PosKeys
  /\ ListFits => \A i \in s.items : Touched(i, s.timers) => Stays(i, acc.items)

LEMMA RecordCarries ==
  ASSUME NEW s, NEW acc, Carried(s, acc), NEW batch \in Batches, NEW k \in 1..Len(batch)
  PROVE  Carried(s, ReceiveRecord(acc, batch[k], s.timers))
<1> DEFINE r == batch[k]
           arrived == UpsertOrder(acc.items, s.timers, ReceivedItems(r))
           removed == RemoveOrder(acc.items, s.timers, r.order)
           next == ReceiveRecord(acc, r, s.timers)
           items == IF r.lines # {} THEN arrived ELSE removed
           last == [acc.last EXCEPT ![r.terminal] = r.sequence]
<1>1. /\ \A a \in ReceivedItems(r) : IsItem(a) /\ a.tableAssignedAt = None
      /\ KeysOf(ReceivedItems(r)) \subseteq PosKeys
  BY RecordItems
<1>2. /\ ItemsSound(arrived, s.timers) /\ KeysOf(arrived) \subseteq PosKeys
      /\ ListFits => \A i \in acc.items : Touched(i, s.timers) => Stays(i, arrived)
  BY <1>1, UpsertSound, UpsertKeys, UpsertKeeps DEF Carried
<1>3. /\ ItemsSound(removed, s.timers) /\ KeysOf(removed) \subseteq PosKeys
      /\ \A i \in acc.items : Touched(i, s.timers) => Stays(i, removed)
  BY RemoveSound, RemoveKeeps DEF Carried
<1>4. next = acc \/ (DOMAIN next = {"items", "last"} /\ next.items = items)
  <2>1. next = acc \/ next = [acc EXCEPT !.last = last, !.items = items]
    BY DEF ReceiveRecord, Carried
  <2> HIDE DEF next, items, last
  <2> QED
    BY <2>1 DEF Carried
<1>5. /\ ItemsSound(items, s.timers) /\ KeysOf(items) \subseteq PosKeys
      /\ ListFits => \A i \in acc.items : Touched(i, s.timers) => Stays(i, items)
  <2> HIDE DEF arrived, removed
  <2> QED
    BY <1>2, <1>3
<1> HIDE DEF next, items
<1>6. ListFits => \A i \in s.items : Touched(i, s.timers) => Stays(i, items)
  <2> SUFFICES ASSUME ListFits, NEW i \in s.items, Touched(i, s.timers) PROVE Stays(i, items)
    OBVIOUS
  <2>1. PICK j \in acc.items : /\ Key(j) = Key(i) /\ j.arrival = i.arrival
                               /\ i.completedAt # None => j.completedAt # None
    BY DEF Carried, Stays
  <2>2. Touched(j, s.timers)
    BY <2>1, StaysTouched
  <2>3. Stays(j, items)
    BY <1>5, <2>1, <2>2
  <2> QED
    BY <2>1, <2>3 DEF Stays
<1>7. Carried(s, next)
  BY <1>4, <1>5, <1>6 DEF Carried
<1> QED
  BY <1>7 DEF next

LEMMA BatchCarries ==
  ASSUME NEW s, ItemsSound(s.items, s.timers), KeysOf(s.items) \subseteq PosKeys, NEW batch \in Batches
  PROVE  \A k \in 0..Len(batch) : Carried(s, AfterRecords(s, batch)[k])
<1> DEFINE f == AfterRecords(s, batch)
           T == {k \in 0..Len(batch) : ~Carried(s, f[k])}
<1>0. Len(batch) \in Nat
  BY ArrivalsAssumption
<1>1. /\ f[0] = [items |-> s.items, last |-> s.last]
      /\ \A k \in 1..Len(batch) : f[k] = ReceiveRecord(f[k - 1], batch[k], s.timers)
  BY <1>0, ReceivedUnfolds
<1> HIDE DEF f
<1>2. Carried(s, f[0])
  BY <1>1 DEF Carried, Stays
<1>3. T = {}
  <2> SUFFICES ASSUME T # {} PROVE FALSE
    OBVIOUS
  <2>0. T \subseteq Nat
    BY <1>0
  <2>1. PICK m \in T : \A k \in T : m <= k
    <3> HIDE DEF T
    <3> QED
      BY <2>0, LeastNumber
  <2>2. m # 0 /\ m \in 1..Len(batch) /\ m - 1 \in 0..Len(batch)
    BY <1>0, <1>2, <2>1
  <2>3. Carried(s, f[m - 1])
    BY <1>0, <2>1, <2>2
  <2>4. Carried(s, f[m])
    BY <1>1, <2>2, <2>3, RecordCarries
  <2> QED
    BY <2>1, <2>4
<1> QED
  BY <1>3 DEF f

-----------------------------------------------------------------------------
(* One lemma per event.                                                    *)

\* The list of a state is sound and of the POS.
ItemsIn(s) == ItemsSound(s.items, s.timers) /\ KeysOf(s.items) \subseteq PosKeys

\* A move keeps that, and what the kitchen has done.
Moves(s, new) ==
  /\ ItemsIn(new)
  /\ ListFits => \A i \in s.items : Touched(i, s.timers) => Stays(i, new.items)

\* What an item is to the timers.
SameRef(u, i) ==
  /\ Key(u) = Key(i) /\ u.arrival = i.arrival
  /\ i.completedAt # None => u.completedAt # None

\* The list is left alone and no timer gets another item or another table.
LEMMA TimersMove ==
  ASSUME NEW s, ItemsIn(s), NEW new, new.items = s.items,
         \A u \in new.timers : \E t \in s.timers : u.item = t.item /\ u.table = t.table
  PROVE  Moves(s, new)
<1>1. TablesShared(new.items, new.timers)
  BY DEF ItemsIn, ItemsSound, TablesShared, RefersTo
<1>2. \A i \in s.items : Stays(i, new.items)
  BY DEF Stays
<1> QED
  BY <1>1, <1>2 DEF ItemsIn, ItemsSound, Moves

\* sync.ts, fire.ts: the timers keep their items and tables.
LEMMA SettleMoves ==
  ASSUME NEW s, ItemsIn(s), Sound(s), NEW cfg
  PROVE  Moves(s, Settle(s, cfg))
<1> DEFINE adj(t) == AdjustmentOf(Boil(t), Boils(s.timers), cfg)
           f(t) == IF t.boiledAt = None THEN [t EXCEPT !.adjustment = adj(t)] ELSE t
           new == Settle(s, cfg)
<1>1. new.items = s.items /\ new.timers = {f(t) : t \in s.timers}
  BY DEF Settle, Synchronize, Sound, IsState
<1>2. \A t \in s.timers : f(t).item = t.item /\ f(t).table = t.table
  <2> HIDE DEF adj
  <2> QED BY DEF Sound, IsState, IsTimer
<1> HIDE DEF f, new
<1>3. Moves(s, new)
  BY <1>1, <1>2, TimersMove
<1> QED
  BY <1>3 DEF new

LEMMA FireMoves ==
  ASSUME NEW s, ItemsIn(s), Sound(s), NEW at, NEW cfg
  PROVE  Moves(s, FireDueTimers(s, at, cfg))
<1> DEFINE drained == Drain(s.timers, at, cfg)
           final(t) == CHOOSE u \in drained : u.seq = t.seq
           boiled(t) == IF t.boiledAt = None /\ final(t).boiledAt # None THEN at ELSE t.boiledAt
           f(t) == [t EXCEPT !.boiledAt = boiled(t), !.adjustment = final(t).adjustment]
           new == FireDueTimers(s, at, cfg)
<1>1. new.items = s.items /\ new.timers = {f(t) : t \in s.timers}
  BY DEF FireDueTimers, Sound, IsState
<1>2. \A t \in s.timers : f(t).item = t.item /\ f(t).table = t.table
  <2> HIDE DEF final
  <2> QED BY DEF Sound, IsState, IsTimer
<1> HIDE DEF f, new
<1>3. Moves(s, new)
  BY <1>1, <1>2, TimersMove
<1> QED
  BY <1>3 DEF new

LEMMA AdjustMoves ==
  ASSUME NEW s, ItemsIn(s), Sound(s), NEW seq, NEW firmness
  PROVE  Moves(s, AdjustTimer(s, seq, firmness))
<1> DEFINE f(t) == IF t.seq = seq
                   THEN [t EXCEPT !.firmness = firmness,
                                  !.endTime = t.startTime + BoilTime[firmness]]
                   ELSE t
           new == AdjustTimer(s, seq, firmness)
<1>1. new.items = s.items /\ new.timers = {f(t) : t \in s.timers}
  BY DEF AdjustTimer, Sound, IsState
<1>2. \A t \in s.timers : f(t).item = t.item /\ f(t).table = t.table
  BY DEF Sound, IsState, IsTimer
<1> HIDE DEF f, new
<1>3. Moves(s, new)
  BY <1>1, <1>2, TimersMove
<1> QED
  BY <1>3 DEF new

\* decide.ts: the events come down to what they move.
LEMMA DecideMoves ==
  ASSUME NEW s, ItemsIn(s), NEW moved, Sound(moved), Moves(s, moved), NEW cfg
  PROVE  Moves(s, Decide(s, moved, cfg))
<1>1. Moves(s, s)
  BY DEF Moves, Stays
<1>2. Moves(moved, Settle(moved, cfg)) /\ Settle(moved, cfg).items = moved.items
  BY SettleMoves DEF Moves, Settle, Sound, IsState
<1>3. Moves(s, Settle(moved, cfg))
  BY <1>2 DEF Moves
<1> QED
  BY <1>1, <1>3 DEF Decide

\* start.ts: the new timer takes the table of its item.
LEMMA StartMoves ==
  ASSUME NEW s, ItemsIn(s), Sound(s), NEW slots, NEW duration, NEW at
  PROVE  Moves(s, StartTimer(s, slots, duration, at))
<1> DEFINE added == [seq |-> s.nextSeq, slots |-> slots, firmness |-> DefaultFirmness,
                     startTime |-> at, endTime |-> at + duration,
                     boiledAt |-> None, adjustment |-> 0, item |-> None, table |-> None]
           new == StartTimer(s, slots, duration, at)
<1>1. new.items = s.items /\ new.timers = s.timers \cup {added} /\ added.item = None
  BY DEF StartTimer, AddTimer, Sound, IsState
<1> HIDE DEF added, new
<1>2. TablesShared(new.items, new.timers)
  BY <1>1 DEF ItemsIn, ItemsSound, TablesShared, RefersTo
<1>3. \A i \in s.items : Stays(i, new.items)
  BY <1>1 DEF Stays
<1>4. Moves(s, new)
  BY <1>1, <1>2, <1>3 DEF ItemsIn, ItemsSound, Moves
<1> QED
  BY <1>4 DEF new

LEMMA StartItemMoves ==
  ASSUME NEW s, ItemsIn(s), Sound(s), NEW slots, NEW key, NEW at,
         CanStartOrderItem(s, slots, key, at)
  PROVE  Moves(s, StartOrderItem(s, slots, key, at))
<1> DEFINE item == ItemAt(s, key)
           added == [seq |-> s.nextSeq, slots |-> slots, firmness |-> item.firmness,
                     startTime |-> at, endTime |-> at + BoilTime[item.firmness],
                     boiledAt |-> None, adjustment |-> 0, item |-> key, table |-> item.table]
           new == StartOrderItem(s, slots, key, at)
<1>1. /\ new.items = s.items /\ new.timers = s.timers \cup {added}
      /\ added.item = key /\ added.table = item.table
  BY DEF StartOrderItem, AddTimer, Sound, IsState
<1>2. item \in s.items /\ Key(item) = key
  BY DEF CanStartOrderItem, PendingOrders, ItemAt
<1> HIDE DEF item, added, new
<1>3. TablesShared(new.items, new.timers)
  BY <1>1, <1>2 DEF ItemsIn, ItemsSound, UniqueKeys, TablesShared, RefersTo
<1>4. \A i \in s.items : Stays(i, new.items)
  BY <1>1 DEF Stays
<1>5. Moves(s, new)
  BY <1>1, <1>3, <1>4 DEF ItemsIn, ItemsSound, Moves
<1> QED
  BY <1>5 DEF new

\* Items marked in place and timers taken off: cancel and complete.
LEMMA MarkedMoves ==
  ASSUME NEW s, ItemsIn(s), NEW new, new.timers \subseteq s.timers, NEW mark,
         new.items = {mark[i] : i \in s.items},
         \A i \in s.items :
           /\ IsItem(mark[i]) /\ Key(mark[i]) = Key(i) /\ mark[i].arrival = i.arrival
           /\ mark[i].table = i.table /\ mark[i].tableAssignedAt = i.tableAssignedAt
           /\ i.completedAt # None => mark[i].completedAt # None
  PROVE  Moves(s, new)
<1>1. \A u \in new.items : IsItem(u)
  OBVIOUS
<1>2. UniqueKeys(new.items)
  BY DEF ItemsIn, ItemsSound, UniqueKeys
<1>3. TablesShared(new.items, new.timers)
  BY DEF ItemsIn, ItemsSound, TablesShared, RefersTo
<1>4. KeysOf(new.items) \subseteq PosKeys
  BY DEF ItemsIn, KeysOf
<1>5. \A i \in s.items : Stays(i, new.items)
  BY DEF Stays
<1> QED
  BY <1>1, <1>2, <1>3, <1>4, <1>5 DEF ItemsIn, ItemsSound, Moves

LEMMA CancelMoves ==
  ASSUME NEW s, ItemsIn(s), Sound(s), NEW seq, NEW at \in Nat
  PROVE  Moves(s, CancelTimer(s, seq, at)) /\ Moves(s, CompleteTimer(s, seq, at))
<1>0. \A i \in s.items : IsItem(i)
  BY DEF ItemsIn, ItemsSound
<1>1. Moves(s, CancelTimer(s, seq, at))
  <2> DEFINE mark == [i \in s.items |-> IF IsSource(s, seq, i) THEN [i EXCEPT !.interruptedAt = at] ELSE i]
             new == CancelTimer(s, seq, at)
  <2>1. new.items = {mark[i] : i \in s.items} /\ new.timers = Without(s.timers, seq)
    BY DEF CancelTimer, Sound, IsState
  <2>2. \A i \in s.items :
          /\ IsItem(mark[i]) /\ Key(mark[i]) = Key(i) /\ mark[i].arrival = i.arrival
          /\ mark[i].table = i.table /\ mark[i].tableAssignedAt = i.tableAssignedAt
          /\ i.completedAt # None => mark[i].completedAt # None
    BY <1>0 DEF IsItem, Key
  <2> HIDE DEF mark, new
  <2>3. Moves(s, new)
    BY <2>1, <2>2, MarkedMoves DEF Without
  <2> QED
    BY <2>3 DEF new
<1>2. Moves(s, CompleteTimer(s, seq, at))
  <2> DEFINE mark == [i \in s.items |-> IF IsSource(s, seq, i) THEN [i EXCEPT !.completedAt = at] ELSE i]
             new == CompleteTimer(s, seq, at)
  <2>1. new.items = {mark[i] : i \in s.items} /\ new.timers = Without(s.timers, seq)
    BY DEF CompleteTimer, Sound, IsState
  <2>2. \A i \in s.items :
          /\ IsItem(mark[i]) /\ Key(mark[i]) = Key(i) /\ mark[i].arrival = i.arrival
          /\ mark[i].table = i.table /\ mark[i].tableAssignedAt = i.tableAssignedAt
          /\ i.completedAt # None => mark[i].completedAt # None
    BY <1>0, StoreEngineAssumption DEF IsItem, Key
  <2> HIDE DEF mark, new
  <2>3. Moves(s, new)
    BY <2>1, <2>2, MarkedMoves DEF Without
  <2> QED
    BY <2>3 DEF new
<1> QED
  BY <1>1, <1>2

\* assign-table.ts: the item and its timer take the table together.
LEMMA AssignMoves ==
  ASSUME NEW s, ItemsIn(s), Sound(s), NEW key, NEW table, NEW at
  PROVE  Moves(s, AssignTable(s, key, table, at))
<1> DEFINE f(i) == IF Key(i) = key THEN [i EXCEPT !.table = table, !.tableAssignedAt = at] ELSE i
           g(t) == IF t.item = key THEN [t EXCEPT !.table = table] ELSE t
           new == AssignTable(s, key, table, at)
<1>0. /\ \A i \in s.items : IsItem(i)
      /\ \A t \in s.timers : IsTimer(t)
  BY DEF ItemsIn, ItemsSound, Sound, IsState
<1>1. new.items = {f(i) : i \in s.items} /\ new.timers = {g(t) : t \in s.timers}
  BY DEF AssignTable, Sound, IsState
<1>2. \A i \in s.items :
        /\ IsItem(f(i)) /\ Key(f(i)) = Key(i) /\ f(i).arrival = i.arrival
        /\ f(i).completedAt = i.completedAt
        /\ IF Key(i) = key THEN f(i).table = table ELSE f(i) = i
  BY <1>0 DEF IsItem, Key
<1>3. \A t \in s.timers : /\ g(t).item = t.item
                         /\ IF t.item = key THEN g(t).table = table ELSE g(t) = t
  BY <1>0 DEF IsTimer
<1> HIDE DEF f, g, new
<1>4. UniqueKeys(new.items)
  BY <1>1, <1>2 DEF ItemsIn, ItemsSound, UniqueKeys
<1>5. TablesShared(new.items, new.timers)
  <2> SUFFICES ASSUME NEW i \in s.items, NEW t \in s.timers,
                      RefersTo(g(t), f(i)), f(i).tableAssignedAt # None
               PROVE  g(t).table = f(i).table
    BY <1>1 DEF TablesShared
  <2>1. t.item # None /\ t.item = Key(i)
    BY <1>2, <1>3 DEF RefersTo
  <2> QED
    BY <1>2, <1>3, <2>1 DEF ItemsIn, ItemsSound, TablesShared, RefersTo
<1>6. KeysOf(new.items) \subseteq PosKeys /\ \A u \in new.items : IsItem(u)
  BY <1>1, <1>2 DEF ItemsIn, KeysOf
<1>7. \A i \in s.items : Stays(i, new.items)
  BY <1>1, <1>2 DEF Stays
<1>8. Moves(s, new)
  BY <1>4, <1>5, <1>6, <1>7 DEF ItemsIn, ItemsSound, Moves
<1> QED
  BY <1>8 DEF new

\* receive.ts, pending.ts: orders one by one and in batches.
LEMMA PostMoves ==
  ASSUME NEW s, ItemsIn(s), Sound(s), NEW post \in Posts, NEW at \in Nat
  PROVE  Moves(s, PostOrder(s, post, at))
<1> DEFINE new == PostOrder(s, post, at)
           arrival == {ToOrderItem(post.order, line, at) : line \in post.lines}
<1>1. /\ new.timers = s.timers
      /\ new.items = IF post.lines = {} THEN RemoveOrder(s.items, s.timers, post.order)
                     ELSE UpsertOrder(s.items, s.timers, arrival)
  BY DEF PostOrder, CancelOrder, ArriveOrder, Sound, IsState
<1>2. post.order \in Nat /\ \A line \in post.lines : line.index \in Nat
  BY ArrivalsAssumption
<1>3. OrderKeys(post.order, post.lines) \subseteq PosKeys
  BY DEF PosKeys
<1>4. /\ \A a \in arrival : IsItem(a) /\ a.tableAssignedAt = None
      /\ KeysOf(arrival) \subseteq PosKeys
  BY <1>2, <1>3, ItemsOfOrder DEF OrderKeys
<1> HIDE DEF new, arrival
<1>5. CASE post.lines = {}
  <2>1. ItemsSound(new.items, new.timers) /\ KeysOf(new.items) \subseteq PosKeys
    BY <1>1, <1>5, RemoveSound, RemoveKeeps DEF ItemsIn
  <2>2. \A i \in s.items : Touched(i, s.timers) => Stays(i, new.items)
    BY <1>1, <1>5, RemoveKeeps
  <2> QED
    BY <2>1, <2>2 DEF Moves, ItemsIn, new
<1>6. CASE post.lines # {}
  <2>1. ItemsSound(new.items, new.timers) /\ KeysOf(new.items) \subseteq PosKeys
    BY <1>1, <1>4, <1>6, UpsertSound, UpsertKeys DEF ItemsIn
  <2>2. ListFits => \A i \in s.items : Touched(i, s.timers) => Stays(i, new.items)
    BY <1>1, <1>4, <1>6, UpsertKeeps DEF ItemsIn
  <2> QED
    BY <2>1, <2>2 DEF Moves, ItemsIn, new
<1> QED
  BY <1>5, <1>6

LEMMA RecordsMove ==
  ASSUME NEW s, ItemsIn(s), Sound(s), NEW batch \in Batches
  PROVE  Moves(s, ArriveRecords(s, batch))
<1> DEFINE end == AfterRecords(s, batch)[Len(batch)]
           new == ArriveRecords(s, batch)
<1>1. new.timers = s.timers /\ new.items = end.items
  BY DEF ArriveRecords, Sound, IsState
<1>2. Carried(s, end)
  BY BatchCarries, ArrivalsAssumption DEF ItemsIn
<1> HIDE DEF end, new
<1>3. Moves(s, new)
  BY <1>1, <1>2 DEF Carried, ItemsIn, Moves
<1> QED
  BY <1>3 DEF new

-----------------------------------------------------------------------------
(* The steps of the object.                                                *)

\* An event moves the stored state or leaves it.
LEMMA StoredMoves ==
  ASSUME Parts, ItemsIn(disk), NEW moved, Sound(moved), Moves(disk, moved), NEW at,
         RunEffects(disk, Decide(disk, moved, Cfg), at)
  PROVE  Moves(disk, disk')
<1> DEFINE next == Decide(disk, moved, Cfg)
<1>1. Moves(disk, disk) /\ Moves(disk, next)
  BY DecideMoves DEF Moves, Stays
<1>2. RunEffects(disk, next, at)
  OBVIOUS
<1> HIDE DEF next
<1>3. disk' \in {disk, next}
  BY <1>2 DEF RunEffects, NothingChanged, Persists, PersistFails
<1> QED
  BY <1>1, <1>3

LEMMA HandledMoves ==
  ASSUME Parts, ItemsIn(disk), Idle, NEW moved, Sound(moved), Moves(disk, moved), NEW at,
         Handle(moved, at)
  PROVE  Moves(disk, disk')
<1>1. mem = disk
  BY DEF Parts, MemoryIsDurable, Idle
<1> QED
  BY <1>1, StoredMoves DEF Handle

LEMMA FiredMoves ==
  ASSUME Parts, ItemsIn(disk), Construct \/ AlarmFires
  PROVE  Moves(disk, disk')
<1>1. now \in Nat /\ Sound(disk)
  BY DEF Parts, Control
<1>2. Sound(FireDueTimers(disk, now, Cfg)) /\ Moves(disk, FireDueTimers(disk, now, Cfg))
  BY <1>1, FireSound, FireMoves
<1>3. RunEffects(disk, Decide(disk, FireDueTimers(disk, now, Cfg), Cfg), now)
  <2>1. CASE Construct
    BY <2>1 DEF Construct
  <2>2. CASE AlarmFires
    <3>1. mem = disk
      BY <2>2 DEF AlarmFires, Idle, Parts, MemoryIsDurable
    <3> QED
      BY <2>2, <3>1 DEF AlarmFires, RunEffects
  <2> QED
    BY <2>1, <2>2
<1> QED
  BY <1>2, <1>3, StoredMoves

LEMMA CommandMoves ==
  ASSUME Parts, ItemsIn(disk),
         \/ \E slots \in SlotSets : \/ \E d \in Durations : Start(slots, d)
                                    \/ \E key \in Keys : StartItem(slots, key)
         \/ \E seq \in 0..(MaxStarts - 1) : \/ Cancel(seq) \/ Complete(seq)
                                            \/ \E f \in DOMAIN BoilTime : Adjust(seq, f)
         \/ \E key \in Keys, table \in Tables : Assign(key, table)
  PROVE  Moves(disk, disk')
<1>1. now \in Nat /\ Sound(disk)
  BY DEF Parts, Control
<1>2. Idle => mem = disk
  BY DEF Parts, MemoryIsDurable, Idle
<1>3. ASSUME NEW slots \in SlotSets, NEW d \in Durations, Start(slots, d)
      PROVE  Moves(disk, disk')
  BY <1>1, <1>2, <1>3, StartSound, StartMoves, HandledMoves DEF Start, FromClient
<1>4. ASSUME NEW slots \in SlotSets, NEW key \in Keys, StartItem(slots, key)
      PROVE  Moves(disk, disk')
  BY <1>1, <1>2, <1>4, StartItemSound, StartItemMoves, HandledMoves DEF StartItem, FromClient
<1>5. ASSUME NEW seq \in 0..(MaxStarts - 1), Cancel(seq) \/ Complete(seq)
      PROVE  Moves(disk, disk')
  BY <1>1, <1>2, <1>5, CancelSound, CancelMoves, HandledMoves DEF Cancel, Complete, FromClient
<1>6. ASSUME NEW seq \in 0..(MaxStarts - 1), NEW f \in DOMAIN BoilTime, Adjust(seq, f)
      PROVE  Moves(disk, disk')
  BY <1>1, <1>2, <1>6, AdjustSound, AdjustMoves, HandledMoves DEF Adjust, FromClient
<1>7. ASSUME NEW key \in Keys, NEW table \in Tables, Assign(key, table)
      PROVE  Moves(disk, disk')
  BY <1>1, <1>2, <1>7, AssignSound, AssignMoves, HandledMoves DEF Assign, FromClient
<1> QED
  BY <1>3, <1>4, <1>5, <1>6, <1>7

LEMMA OrdersMove ==
  ASSUME Parts, ItemsIn(disk), PostEnds \/ \E batch \in Batches : ReceiveRecords(batch)
  PROVE  Moves(disk, disk')
<1>1. Sound(disk) /\ (Idle => mem = disk)
  BY DEF Parts, MemoryIsDurable, Idle
<1>2. CASE PostEnds
  <2>1. posting.post \in Posts /\ posting.at \in Nat
    BY <1>2 DEF PostEnds, Parts, Control
  <2>2. Sound(PostOrder(disk, posting.post, posting.at))
    BY <1>1, OrdersSound DEF PostOrder
  <2>3. Moves(disk, PostOrder(disk, posting.post, posting.at))
    BY <1>1, <2>1, PostMoves
  <2> QED
    BY <1>1, <1>2, <2>2, <2>3, HandledMoves DEF PostEnds
<1>3. ASSUME NEW batch \in Batches, ReceiveRecords(batch) PROVE Moves(disk, disk')
  BY <1>1, <1>3, OrdersSound, RecordsMove, HandledMoves DEF ReceiveRecords
<1> QED
  BY <1>2, <1>3

LEMMA StepMoves ==
  ASSUME Parts, ItemsIn(disk), [Next]_vars
  PROVE  Moves(disk, disk')
<1>1. CASE UNCHANGED disk
  BY <1>1 DEF Moves, Stays
<1>2. CASE UNCHANGED vars
  BY <1>1, <1>2 DEF vars
<1>3. CASE \/ Tick \/ RunSideEffects \/ Hibernate \/ Crash \/ Connect \/ Disconnect
           \/ \E post \in Posts : PostBegins(post)
           \/ \E p \in Projections : ApplyProjection(p)
  BY <1>1, <1>3 DEF Tick, RunSideEffects, Hibernate, Crash, Connect, Disconnect, PostBegins,
                    ApplyProjection
<1> QED
  BY <1>2, <1>3, FiredMoves, CommandMoves, OrdersMove DEF Next

-----------------------------------------------------------------------------
(* The theorems about items.                                               *)

\* The inductive invariant.
ItemsInv == StoreInv /\ ItemsIn(disk)

THEOREM ItemsInvHolds == Spec => []ItemsInv
<1>1. Init => ItemsIn(disk)
  BY DEF Init, EmptyState, ItemsIn, ItemsSound, UniqueKeys, TablesShared, KeysOf
<1>2. StoreInv /\ ItemsIn(disk) /\ [Next]_vars => ItemsIn(disk)'
  BY StepMoves, StoreInvParts DEF Moves
<1> QED
  BY <1>1, <1>2, Invariance, PTL DEF Spec, ItemsInv

\* The kettle and the list agree on the table the store has decided (assign-table.ts).
THEOREM AssignedTableSharedHolds == Spec => []AssignedTableShared
<1>1. ItemsInv => AssignedTableShared
  BY DEF ItemsInv, ItemsIn, ItemsSound, TablesShared, AssignedTableShared
<1> QED
  BY <1>1, ItemsInvHolds, PTL

\* Of a list within its limit nothing that cooks or is done is lost or undone (pending.ts).
THEOREM KitchenFactsKeptHolds == ListFits => (Spec => KitchenFactsKept)
<1> SUFFICES ASSUME ListFits PROVE Spec => KitchenFactsKept
  OBVIOUS
<1>1. ItemsInv /\ [Next]_vars =>
        [\A i \in disk.items : ItemStatus(i, disk.timers) # "unstarted" =>
           \E j \in disk'.items :
             /\ Key(j) = Key(i) /\ j.arrival = i.arrival
             /\ i.completedAt # None => j.completedAt # None]_vars
  BY StepMoves, StoreInvParts DEF ItemsInv, Moves, Stays, Touched
<1> QED
  BY <1>1, ItemsInvHolds, PTL DEF Spec, KitchenFactsKept

-----------------------------------------------------------------------------
(* The newest record of a terminal is what the list shows.                 *)

\* The records that the registry may send.
Records == UNION {{batch[k] : k \in 1..Len(batch)} : batch \in Batches}

\* What the POS sends: a terminal numbers its records one by one, an order is of one
\* terminal and has every line once, and is not posted over HTTP as well.
PosIsOrderly ==
  /\ \A batch \in Batches : DOMAIN batch = 1..Len(batch)
  /\ \A r \in Records :
       /\ r.terminal \in Terminals /\ r.sequence \in Nat
       /\ \A line, other \in r.lines : line.index = other.index => line = other
       /\ \A post \in Posts : post.order # r.order
       /\ \A q \in Records : /\ r.terminal = q.terminal /\ r.sequence = q.sequence => r = q
                             /\ r.order = q.order => r.terminal = q.terminal

\* Neither cooked nor done, nor ever in a kettle.
Waits(i, timers) == i.interruptedAt = None /\ ItemStatus(i, timers) = "unstarted"

\* The list shows record r.
RecordShows(r, items, timers) ==
  /\ \A line \in r.lines : \E i \in items :
       Key(i) = <<r.order, line.index>> /\ i.firmness = line.firmness
  /\ \A i \in items : i.order = r.order /\ Waits(i, timers) => \E line \in r.lines : line.index = i.index

\* What changes leaves the lines of an order, and brings none that wait.
Leaves(order, items, timers, new, kettles) ==
  /\ \A i \in items : i.order = order => \E u \in new : Key(u) = Key(i) /\ u.firmness = i.firmness
  /\ \A u \in new : u.order = order /\ Waits(u, kettles) =>
       \E i \in items : Key(i) = Key(u) /\ Waits(i, timers)

LEMMA LeavesShowing ==
  ASSUME NEW r, NEW items, NEW timers, NEW new, NEW kettles,
         Leaves(r.order, items, timers, new, kettles), RecordShows(r, items, timers)
  PROVE  RecordShows(r, new, kettles)
<1>1. ASSUME NEW line \in r.lines
      PROVE  \E u \in new : Key(u) = <<r.order, line.index>> /\ u.firmness = line.firmness
  <2>1. PICK i \in items : Key(i) = <<r.order, line.index>> /\ i.firmness = line.firmness
    BY DEF RecordShows
  <2>2. i.order = r.order
    BY <2>1 DEF Key
  <2> QED
    BY <2>1, <2>2 DEF Leaves
<1>2. ASSUME NEW u \in new, u.order = r.order, Waits(u, kettles)
      PROVE  \E line \in r.lines : line.index = u.index
  <2>1. PICK i \in items : Key(i) = Key(u) /\ Waits(i, timers)
    BY <1>2 DEF Leaves
  <2>2. i.order = r.order /\ i.index = u.index
    BY <1>2, <2>1 DEF Key
  <2> QED
    BY <2>1, <2>2 DEF RecordShows
<1> QED
  BY <1>1, <1>2 DEF RecordShows

-----------------------------------------------------------------------------
(* Orders come in.                                                         *)

\* The other orders stay as they are.
LEMMA OthersStay ==
  ASSUME ListFits, NEW items, NEW timers, ItemsSound(items, timers), KeysOf(items) \subseteq PosKeys,
         NEW order, NEW arrival,
         \A a \in arrival : IsItem(a) /\ a.tableAssignedAt = None /\ a.order = order,
         KeysOf(arrival) \subseteq PosKeys
  PROVE  /\ UpsertOrder(items, timers, arrival) = Merged(items, timers, arrival)
         /\ \A i : i.order # order => (i \in UpsertOrder(items, timers, arrival) <=> i \in items)
<1> DEFINE m == Merged(items, timers, arrival)
           updated(i) == WithOrderAttributes(i, Arrived(arrival, Key(i)))
           fresh(key) == [Arrived(arrival, key) EXCEPT !.arrival = FirstArrival(items, Arrived(arrival, key))]
<1>1. /\ \A u \in m : /\ IsItem(u)
                      /\ (\E i \in items : SameItem(u, i)) \/ Key(u) \in KeysOf(arrival)
      /\ UniqueKeys(m)
  BY MergedItems DEF ItemsSound
<1>2. KeysOf(m) \subseteq PosKeys
  <2> HIDE DEF m
  <2> QED
    BY <1>1 DEF KeysOf, SameItem
<1>3. UpsertOrder(items, timers, arrival) = m
  BY <1>1, <1>2, NothingIsDropped, UpsertIsMerged
<1>4. \A key \in KeysOf(arrival) : key[1] = order
  BY DEF KeysOf, Key
<1>5. \A i \in items : Key(i) \in KeysOf(arrival) => i.order = order /\ updated(i).order = order
  <2> SUFFICES ASSUME NEW i \in items, Key(i) \in KeysOf(arrival)
               PROVE  i.order = order /\ updated(i).order = order
    OBVIOUS
  <2>1. i.order = order
    BY <1>4 DEF Key
  <2> QED
    BY <2>1 DEF WithOrderAttributes, ItemsSound, IsItem
<1>6. \A key \in KeysOf(arrival) : fresh(key).order = order
  BY ArrivedIsOne DEF IsItem
<1>7. \A i \in items : i.order # order => i \in m
  BY <1>5 DEF Merged
<1>8. \A u \in m : u.order # order => u \in items
  BY <1>5, <1>6 DEF Merged
<1> HIDE DEF m
<1> QED
  BY <1>3, <1>7, <1>8 DEF m

\* The order itself has just its lines, apart from what cooks or is done.
LEMMA OrderShows ==
  ASSUME ListFits, NEW items, NEW timers, ItemsSound(items, timers), KeysOf(items) \subseteq PosKeys,
         NEW r \in Records, PosIsOrderly, NEW at, r.lines # {},
         NEW arrival, \A a : a \in arrival <=> \E line \in r.lines : a = ToOrderItem(r.order, line, at),
         \A a \in arrival : IsItem(a) /\ a.tableAssignedAt = None,
         KeysOf(arrival) \subseteq PosKeys
  PROVE  RecordShows(r, UpsertOrder(items, timers, arrival), timers)
<1> DEFINE m == Merged(items, timers, arrival)
           updated(i) == WithOrderAttributes(i, Arrived(arrival, Key(i)))
           fresh(key) == [Arrived(arrival, key) EXCEPT !.arrival = FirstArrival(items, Arrived(arrival, key))]
           has(u, line) == Key(u) = <<r.order, line.index>> /\ u.firmness = line.firmness
           item(line) == ToOrderItem(r.order, line, at)
<1>1. /\ \A line \in r.lines : /\ item(line) \in arrival /\ Key(item(line)) = <<r.order, line.index>>
                               /\ item(line).order = r.order /\ item(line).firmness = line.firmness
      /\ \A a \in arrival : \E line \in r.lines : a = item(line)
  BY DEF ToOrderItem, Key
<1> HIDE DEF item
<1>2. \A line \in r.lines :
        /\ <<r.order, line.index>> \in KeysOf(arrival)
        /\ Arrived(arrival, <<r.order, line.index>>).firmness = line.firmness
  <2> SUFFICES ASSUME NEW line \in r.lines
               PROVE  /\ <<r.order, line.index>> \in KeysOf(arrival)
                      /\ Arrived(arrival, <<r.order, line.index>>).firmness = line.firmness
    OBVIOUS
  <2> DEFINE a == Arrived(arrival, <<r.order, line.index>>)
  <2>1. <<r.order, line.index>> \in KeysOf(arrival)
    BY <1>1 DEF KeysOf
  <2>2. a \in arrival /\ Key(a) = <<r.order, line.index>>
    BY <2>1, ArrivedIsOne
  <2> HIDE DEF a
  <2>3. PICK other \in r.lines : a = item(other)
    BY <1>1, <2>2
  <2>4. other.index = line.index
    BY <1>1, <2>2, <2>3
  <2>5. other = line
    BY <2>4 DEF PosIsOrderly
  <2>6. a.firmness = line.firmness
    BY <1>1, <2>3, <2>5
  <2> QED
    BY <2>1, <2>6 DEF a
<1>3. \A a \in arrival : a.order = r.order
  BY <1>1
<1>4. UpsertOrder(items, timers, arrival) = m
  <2>1. \A a \in arrival : IsItem(a) /\ a.tableAssignedAt = None /\ a.order = r.order
    BY <1>3
  <2> QED
    BY <2>1, OthersStay
<1>5. ASSUME NEW line \in r.lines PROVE \E u \in m : has(u, line)
  <2> DEFINE key == <<r.order, line.index>>
  <2>1. CASE \E i \in items : Key(i) = key
    <3>1. PICK i \in items : Key(i) = key
      BY <2>1
    <3>2. updated(i) \in m
      BY <1>2, <3>1 DEF Merged
    <3>3. Key(updated(i)) = key /\ updated(i).firmness = line.firmness
      <4>1. IsItem(i)
        BY DEF ItemsSound
      <4>2. Arrived(arrival, Key(i)).firmness = line.firmness
        BY <1>2, <3>1
      <4> QED
        BY <3>1, <4>1, <4>2 DEF WithOrderAttributes, IsItem, Key
    <3> QED
      BY <3>2, <3>3
  <2>2. CASE ~ \E i \in items : Key(i) = key
    <3>1. key \in KeysOf(arrival) \ KeysOf(items)
      BY <1>2, <2>2 DEF KeysOf
    <3>2. fresh(key) \in m
      BY <3>1 DEF Merged
    <3>3. Key(fresh(key)) = key /\ fresh(key).firmness = line.firmness
      <4> DEFINE a == Arrived(arrival, key)
                 first == FirstArrival(items, a)
      <4>1. a \in arrival /\ IsItem(a) /\ Key(a) = key /\ a.firmness = line.firmness
        BY <1>2, <3>1, ArrivedIsOne
      <4>2. fresh(key) = [a EXCEPT !.arrival = first]
        OBVIOUS
      <4> HIDE DEF a, first, fresh
      <4> QED
        BY <4>1, <4>2 DEF IsItem, Key
    <3> QED
      BY <3>2, <3>3
  <2> QED
    BY <2>1, <2>2
<1>6. ASSUME NEW u \in m, u.order = r.order, ItemStatus(u, timers) = "unstarted"
      PROVE  Key(u) \in KeysOf(arrival)
  <2>1. ASSUME NEW i \in items, Key(i) \in KeysOf(arrival), u = updated(i)
        PROVE  Key(u) \in KeysOf(arrival)
    BY <2>1 DEF WithOrderAttributes, ItemsSound, IsItem, Key
  <2>2. ASSUME NEW key \in KeysOf(arrival), u = fresh(key) PROVE Key(u) \in KeysOf(arrival)
    <3> DEFINE a == Arrived(arrival, key)
               first == FirstArrival(items, a)
    <3>1. IsItem(a) /\ Key(a) = key /\ u = [a EXCEPT !.arrival = first]
      BY <2>2, ArrivedIsOne
    <3> HIDE DEF a, first
    <3> QED
      BY <2>2, <3>1 DEF IsItem, Key
  <2>3. ASSUME Key(u) \notin KeysOf(arrival),
               u.order \in {a.order : a \in arrival} => KeepsMissingLine(u, timers)
        PROVE  FALSE
    <3>1. \E a \in arrival : a.order = r.order
      BY <1>1, <1>3
    <3> QED
      BY <1>6, <2>3, <3>1 DEF KeepsMissingLine
  <2> QED
    BY <2>1, <2>2, <2>3 DEF Merged
<1>7. \A key \in KeysOf(arrival) : \E line \in r.lines : key = <<r.order, line.index>>
  <2> SUFFICES ASSUME NEW key \in KeysOf(arrival) PROVE \E line \in r.lines : key = <<r.order, line.index>>
    OBVIOUS
  <2>1. PICK a \in arrival : key = Key(a)
    BY DEF KeysOf
  <2>2. PICK line \in r.lines : a = item(line)
    BY <1>1
  <2> QED
    BY <1>1, <2>1, <2>2
<1> HIDE DEF m
<1>8. ASSUME NEW u \in m, u.order = r.order, Waits(u, timers)
      PROVE  \E line \in r.lines : line.index = u.index
  BY <1>6, <1>7, <1>8 DEF Waits, Key
<1> QED
  BY <1>4, <1>5, <1>8 DEF RecordShows

LEMMA CancelledShows ==
  ASSUME NEW items, NEW timers, NEW r, r.lines = {}
  PROVE  RecordShows(r, RemoveOrder(items, timers, r.order), timers)
BY DEF RecordShows, RemoveOrder, KeepsMissingLine, Waits

-----------------------------------------------------------------------------
(* The records of a batch.                                                 *)

\* The list shows the newest record of every terminal.
NewestShown(items, timers, last) ==
  /\ DOMAIN last = Terminals
  /\ \A r \in Records : last[r.terminal] = r.sequence => RecordShows(r, items, timers)

LEMMA SameShows ==
  ASSUME NEW r, NEW items, NEW timers, NEW new, RecordShows(r, items, timers),
         \A i : i.order = r.order => (i \in new <=> i \in items)
  PROVE  RecordShows(r, new, timers)
<1>1. \A i \in items : Key(i)[1] = i.order
  BY DEF Key
<1> QED
  BY <1>1 DEF RecordShows

LEMMA RecordShown ==
  ASSUME ListFits, PosIsOrderly, NEW s, NEW acc, Carried(s, acc),
         NEW batch \in Batches, NEW k \in 1..Len(batch),
         NewestShown(acc.items, s.timers, acc.last)
  PROVE  LET next == ReceiveRecord(acc, batch[k], s.timers)
         IN  NewestShown(next.items, s.timers, next.last)
<1> DEFINE r == batch[k]
           arrival == ReceivedItems(r)
           items == IF r.lines # {} THEN UpsertOrder(acc.items, s.timers, arrival)
                    ELSE RemoveOrder(acc.items, s.timers, r.order)
           last == [acc.last EXCEPT ![r.terminal] = r.sequence]
           next == ReceiveRecord(acc, r, s.timers)
<1>1. r \in Records
  BY DEF Records
<1>2. CASE ~IsNewerSequence(r.sequence, acc.last[r.terminal])
  BY <1>2 DEF ReceiveRecord
<1>3. CASE IsNewerSequence(r.sequence, acc.last[r.terminal])
  <2>1. next.items = items /\ next.last = last
    <3>1. next = [acc EXCEPT !.last = last, !.items = items]
      BY <1>3 DEF ReceiveRecord, Carried
    <3> HIDE DEF next, items, last
    <3> QED
      BY <3>1 DEF Carried
  <2>2. /\ \A a \in arrival : IsItem(a) /\ a.tableAssignedAt = None /\ a.order = r.order
        /\ KeysOf(arrival) \subseteq PosKeys
    <3>1. \A a \in arrival : a.order = r.order
      BY DEF ReceivedItems, ToOrderItem
    <3> QED
      BY <3>1, RecordItems
  <2>3. /\ ItemsSound(acc.items, s.timers) /\ KeysOf(acc.items) \subseteq PosKeys
    BY DEF Carried
  <2>4. RecordShows(r, items, s.timers)
    BY <1>1, <2>2, <2>3, OrderShows, CancelledShows DEF ReceivedItems
  <2>5. \A i : i.order # r.order => (i \in items <=> i \in acc.items)
    BY <2>2, <2>3, OthersStay DEF RemoveOrder
  <2>6. DOMAIN last = Terminals
    BY DEF NewestShown
  <2>7. ASSUME NEW q \in Records, last[q.terminal] = q.sequence
        PROVE  RecordShows(q, items, s.timers)
    <3>1. CASE q.terminal = r.terminal
      <4>1. q.sequence = r.sequence
        BY <1>1, <2>7, <3>1 DEF NewestShown, PosIsOrderly
      <4>2. q = r
        BY <1>1, <3>1, <4>1 DEF PosIsOrderly
      <4> QED
        BY <2>4, <4>2
    <3>2. CASE q.terminal # r.terminal
      <4>1. q.order # r.order /\ acc.last[q.terminal] = q.sequence
        BY <1>1, <2>7, <3>2 DEF NewestShown, PosIsOrderly
      <4>2. RecordShows(q, acc.items, s.timers)
        BY <4>1 DEF NewestShown
      <4> HIDE DEF items, r
      <4> QED
        BY <2>5, <4>1, <4>2, SameShows
    <3> QED
      BY <3>1, <3>2
  <2> HIDE DEF items, last, next
  <2> QED
    BY <2>1, <2>6, <2>7 DEF NewestShown, next
<1> QED
  BY <1>2, <1>3

LEMMA BatchShown ==
  ASSUME ListFits, PosIsOrderly, NEW s, ItemsIn(s), NEW batch \in Batches,
         NewestShown(s.items, s.timers, s.last)
  PROVE  LET end == AfterRecords(s, batch)[Len(batch)]
         IN  NewestShown(end.items, s.timers, end.last)
<1> DEFINE f == AfterRecords(s, batch)
           Shown(k) == NewestShown(f[k].items, s.timers, f[k].last)
           T == {k \in 0..Len(batch) : Shown(k)}
<1>0. Len(batch) \in Nat
  BY ArrivalsAssumption
<1>1. /\ f[0] = [items |-> s.items, last |-> s.last]
      /\ \A k \in 1..Len(batch) : f[k] = ReceiveRecord(f[k - 1], batch[k], s.timers)
  BY <1>0, ReceivedUnfolds
<1>2. \A k \in 0..Len(batch) : Carried(s, f[k])
  BY BatchCarries DEF ItemsIn
<1> HIDE DEF f
<1>3. 0 \in T
  BY <1>0, <1>1
<1>4. \A k \in 1..Len(batch) : k - 1 \in T => k \in T
  <2> SUFFICES ASSUME NEW k \in 1..Len(batch), Shown(k - 1) PROVE Shown(k)
    BY <1>0
  <2>1. Carried(s, f[k - 1])
    BY <1>0, <1>2
  <2> QED
    BY <1>1, <2>1, RecordShown
<1>5. Len(batch) \in T
  <2> HIDE DEF T
  <2> QED
    BY <1>0, <1>3, <1>4, UpTo
<1> QED
  BY <1>5 DEF f

-----------------------------------------------------------------------------
(* The kitchen's events leave every order as it was shown.                 *)

LeavesAll(s, new) ==
  new.last = s.last /\ \A order : Leaves(order, s.items, s.timers, new.items, new.timers)

\* The list is left alone and no timer is taken off.
LEMMA TimersLeave ==
  ASSUME NEW s, NEW new, new.items = s.items, new.last = s.last,
         \A t \in s.timers : \E u \in new.timers : u.item = t.item
  PROVE  LeavesAll(s, new)
BY DEF LeavesAll, Leaves, Waits, ItemStatus, RefersTo

\* Items marked in place: what waits then has waited.
LEMMA MarksLeave ==
  ASSUME NEW s, NEW new, new.last = s.last, NEW mark, new.items = {mark[i] : i \in s.items},
         \A i \in s.items : /\ Key(mark[i]) = Key(i) /\ mark[i].firmness = i.firmness
                            /\ mark[i].order = i.order
                            /\ Waits(mark[i], new.timers) => Waits(i, s.timers)
  PROVE  LeavesAll(s, new)
<1>1. ASSUME NEW order PROVE Leaves(order, s.items, s.timers, new.items, new.timers)
  BY DEF Leaves
<1> QED
  BY <1>1 DEF LeavesAll

LEMMA SettleLeaves ==
  ASSUME NEW s, Sound(s), NEW cfg
  PROVE  LeavesAll(s, Settle(s, cfg))
<1> DEFINE adj(t) == AdjustmentOf(Boil(t), Boils(s.timers), cfg)
           f(t) == IF t.boiledAt = None THEN [t EXCEPT !.adjustment = adj(t)] ELSE t
           new == Settle(s, cfg)
<1>1. new.items = s.items /\ new.last = s.last /\ new.timers = {f(t) : t \in s.timers}
  BY DEF Settle, Synchronize, Sound, IsState
<1>2. \A t \in s.timers : f(t).item = t.item
  <2> HIDE DEF adj
  <2> QED BY DEF Sound, IsState, IsTimer
<1> HIDE DEF f, new
<1>3. LeavesAll(s, new)
  BY <1>1, <1>2, TimersLeave
<1> QED
  BY <1>3 DEF new

LEMMA FireLeaves ==
  ASSUME NEW s, Sound(s), NEW at, NEW cfg
  PROVE  LeavesAll(s, FireDueTimers(s, at, cfg))
<1> DEFINE drained == Drain(s.timers, at, cfg)
           final(t) == CHOOSE u \in drained : u.seq = t.seq
           boiled(t) == IF t.boiledAt = None /\ final(t).boiledAt # None THEN at ELSE t.boiledAt
           f(t) == [t EXCEPT !.boiledAt = boiled(t), !.adjustment = final(t).adjustment]
           new == FireDueTimers(s, at, cfg)
<1>1. new.items = s.items /\ new.last = s.last /\ new.timers = {f(t) : t \in s.timers}
  BY DEF FireDueTimers, Sound, IsState
<1>2. \A t \in s.timers : f(t).item = t.item
  <2> HIDE DEF final
  <2> QED BY DEF Sound, IsState, IsTimer
<1> HIDE DEF f, new
<1>3. LeavesAll(s, new)
  BY <1>1, <1>2, TimersLeave
<1> QED
  BY <1>3 DEF new

LEMMA AdjustLeaves ==
  ASSUME NEW s, Sound(s), NEW seq, NEW firmness
  PROVE  LeavesAll(s, AdjustTimer(s, seq, firmness))
<1> DEFINE f(t) == IF t.seq = seq
                   THEN [t EXCEPT !.firmness = firmness,
                                  !.endTime = t.startTime + BoilTime[firmness]]
                   ELSE t
           new == AdjustTimer(s, seq, firmness)
<1>1. new.items = s.items /\ new.last = s.last /\ new.timers = {f(t) : t \in s.timers}
  BY DEF AdjustTimer, Sound, IsState
<1>2. \A t \in s.timers : f(t).item = t.item
  BY DEF Sound, IsState, IsTimer
<1> HIDE DEF f, new
<1>3. LeavesAll(s, new)
  BY <1>1, <1>2, TimersLeave
<1> QED
  BY <1>3 DEF new

LEMMA StartLeaves ==
  ASSUME NEW s, Sound(s), NEW slots, NEW firmness, NEW duration, NEW item, NEW table, NEW at
  PROVE  LeavesAll(s, AddTimer(s, slots, firmness, duration, item, table, at))
<1> DEFINE new == AddTimer(s, slots, firmness, duration, item, table, at)
<1>1. new.items = s.items /\ new.last = s.last /\ s.timers \subseteq new.timers
  BY DEF AddTimer, Sound, IsState
<1> HIDE DEF new
<1>2. LeavesAll(s, new)
  BY <1>1, TimersLeave
<1> QED
  BY <1>2 DEF new

\* What was in the kettle is marked: interrupted, or done.
LEMMA EndLeaves ==
  ASSUME NEW s, ItemsIn(s), Sound(s), NEW seq, NEW at \in Nat
  PROVE  LeavesAll(s, CancelTimer(s, seq, at)) /\ LeavesAll(s, CompleteTimer(s, seq, at))
<1>0. /\ \A i \in s.items : IsItem(i)
      /\ at # None
  BY StoreEngineAssumption DEF ItemsIn, ItemsSound
<1>1. \A i \in s.items : ~IsSource(s, seq, i) =>
        \A t \in s.timers : RefersTo(t, i) => t \in Without(s.timers, seq)
  BY DEF IsSource, Without
<1>2. LeavesAll(s, CancelTimer(s, seq, at))
  <2> DEFINE mark == [i \in s.items |-> IF IsSource(s, seq, i) THEN [i EXCEPT !.interruptedAt = at] ELSE i]
             new == CancelTimer(s, seq, at)
  <2>1. /\ new.items = {mark[i] : i \in s.items} /\ new.timers = Without(s.timers, seq)
        /\ new.last = s.last
    BY DEF CancelTimer, Sound, IsState
  <2>2. \A i \in s.items : /\ Key(mark[i]) = Key(i) /\ mark[i].firmness = i.firmness
                           /\ mark[i].order = i.order
                           /\ IF IsSource(s, seq, i) THEN mark[i].interruptedAt = at ELSE mark[i] = i
    BY <1>0 DEF IsItem, Key
  <2> HIDE DEF mark, new
  <2>3. \A i \in s.items : Waits(mark[i], new.timers) => Waits(i, s.timers)
    BY <1>0, <1>1, <2>1, <2>2 DEF Waits, ItemStatus
  <2>4. LeavesAll(s, new)
    BY <2>1, <2>2, <2>3, MarksLeave
  <2> QED
    BY <2>4 DEF new
<1>3. LeavesAll(s, CompleteTimer(s, seq, at))
  <2> DEFINE mark == [i \in s.items |-> IF IsSource(s, seq, i) THEN [i EXCEPT !.completedAt = at] ELSE i]
             new == CompleteTimer(s, seq, at)
  <2>1. /\ new.items = {mark[i] : i \in s.items} /\ new.timers = Without(s.timers, seq)
        /\ new.last = s.last
    BY DEF CompleteTimer, Sound, IsState
  <2>2. \A i \in s.items : /\ Key(mark[i]) = Key(i) /\ mark[i].firmness = i.firmness
                           /\ mark[i].order = i.order
                           /\ IF IsSource(s, seq, i) THEN mark[i].completedAt = at ELSE mark[i] = i
    BY <1>0 DEF IsItem, Key
  <2> HIDE DEF mark, new
  <2>3. \A i \in s.items : Waits(mark[i], new.timers) => Waits(i, s.timers)
    BY <1>0, <1>1, <2>1, <2>2 DEF Waits, ItemStatus
  <2>4. LeavesAll(s, new)
    BY <2>1, <2>2, <2>3, MarksLeave
  <2> QED
    BY <2>4 DEF new
<1> QED
  BY <1>2, <1>3

LEMMA AssignLeaves ==
  ASSUME NEW s, ItemsIn(s), Sound(s), NEW key, NEW table, NEW at
  PROVE  LeavesAll(s, AssignTable(s, key, table, at))
<1> DEFINE mark == [i \in s.items |->
                      IF Key(i) = key THEN [i EXCEPT !.table = table, !.tableAssignedAt = at] ELSE i]
           g(t) == IF t.item = key THEN [t EXCEPT !.table = table] ELSE t
           new == AssignTable(s, key, table, at)
<1>0. /\ \A i \in s.items : IsItem(i)
      /\ \A t \in s.timers : IsTimer(t)
  BY DEF ItemsIn, ItemsSound, Sound, IsState
<1>1. /\ new.items = {mark[i] : i \in s.items} /\ new.timers = {g(t) : t \in s.timers}
      /\ new.last = s.last
  BY DEF AssignTable, Sound, IsState
<1>2. \A i \in s.items : /\ Key(mark[i]) = Key(i) /\ mark[i].firmness = i.firmness
                         /\ mark[i].order = i.order
                         /\ mark[i].completedAt = i.completedAt /\ mark[i].interruptedAt = i.interruptedAt
  BY <1>0 DEF IsItem, Key
<1>3. \A t \in s.timers : g(t).item = t.item
  BY <1>0 DEF IsTimer
<1> HIDE DEF mark, g, new
<1>4. \A i \in s.items : Waits(mark[i], new.timers) => Waits(i, s.timers)
  BY <1>1, <1>2, <1>3 DEF Waits, ItemStatus, RefersTo
<1>5. LeavesAll(s, new)
  BY <1>1, <1>2, <1>4, MarksLeave
<1> QED
  BY <1>5 DEF new

-----------------------------------------------------------------------------
(* The newest records are shown after every step.                          *)

Showing(s) == NewestShown(s.items, s.timers, s.last)

LEMMA LeavesShows ==
  ASSUME NEW s, Showing(s), NEW new, LeavesAll(s, new)
  PROVE  Showing(new)
BY LeavesShowing DEF Showing, NewestShown, LeavesAll

LEMMA DecideShows ==
  ASSUME NEW s, Showing(s), NEW moved, Sound(moved), Showing(moved), NEW cfg
  PROVE  Showing(Decide(s, moved, cfg))
BY SettleLeaves, LeavesShows DEF Decide

\* Of another order than the records'.
LEMMA PostShows ==
  ASSUME ListFits, PosIsOrderly, NEW s, ItemsIn(s), Sound(s), Showing(s), NEW post \in Posts, NEW at \in Nat
  PROVE  Showing(PostOrder(s, post, at))
<1> DEFINE new == PostOrder(s, post, at)
           arrival == {ToOrderItem(post.order, line, at) : line \in post.lines}
<1>1. /\ new.timers = s.timers /\ new.last = s.last
      /\ new.items = IF post.lines = {} THEN RemoveOrder(s.items, s.timers, post.order)
                     ELSE UpsertOrder(s.items, s.timers, arrival)
  BY DEF PostOrder, CancelOrder, ArriveOrder, Sound, IsState
<1>2. post.order \in Nat /\ \A line \in post.lines : line.index \in Nat
  BY ArrivalsAssumption
<1>3. OrderKeys(post.order, post.lines) \subseteq PosKeys
  BY DEF PosKeys
<1>4. \A a \in arrival : a.order = post.order
  BY DEF ToOrderItem
<1>5. /\ \A a \in arrival : IsItem(a) /\ a.tableAssignedAt = None /\ a.order = post.order
      /\ KeysOf(arrival) \subseteq PosKeys
  <2> DEFINE keys == {<<post.order, line.index>> : line \in post.lines}
  <2>1. keys \subseteq PosKeys
    BY <1>3 DEF OrderKeys
  <2>2. /\ \A a \in arrival : IsItem(a) /\ a.tableAssignedAt = None
        /\ KeysOf(arrival) = keys
    BY <1>2, ItemsOfOrder
  <2> HIDE DEF arrival, keys
  <2> QED
    BY <1>4, <2>1, <2>2
<1> HIDE DEF new, arrival
<1>6. \A i : i.order # post.order => (i \in new.items <=> i \in s.items)
  <2>1. ItemsSound(s.items, s.timers) /\ KeysOf(s.items) \subseteq PosKeys
    BY DEF ItemsIn
  <2>2. \A i : i.order # post.order =>
          (i \in UpsertOrder(s.items, s.timers, arrival) <=> i \in s.items)
    BY <1>5, <2>1, OthersStay
  <2>3. \A i : i.order # post.order =>
          (i \in RemoveOrder(s.items, s.timers, post.order) <=> i \in s.items)
    BY DEF RemoveOrder
  <2> QED
    BY <1>1, <2>2, <2>3
<1>7. ASSUME NEW r \in Records, s.last[r.terminal] = r.sequence
      PROVE  RecordShows(r, new.items, s.timers)
  <2>1. r.order # post.order
    BY DEF PosIsOrderly
  <2>2. RecordShows(r, s.items, s.timers)
    BY <1>7 DEF Showing, NewestShown
  <2> QED
    BY <1>6, <2>1, <2>2, SameShows
<1>8. Showing(new)
  BY <1>1, <1>7 DEF Showing, NewestShown
<1> QED
  BY <1>8 DEF new

LEMMA RecordsShow ==
  ASSUME ListFits, PosIsOrderly, NEW s, ItemsIn(s), Sound(s), Showing(s), NEW batch \in Batches
  PROVE  Showing(ArriveRecords(s, batch))
<1> DEFINE end == AfterRecords(s, batch)[Len(batch)]
           new == ArriveRecords(s, batch)
<1>1. new.timers = s.timers /\ new.items = end.items /\ new.last = end.last
  BY DEF ArriveRecords, Sound, IsState
<1>2. NewestShown(end.items, s.timers, end.last)
  BY BatchShown DEF Showing
<1> HIDE DEF end, new
<1>3. Showing(new)
  BY <1>1, <1>2 DEF Showing
<1> QED
  BY <1>3 DEF new

\* An event that is put shows them, and one that is not.
LEMMA StoredShows ==
  ASSUME Showing(disk), NEW moved, Sound(moved), Showing(moved), NEW at,
         RunEffects(disk, Decide(disk, moved, Cfg), at)
  PROVE  Showing(disk)'
<1> DEFINE next == Decide(disk, moved, Cfg)
<1>1. Showing(next)
  BY DecideShows
<1>2. RunEffects(disk, next, at)
  OBVIOUS
<1> HIDE DEF next
<1>3. disk' \in {disk, next}
  BY <1>2 DEF RunEffects, NothingChanged, Persists, PersistFails
<1> QED
  BY <1>1, <1>3 DEF Showing, NewestShown

LEMMA HandledShowing ==
  ASSUME Parts, Showing(disk), Idle, NEW moved, Sound(moved), Showing(moved), NEW at, Handle(moved, at)
  PROVE  Showing(disk)'
<1>1. mem = disk
  BY DEF Parts, MemoryIsDurable, Idle
<1> QED
  BY <1>1, StoredShows DEF Handle

LEMMA FiredShowing ==
  ASSUME Parts, Showing(disk), Construct \/ AlarmFires
  PROVE  Showing(disk)'
<1>1. now \in Nat /\ Sound(disk)
  BY DEF Parts, Control
<1>2. Sound(FireDueTimers(disk, now, Cfg)) /\ Showing(FireDueTimers(disk, now, Cfg))
  BY <1>1, FireSound, FireLeaves, LeavesShows
<1>3. RunEffects(disk, Decide(disk, FireDueTimers(disk, now, Cfg), Cfg), now)
  <2>1. CASE Construct
    BY <2>1 DEF Construct
  <2>2. CASE AlarmFires
    <3>1. mem = disk
      BY <2>2 DEF AlarmFires, Idle, Parts, MemoryIsDurable
    <3> QED
      BY <2>2, <3>1 DEF AlarmFires, RunEffects
  <2> QED
    BY <2>1, <2>2
<1> QED
  BY <1>2, <1>3, StoredShows

LEMMA CommandShowing ==
  ASSUME Parts, ItemsIn(disk), Showing(disk),
         \/ \E slots \in SlotSets : \/ \E d \in Durations : Start(slots, d)
                                    \/ \E key \in Keys : StartItem(slots, key)
         \/ \E seq \in 0..(MaxStarts - 1) : \/ Cancel(seq) \/ Complete(seq)
                                            \/ \E f \in DOMAIN BoilTime : Adjust(seq, f)
         \/ \E key \in Keys, table \in Tables : Assign(key, table)
  PROVE  Showing(disk)'
<1>1. now \in Nat /\ Sound(disk)
  BY DEF Parts, Control
<1>2. Idle => mem = disk
  BY DEF Parts, MemoryIsDurable, Idle
<1>3. ASSUME NEW slots \in SlotSets, NEW d \in Durations, Start(slots, d)
      PROVE  Showing(disk)'
  <2>1. Showing(StartTimer(disk, slots, d, now))
    BY <1>1, StartLeaves, LeavesShows DEF StartTimer
  <2> QED
    BY <1>1, <1>2, <1>3, <2>1, StartSound, HandledShowing DEF Start, FromClient
<1>4. ASSUME NEW slots \in SlotSets, NEW key \in Keys, StartItem(slots, key)
      PROVE  Showing(disk)'
  <2>1. Showing(StartOrderItem(disk, slots, key, now))
    BY <1>1, StartLeaves, LeavesShows DEF StartOrderItem
  <2> QED
    BY <1>1, <1>2, <1>4, <2>1, StartItemSound, HandledShowing DEF StartItem, FromClient
<1>5. ASSUME NEW seq \in 0..(MaxStarts - 1), Cancel(seq) \/ Complete(seq)
      PROVE  Showing(disk)'
  <2>1. Showing(CancelTimer(disk, seq, now)) /\ Showing(CompleteTimer(disk, seq, now))
    BY <1>1, EndLeaves, LeavesShows
  <2> QED
    BY <1>1, <1>2, <1>5, <2>1, CancelSound, HandledShowing DEF Cancel, Complete, FromClient
<1>6. ASSUME NEW seq \in 0..(MaxStarts - 1), NEW f \in DOMAIN BoilTime, Adjust(seq, f)
      PROVE  Showing(disk)'
  <2>1. Showing(AdjustTimer(disk, seq, f))
    BY <1>1, AdjustLeaves, LeavesShows
  <2> QED
    BY <1>1, <1>2, <1>6, <2>1, AdjustSound, HandledShowing DEF Adjust, FromClient
<1>7. ASSUME NEW key \in Keys, NEW table \in Tables, Assign(key, table)
      PROVE  Showing(disk)'
  <2>1. Showing(AssignTable(disk, key, table, now))
    BY <1>1, AssignLeaves, LeavesShows
  <2> QED
    BY <1>1, <1>2, <1>7, <2>1, AssignSound, HandledShowing DEF Assign, FromClient
<1> QED
  BY <1>3, <1>4, <1>5, <1>6, <1>7

LEMMA OrdersShowing ==
  ASSUME ListFits, PosIsOrderly, Parts, ItemsIn(disk), Showing(disk),
         PostEnds \/ \E batch \in Batches : ReceiveRecords(batch)
  PROVE  Showing(disk)'
<1>1. Sound(disk) /\ (Idle => mem = disk)
  BY DEF Parts, MemoryIsDurable, Idle
<1>2. CASE PostEnds
  <2>1. posting.post \in Posts /\ posting.at \in Nat
    BY <1>2 DEF PostEnds, Parts, Control
  <2>2. Sound(PostOrder(disk, posting.post, posting.at))
    BY <1>1, OrdersSound DEF PostOrder
  <2>3. Showing(PostOrder(disk, posting.post, posting.at))
    BY <1>1, <2>1, PostShows
  <2> QED
    BY <1>1, <1>2, <2>2, <2>3, HandledShowing DEF PostEnds
<1>3. ASSUME NEW batch \in Batches, ReceiveRecords(batch) PROVE Showing(disk)'
  BY <1>1, <1>3, OrdersSound, RecordsShow, HandledShowing DEF ReceiveRecords
<1> QED
  BY <1>2, <1>3

LEMMA StepShows ==
  ASSUME ListFits, PosIsOrderly, Parts, ItemsIn(disk), Showing(disk), [Next]_vars
  PROVE  Showing(disk)'
<1>1. CASE UNCHANGED disk
  BY <1>1 DEF Showing, NewestShown
<1>2. CASE UNCHANGED vars
  BY <1>1, <1>2 DEF vars
<1>3. CASE \/ Tick \/ RunSideEffects \/ Hibernate \/ Crash \/ Connect \/ Disconnect
           \/ \E post \in Posts : PostBegins(post)
           \/ \E p \in Projections : ApplyProjection(p)
  BY <1>1, <1>3 DEF Tick, RunSideEffects, Hibernate, Crash, Connect, Disconnect, PostBegins,
                    ApplyProjection
<1> QED
  BY <1>2, <1>3, FiredShowing, CommandShowing, OrdersShowing DEF Next

\* Of a list within its limit and a POS that numbers what it sends, the list shows the
\* newest record accepted from every terminal: all its lines, and of its order nothing else
\* that waits (receive.ts, pending.ts).
THEOREM NewestRecordShowsHolds == ListFits /\ PosIsOrderly => (Spec => []NewestRecordShows)
<1> SUFFICES ASSUME ListFits, PosIsOrderly PROVE Spec => []NewestRecordShows
  OBVIOUS
<1>1. Init => Showing(disk)
  <2> SUFFICES ASSUME Init PROVE Showing(disk)
    OBVIOUS
  <2>1. disk.last = [x \in Terminals |-> None]
    BY DEF Init, EmptyState
  <2>2. \A r \in Records : disk.last[r.terminal] # r.sequence
    BY <2>1, StoreEngineAssumption DEF PosIsOrderly
  <2> QED
    BY <2>1, <2>2 DEF Showing, NewestShown
<1>2. ItemsInv /\ Showing(disk) /\ [Next]_vars => Showing(disk)'
  BY StepShows, StoreInvParts DEF ItemsInv
<1>3. Showing(disk) => NewestRecordShows
  <2> SUFFICES ASSUME Showing(disk), NEW batch \in Batches, NEW k \in DOMAIN batch,
                      disk.last[batch[k].terminal] = batch[k].sequence
               PROVE  RecordShows(batch[k], disk.items, disk.timers)
    BY DEF NewestRecordShows, RecordShows, Waits
  <2>1. batch[k] \in Records
    BY DEF Records, PosIsOrderly
  <2> QED
    BY <2>1 DEF Showing, NewestShown
<1> QED
  BY <1>1, <1>2, <1>3, ItemsInvHolds, PTL DEF Spec

-----------------------------------------------------------------------------
(* What a connected client shows.                                          *)

\* What has still to be sent was decided by now, and is in memory.
Pending == effects # None => mem = disk /\ effects \in 0..now

ViewInv == ItemsInv /\ Pending /\ ViewMatches

\* Fewer items are to be shown as time goes by.
LEMMA FewerShown ==
  ASSUME NEW items, NEW timers, ItemsSound(items, timers),
         NEW t \in Nat, NEW u \in Nat, t <= u
  PROVE  OrderItemsToBroadcast(items, timers, u) \subseteq OrderItemsToBroadcast(items, timers, t)
<1>1. \A i \in items : IsLive(i, u) => IsLive(i, t)
  BY OrderItemsAssumption DEF ItemsSound, IsItem, IsLive
<1> QED
  BY <1>1 DEF OrderItemsToBroadcast

\* A snapshot of the stored state, taken now or before, is what is to be shown.
LEMMA SnapshotShows ==
  ASSUME NEW s, ItemsIn(s), NEW t \in Nat, NEW u \in Nat, t <= u
  PROVE  /\ Snapshot(s, t).timers = WireTimers(s.timers)
         /\ OrderItemsToBroadcast(s.items, s.timers, u) \subseteq Snapshot(s, t).items
         /\ Snapshot(s, t).items \subseteq s.items
BY FewerShown DEF ItemsIn, Snapshot, OrderItemsToBroadcast

\* An event that puts something has its effects to come, and any other changes nothing.
LEMMA EventShows ==
  ASSUME ViewInv, effects = None, NEW next, NEW at \in 0..now,
         \/ NothingChanged(disk, next) \/ Persists(disk, next, at) \/ PersistFails(disk, next),
         UNCHANGED <<now, view>>
  PROVE  Pending' /\ ViewMatches'
<1>0. at # None
  BY StoreEngineAssumption
<1>1. mem' = disk' /\ (effects' = at \/ (effects' = None /\ disk' = disk))
  BY DEF NothingChanged, Persists, PersistFails
<1>2. Pending'
  BY <1>1 DEF Pending
<1>3. ViewMatches'
  <2>1. CASE effects' = at
    BY <1>0, <2>1 DEF ViewMatches
  <2>2. CASE effects' = None /\ disk' = disk
    BY <2>2 DEF ViewInv, ViewMatches
  <2> QED
    BY <1>1, <2>1, <2>2
<1> QED
  BY <1>2, <1>3

LEMMA SentShows == ASSUME ViewInv, RunSideEffects PROVE Pending' /\ ViewMatches'
<1>1. /\ mem = disk /\ effects \in Nat /\ now \in Nat /\ effects <= now /\ ItemsIn(disk)
      /\ disk' = disk /\ now' = now /\ effects' = None
      /\ view' = IF view = None THEN None ELSE Snapshot(disk, effects)
  BY DEF ViewInv, ItemsInv, StoreInv, TypeOK, Pending, RunSideEffects, Broadcast
<1>2. ViewMatches'
  BY <1>1, SnapshotShows DEF ViewMatches
<1> QED
  BY <1>1, <1>2 DEF Pending

LEMMA ConnectShows == ASSUME ViewInv, Connect PROVE Pending' /\ ViewMatches'
<1>1. /\ mem = disk /\ now \in Nat /\ ItemsIn(disk) /\ effects = None
      /\ disk' = disk /\ now' = now /\ effects' = None /\ view' = Snapshot(disk, now)
  BY DEF ViewInv, ItemsInv, StoreInv, TypeOK, MemoryIsDurable, Connect, Idle
<1>2. ViewMatches'
  BY <1>1, SnapshotShows DEF ViewMatches
<1> QED
  BY <1>1, <1>2 DEF Pending

LEMMA TickShows == ASSUME ViewInv, Tick PROVE Pending' /\ ViewMatches'
<1>1. /\ now \in Nat /\ now' = now + 1 /\ ItemsSound(disk.items, disk.timers)
      /\ UNCHANGED <<disk, mem, effects, view>>
  BY DEF ViewInv, ItemsInv, ItemsIn, StoreInv, TypeOK, Tick
<1>2. OrderItemsToBroadcast(disk.items, disk.timers, now') \subseteq
        OrderItemsToBroadcast(disk.items, disk.timers, now)
  BY <1>1, FewerShown
<1>3. ViewMatches'
  BY <1>1, <1>2 DEF ViewInv, ViewMatches
<1>4. Pending'
  BY <1>1 DEF ViewInv, Pending
<1> QED
  BY <1>3, <1>4

LEMMA HandledShows ==
  ASSUME ViewInv, Idle, NEW moved, NEW at \in 0..now, Handle(moved, at)
  PROVE  Pending' /\ ViewMatches'
<1> DEFINE next == Decide(mem, moved, Cfg)
<1>1. mem = disk /\ effects = None
  BY DEF ViewInv, ItemsInv, StoreInv, MemoryIsDurable, Idle
<1>2. RunEffects(mem, next, at) /\ UNCHANGED <<now, view>>
  BY DEF Handle
<1> HIDE DEF next
<1>3. \/ NothingChanged(disk, next) \/ Persists(disk, next, at) \/ PersistFails(disk, next)
  BY <1>1, <1>2 DEF RunEffects
<1> QED
  BY <1>1, <1>2, <1>3, EventShows

LEMMA FiredShows == ASSUME ViewInv, Construct \/ AlarmFires PROVE Pending' /\ ViewMatches'
<1> DEFINE next == Decide(disk, FireDueTimers(disk, now, Cfg), Cfg)
<1>1. now \in 0..now
  BY DEF ViewInv, ItemsInv, StoreInv, TypeOK
<1>2. CASE AlarmFires
  <2>1. mem = disk /\ effects = None /\ UNCHANGED <<now, view>>
    BY <1>2 DEF ViewInv, ItemsInv, StoreInv, MemoryIsDurable, Idle, AlarmFires
  <2>2. \/ NothingChanged(disk, next) \/ Persists(disk, next, now) \/ PersistFails(disk, next)
    BY <1>2, <2>1 DEF AlarmFires
  <2> HIDE DEF next
  <2> QED
    BY <1>1, <2>1, <2>2, EventShows
<1>3. CASE Construct
  <2>1. RunEffects(disk, next, now) /\ UNCHANGED <<now, view>>
    BY <1>3 DEF Construct
  <2> HIDE DEF next
  <2>2. \/ NothingChanged(disk, next) \/ Persists(disk, next, now) \/ PersistFails(disk, next)
    BY <2>1 DEF RunEffects
  <2>3. CASE effects = None
    BY <1>1, <2>1, <2>2, <2>3, EventShows
  <2>4. CASE effects # None
    <3>1. now # None
      BY <1>1, StoreEngineAssumption
    <3>2. effects' # None /\ effects' \in 0..now /\ mem' = disk'
      BY <1>1, <2>2, <2>4, <3>1 DEF ViewInv, Pending, NothingChanged, Persists, PersistFails
    <3> QED
      BY <2>1, <3>2 DEF Pending, ViewMatches
  <2> QED
    BY <2>3, <2>4
<1> QED
  BY <1>2, <1>3

LEMMA CommandShows ==
  ASSUME ViewInv,
         \/ \E slots \in SlotSets : \/ \E d \in Durations : Start(slots, d)
                                    \/ \E key \in Keys : StartItem(slots, key)
         \/ \E seq \in 0..(MaxStarts - 1) : \/ Cancel(seq) \/ Complete(seq)
                                            \/ \E f \in DOMAIN BoilTime : Adjust(seq, f)
         \/ \E key \in Keys, table \in Tables : Assign(key, table)
         \/ PostEnds \/ \E batch \in Batches : ReceiveRecords(batch)
  PROVE  Pending' /\ ViewMatches'
<1>1. now \in 0..now /\ (posting # None => posting.at \in 0..now)
  BY DEF ViewInv, ItemsInv, StoreInv, TypeOK
<1>2. ASSUME NEW slots \in SlotSets, NEW d \in Durations, Start(slots, d)
      PROVE  Pending' /\ ViewMatches'
  BY <1>1, <1>2, HandledShows DEF Start, FromClient
<1>3. ASSUME NEW slots \in SlotSets, NEW key \in Keys, StartItem(slots, key)
      PROVE  Pending' /\ ViewMatches'
  BY <1>1, <1>3, HandledShows DEF StartItem, FromClient
<1>4. ASSUME NEW seq \in 0..(MaxStarts - 1), Cancel(seq) \/ Complete(seq)
      PROVE  Pending' /\ ViewMatches'
  BY <1>1, <1>4, HandledShows DEF Cancel, Complete, FromClient
<1>5. ASSUME NEW seq \in 0..(MaxStarts - 1), NEW f \in DOMAIN BoilTime, Adjust(seq, f)
      PROVE  Pending' /\ ViewMatches'
  BY <1>1, <1>5, HandledShows DEF Adjust, FromClient
<1>6. ASSUME NEW key \in Keys, NEW table \in Tables, Assign(key, table)
      PROVE  Pending' /\ ViewMatches'
  BY <1>1, <1>6, HandledShows DEF Assign, FromClient
<1>7. CASE PostEnds
  BY <1>1, <1>7, HandledShows DEF PostEnds
<1>8. ASSUME NEW batch \in Batches, ReceiveRecords(batch) PROVE Pending' /\ ViewMatches'
  BY <1>1, <1>8, HandledShows DEF ReceiveRecords
<1> QED
  BY <1>2, <1>3, <1>4, <1>5, <1>6, <1>7, <1>8

\* Steps that send nothing, though clients may go.
LEMMA QuietShows ==
  ASSUME ViewInv,
         \/ UNCHANGED vars \/ Hibernate \/ Crash \/ Disconnect
         \/ \E post \in Posts : PostBegins(post)
         \/ \E p \in Projections : ApplyProjection(p)
  PROVE  Pending' /\ ViewMatches'
<1>1. /\ UNCHANGED <<now, disk>> /\ view' \in {view, None}
      /\ effects' = None \/ UNCHANGED <<effects, mem>>
      /\ effects' = None => effects = None \/ view' = None
  BY DEF Hibernate, Idle, Crash, Disconnect, PostBegins, ApplyProjection, vars
<1>2. Pending'
  BY <1>1 DEF ViewInv, Pending
<1>3. ViewMatches'
  BY <1>1 DEF ViewInv, ViewMatches
<1> QED
  BY <1>2, <1>3

\* Once the effects of the last event are done, a connected client shows the store.
THEOREM ViewMatchesHolds == Spec => []ViewMatches
<1>1. Init => Pending /\ ViewMatches
  BY DEF Init, Pending, ViewMatches
<1>2. ViewInv /\ [Next]_vars => (Pending /\ ViewMatches)'
  BY QuietShows, SentShows, ConnectShows, TickShows, FiredShows, CommandShows DEF Next
<1> QED
  BY <1>1, <1>2, ItemsInvHolds, PTL DEF Spec, ViewInv

-----------------------------------------------------------------------------
(* Timers in the kettles.                                                  *)

Kettles(timers) ==
  /\ IsFiniteSet(timers)
  /\ \A t \in timers : IsTimer(t) /\ t.startTime <= t.endTime
  /\ \A t, u \in timers : t.seq = u.seq => t = u

\* u is t, adjusted anew, and marked at `at` if it was running and its window was open.
Renews(t, u, at, cfg) ==
  /\ u.seq = t.seq /\ u.slots = t.slots
  /\ u.startTime = t.startTime /\ u.endTime = t.endTime
  /\ t.boiledAt # None => u.boiledAt # None
  /\ t.boiledAt = None /\ u.boiledAt # None => 100 * (at + Epsilon) >= Left(t, cfg.ratio) - 50

Renewed(timers, new, at, cfg) ==
  /\ \A t \in timers : \E u \in new : Renews(t, u, at, cfg)
  /\ \A u \in new : \E t \in timers : Renews(t, u, at, cfg)

\* The adjustments are those of the running timers, and none of them is due.
Quiet(timers, at, cfg) ==
  \A t \in Running(timers) :
    /\ t.adjustment = AdjustmentOf(Boil(t), Boils(timers), cfg)
    /\ t.adjustment \in Int /\ AdjustedEnd(t) > at + Epsilon

Mark(t, at) ==
  IF t.boiledAt = None /\ AdjustedEnd(t) <= at + Epsilon THEN [t EXCEPT !.boiledAt = at] ELSE t

\* A round of Drain.
Round(timers, at, cfg) == {Mark(t, at) : t \in Synchronize(timers, cfg)}

LEMMA BoilsAre ==
  ASSUME NEW timers, Kettles(timers)
  PROVE  /\ BoilSet(Boils(timers))
         /\ \A t \in Running(timers) : Boil(t) \in Boils(timers)
         /\ \A b \in Boils(timers) : b.startTime <= b.endTime
         /\ IsFiniteSet(Running(timers))
<1> DEFINE R == Running(timers)
           boil == [t \in R |-> Boil(t)]
<1>1. IsFiniteSet(R) /\ \A t \in R : IsTimer(t) /\ t.startTime <= t.endTime
  BY FS_Subset DEF Kettles, Running
<1>2. Boils(timers) = {boil[t] : t \in R}
  BY DEF Boils
<1>3. IsFiniteSet(Boils(timers))
  <2>1. DOMAIN boil = R
    OBVIOUS
  <2> HIDE DEF boil, R
  <2> QED
    BY <1>1, <1>2, <2>1, ImageFinite
<1>4. \A b \in Boils(timers) : IsBoil(b) /\ b.startTime <= b.endTime
  BY <1>1 DEF Boils, Boil, IsBoil, IsTimer
<1>5. \A b, c \in Boils(timers) : b.seq = c.seq => b = c
  BY DEF Boils, Boil, Kettles, Running
<1> QED
  BY <1>1, <1>3, <1>4, <1>5 DEF BoilSet, Boils

\* An image that keeps the numbers keeps the timers apart.
LEMMA ImageKettles ==
  ASSUME NEW timers, Kettles(timers), NEW f, DOMAIN f = timers,
         \A t \in timers : IsTimer(f[t]) /\ f[t].startTime <= f[t].endTime /\ f[t].seq = t.seq
  PROVE  Kettles({f[t] : t \in timers})
<1>1. IsFiniteSet({f[t] : t \in timers})
  BY ImageFinite DEF Kettles
<1>2. \A t, u \in timers : f[t].seq = f[u].seq => f[t] = f[u]
  BY DEF Kettles
<1> QED
  BY <1>1, <1>2 DEF Kettles

\* sync.ts: synchronisation moves ends, each to within its window.
LEMMA SynchronizeIs ==
  ASSUME NEW timers, Kettles(timers), NEW cfg, IsConfig(cfg), NEW at \in Nat
  PROVE  /\ Kettles(Synchronize(timers, cfg))
         /\ Renewed(timers, Synchronize(timers, cfg), at, cfg)
         /\ Boils(Synchronize(timers, cfg)) = Boils(timers)
         /\ \A t \in Running(Synchronize(timers, cfg)) :
              /\ t.adjustment = AdjustmentOf(Boil(t), Boils(timers), cfg)
              /\ t.adjustment \in Int
              /\ 100 * AdjustedEnd(t) >= Left(t, cfg.ratio) - 50
         /\ Cardinality(Running(Synchronize(timers, cfg))) <= Cardinality(Running(timers))
<1> DEFINE adj(t) == AdjustmentOf(Boil(t), Boils(timers), cfg)
           g(t) == IF t.boiledAt = None THEN [t EXCEPT !.adjustment = adj(t)] ELSE t
           f == [t \in timers |-> g(t)]
           new == Synchronize(timers, cfg)
<1>1. new = {f[t] : t \in timers}
  BY DEF Synchronize
<1>2. \A t \in timers : IsTimer(t) /\ t.startTime <= t.endTime
  BY DEF Kettles
<1>3. ASSUME NEW t \in timers
      PROVE  /\ f[t].seq = t.seq /\ f[t].slots = t.slots /\ f[t].boiledAt = t.boiledAt
             /\ f[t].startTime = t.startTime /\ f[t].endTime = t.endTime
             /\ IsTimer(f[t])
             /\ t.boiledAt = None => f[t].adjustment = adj(t)
  <2> HIDE DEF adj
  <2> QED
    BY <1>2 DEF IsTimer
<1>4. ASSUME NEW t \in timers, t.boiledAt = None
      PROVE  adj(t) \in Int /\ 100 * (t.endTime + adj(t)) >= Left(t, cfg.ratio) - 50
  <2>1. t \in Running(timers)
    BY <1>4 DEF Running
  <2>2. BoilSet(Boils(timers)) /\ Boil(t) \in Boils(timers)
    BY <2>1, BoilsAre
  <2>3. Boil(t).startTime <= Boil(t).endTime
    BY <1>2 DEF Boil
  <2>4. /\ AdjustmentOf(Boil(t), Boils(timers), cfg) \in Int
        /\ 100 * (Boil(t).endTime + AdjustmentOf(Boil(t), Boils(timers), cfg))
             >= Left(Boil(t), cfg.ratio) - 50
    BY <2>2, <2>3, AdjustmentIs
  <2>5. Boil(t).endTime = t.endTime /\ Left(Boil(t), cfg.ratio) = Left(t, cfg.ratio)
    BY DEF Boil, Left
  <2> QED
    BY <2>4, <2>5
<1> HIDE DEF g, adj
<1>5. DOMAIN f = timers
  OBVIOUS
<1> HIDE DEF f
<1>6. Kettles(new)
  BY <1>1, <1>2, <1>3, <1>5, ImageKettles
<1>7. \A t \in timers : Renews(t, f[t], at, cfg)
  BY <1>3 DEF Renews
<1>8. Renewed(timers, new, at, cfg)
  BY <1>1, <1>7 DEF Renewed
<1>9. Running(new) = {f[t] : t \in Running(timers)}
  BY <1>1, <1>3 DEF Running
<1>10. \A t \in timers : Boil(f[t]) = Boil(t)
  BY <1>3 DEF Boil
<1>11. Boils(new) = Boils(timers)
  BY <1>9, <1>10 DEF Boils, Running
<1>12. ASSUME NEW u \in Running(new)
       PROVE  /\ u.adjustment = AdjustmentOf(Boil(u), Boils(timers), cfg)
              /\ u.adjustment \in Int
              /\ 100 * AdjustedEnd(u) >= Left(u, cfg.ratio) - 50
  <2>1. PICK t \in timers : u = f[t] /\ t.boiledAt = None
    BY <1>9 DEF Running
  <2>2. u.adjustment = adj(t) /\ Boil(u) = Boil(t)
    BY <1>3, <1>10, <2>1
  <2>3. adj(t) \in Int /\ 100 * (t.endTime + adj(t)) >= Left(t, cfg.ratio) - 50
    BY <1>4, <2>1
  <2>4. Left(u, cfg.ratio) = Left(t, cfg.ratio) /\ AdjustedEnd(u) = t.endTime + adj(t)
    BY <1>3, <2>1, <2>2 DEF Left, AdjustedEnd
  <2> QED
    BY <2>2, <2>3, <2>4 DEF adj
<1>13. Cardinality(Running(new)) <= Cardinality(Running(timers))
  <2> DEFINE R == Running(timers)
             h == [t \in R |-> f[t]]
  <2>1. Running(new) = {h[t] : t \in R} /\ DOMAIN h = R
    BY <1>9
  <2>2. IsFiniteSet(R)
    BY BoilsAre
  <2> HIDE DEF h, R
  <2>3. Cardinality(Running(new)) <= Cardinality(R)
    BY <2>1, <2>2, ImageFinite
  <2> QED
    BY <2>3 DEF R
<1> QED
  BY <1>6, <1>8, <1>11, <1>12, <1>13 DEF new

LEMMA RenewsOnwards ==
  ASSUME NEW t, NEW u, NEW v, NEW at, NEW cfg, Renews(t, u, at, cfg), Renews(u, v, at, cfg)
  PROVE  Renews(t, v, at, cfg)
<1>1. Left(u, cfg.ratio) = Left(t, cfg.ratio)
  BY DEF Renews, Left
<1> QED
  BY <1>1 DEF Renews

LEMMA RenewedOnwards ==
  ASSUME NEW X, NEW Y, NEW Z, NEW at, NEW cfg, Renewed(X, Y, at, cfg), Renewed(Y, Z, at, cfg)
  PROVE  Renewed(X, Z, at, cfg)
<1>1. ASSUME NEW t \in X PROVE \E v \in Z : Renews(t, v, at, cfg)
  BY RenewsOnwards DEF Renewed
<1>2. ASSUME NEW v \in Z PROVE \E t \in X : Renews(t, v, at, cfg)
  BY RenewsOnwards DEF Renewed
<1> QED
  BY <1>1, <1>2 DEF Renewed

\* A quiet set of timers is not changed by synchronisation: none becomes due.
LEMMA QuietStays ==
  ASSUME NEW timers, Kettles(timers), NEW cfg, IsConfig(cfg), NEW at \in Nat,
         Quiet(timers, at, cfg)
  PROVE  Quiet(Synchronize(timers, cfg), at, cfg)
<1> DEFINE new == Synchronize(timers, cfg)
<1>1. /\ Renewed(timers, new, at, cfg) /\ Boils(new) = Boils(timers)
      /\ \A t \in Running(new) :
           t.adjustment = AdjustmentOf(Boil(t), Boils(timers), cfg) /\ t.adjustment \in Int
  BY SynchronizeIs
<1> HIDE DEF new
<1>2. ASSUME NEW u \in Running(new) PROVE AdjustedEnd(u) > at + Epsilon
  <2>1. PICK t \in timers : Renews(t, u, at, cfg)
    BY <1>1 DEF Renewed, Running
  <2>2. t \in Running(timers) /\ Boil(t) = Boil(u) /\ t.endTime = u.endTime
    BY <2>1 DEF Renews, Running, Boil
  <2>3. t.adjustment = u.adjustment
    BY <1>1, <2>2 DEF Quiet
  <2> QED
    BY <2>2, <2>3 DEF Quiet, AdjustedEnd
<1>3. Quiet(new, at, cfg)
  BY <1>1, <1>2 DEF Quiet
<1> QED
  BY <1>3 DEF new

\* A round marks a running timer, or leaves the timers quiet.
LEMMA RoundIs ==
  ASSUME NEW timers, Kettles(timers), NEW cfg, IsConfig(cfg), NEW at \in Nat
  PROVE  /\ Kettles(Round(timers, at, cfg))
         /\ Renewed(timers, Round(timers, at, cfg), at, cfg)
         /\ \/ Quiet(Round(timers, at, cfg), at, cfg)
            \/ Cardinality(Running(Round(timers, at, cfg))) < Cardinality(Running(timers))
         /\ Quiet(timers, at, cfg) => Quiet(Round(timers, at, cfg), at, cfg)
<1> DEFINE Y == Synchronize(timers, cfg)
           Z == Round(timers, at, cfg)
           f == [t \in Y |-> Mark(t, at)]
           due(t) == AdjustedEnd(t) <= at + Epsilon
<1>1. /\ Kettles(Y) /\ Renewed(timers, Y, at, cfg) /\ Boils(Y) = Boils(timers)
      /\ \A t \in Running(Y) :
           /\ t.adjustment = AdjustmentOf(Boil(t), Boils(timers), cfg) /\ t.adjustment \in Int
           /\ 100 * AdjustedEnd(t) >= Left(t, cfg.ratio) - 50
      /\ Cardinality(Running(Y)) <= Cardinality(Running(timers))
  BY SynchronizeIs
<1>2. Z = {f[t] : t \in Y}
  BY DEF Round
<1>3. Quiet(timers, at, cfg) => \A t \in Running(Y) : ~due(t)
  <2>1. Quiet(timers, at, cfg) => Quiet(Y, at, cfg)
    BY QuietStays
  <2>2. \A t \in Running(Y) : AdjustedEnd(t) \in Int
    BY <1>1 DEF Kettles, IsTimer, Running, AdjustedEnd
  <2> HIDE DEF Y
  <2> QED
    BY <2>1, <2>2, StoreEngineAssumption DEF Quiet
<1> HIDE DEF Y, Z
<1>4. Epsilon \in Nat /\ at + Epsilon \in Int
  BY StoreEngineAssumption
<1>5. \A t \in Running(Y) : AdjustedEnd(t) \in Int /\ t.startTime \in Nat /\ t.endTime \in Nat
  BY <1>1 DEF Kettles, IsTimer, Running, AdjustedEnd
<1>6. ASSUME NEW t \in Y
      PROVE  /\ IsTimer(f[t]) /\ f[t].seq = t.seq /\ f[t].slots = t.slots
             /\ f[t].startTime = t.startTime /\ f[t].endTime = t.endTime
             /\ f[t].boiledAt = IF t.boiledAt = None /\ due(t) THEN at ELSE t.boiledAt
             /\ f[t].boiledAt = None => f[t] = t
  <2> HIDE DEF due
  <2>1. IsTimer(t)
    BY <1>1 DEF Kettles
  <2>2. f[t] = IF t.boiledAt = None /\ due(t) THEN [t EXCEPT !.boiledAt = at] ELSE t
    BY DEF Mark, due
  <2> QED
    BY <2>1, <2>2, StoreEngineAssumption DEF IsTimer
<1>7. at # None
  BY StoreEngineAssumption
<1>8. DOMAIN f = Y
  OBVIOUS
<1> HIDE DEF f
<1>9. Kettles(Z)
  BY <1>1, <1>2, <1>6, <1>8, ImageKettles DEF Kettles
<1>10. ASSUME NEW t \in Y PROVE Renews(t, f[t], at, cfg)
  <2>1. t.boiledAt = None /\ f[t].boiledAt # None =>
          100 * (at + Epsilon) >= Left(t, cfg.ratio) - 50
    <3> SUFFICES ASSUME t.boiledAt = None, f[t].boiledAt # None
                 PROVE  100 * (at + Epsilon) >= Left(t, cfg.ratio) - 50
      OBVIOUS
    <3>1. t \in Running(Y) /\ AdjustedEnd(t) <= at + Epsilon
      BY <1>6 DEF Running
    <3> DEFINE e == AdjustedEnd(t)
               l == Left(t, cfg.ratio)
    <3>2. e \in Int /\ l \in Int /\ 100 * e >= l - 50 /\ e <= at + Epsilon
      <4>1. IsBoil(t) /\ cfg.ratio \in Int
        BY <1>1 DEF IsBoil, IsConfig, Kettles, IsTimer
      <4> QED
        BY <1>1, <1>5, <3>1, <4>1, WindowIs
    <3> HIDE DEF e, l
    <3>3. 100 * (at + Epsilon) >= l - 50
      BY <1>4, <3>2
    <3> QED
      BY <3>3 DEF l
  <2> QED
    BY <1>6, <1>7, <2>1 DEF Renews
<1>11. Renewed(timers, Z, at, cfg)
  <2>1. Renewed(Y, Z, at, cfg)
    BY <1>2, <1>10 DEF Renewed
  <2> QED
    BY <1>1, <2>1, RenewedOnwards
<1>12. Running(Z) = {t \in Running(Y) : ~due(t)}
  <2>1. ASSUME NEW u \in Running(Z) PROVE u \in Running(Y) /\ ~due(u)
    <3>1. PICK t \in Y : u = f[t]
      BY <1>2 DEF Running
    <3>2. u = t /\ t.boiledAt = None /\ ~due(t)
      BY <1>6, <1>7, <3>1 DEF Running
    <3> QED
      BY <3>2 DEF Running
  <2>2. ASSUME NEW t \in Running(Y), ~due(t) PROVE t \in Running(Z)
    <3>1. t \in Y /\ t.boiledAt = None
      BY DEF Running
    <3>2. f[t] = t
      BY <1>6, <2>2, <3>1
    <3> QED
      BY <1>2, <3>1, <3>2 DEF Running
  <2> QED
    BY <2>1, <2>2
<1>13. CASE \A t \in Running(Y) : ~due(t)
  <2>1. Running(Z) = Running(Y)
    BY <1>12, <1>13
  <2>2. Boils(Z) = Boils(timers)
    BY <1>1, <2>1 DEF Boils
  <2>3. Quiet(Z, at, cfg)
    BY <1>1, <1>4, <1>5, <1>13, <2>1, <2>2 DEF Quiet
  <2> QED
    BY <1>9, <1>11, <2>3 DEF Z
<1>14. CASE \E t \in Running(Y) : due(t)
  <2>1. PICK d \in Running(Y) : due(d)
    BY <1>14
  <2>2. Running(Z) \subseteq Running(Y) \ {d}
    BY <1>12, <2>1
  <2>3. IsFiniteSet(Running(Y)) /\ IsFiniteSet(Running(timers))
    BY <1>1, BoilsAre
  <2>4. /\ IsFiniteSet(Running(Y) \ {d})
        /\ Cardinality(Running(Y) \ {d}) = Cardinality(Running(Y)) - 1
    BY <2>1, <2>3, FS_RemoveElement
  <2>5. IsFiniteSet(Running(Z)) /\ Cardinality(Running(Z)) <= Cardinality(Running(Y) \ {d})
    BY <2>2, <2>4, FS_Subset
  <2>6. /\ Cardinality(Running(Z)) \in Nat /\ Cardinality(Running(Y)) \in Nat
        /\ Cardinality(Running(timers)) \in Nat
    BY <2>3, <2>5, FS_CardinalityType
  <2>7. Cardinality(Running(Z)) < Cardinality(Running(timers))
    BY <1>1, <2>4, <2>5, <2>6
  <2> QED
    BY <1>3, <1>9, <1>11, <1>14, <2>7 DEF Z
<1> QED
  BY <1>13, <1>14

-----------------------------------------------------------------------------
(* fireDueTimers, and the synchronisation that follows it.                 *)

\* As many rounds as timers leave them quiet.
LEMMA DrainIs ==
  ASSUME NEW timers, Kettles(timers), NEW cfg, IsConfig(cfg), NEW at \in Nat
  PROVE  /\ Kettles(Drain(timers, at, cfg))
         /\ Renewed(timers, Drain(timers, at, cfg), at, cfg)
         /\ Quiet(Drain(timers, at, cfg), at, cfg)
<1> DEFINE n == Cardinality(timers)
           next(x) == Round(x, at, cfg)
           IsLoop(f, m) == f = [k \in 0..m |-> IF k = 0 THEN timers ELSE next(f[k - 1])]
           round == CHOOSE f : IsLoop(f, n)
           L == {m \in 0..n : \E f : IsLoop(f, m)}
<1>1. n \in Nat /\ IsFiniteSet(timers)
  BY FS_CardinalityType DEF Kettles
<1> HIDE DEF next, n
<1>2. 0 \in L
  <2> DEFINE h == [k \in 0..0 |-> timers]
  <2>1. IsLoop(h, 0)
    OBVIOUS
  <2> HIDE DEF h, IsLoop
  <2> QED
    BY <1>1, <2>1
<1>3. \A m \in 1..n : m - 1 \in L => m \in L
  <2> SUFFICES ASSUME NEW m \in 1..n, m - 1 \in L PROVE m \in L
    OBVIOUS
  <2>1. PICK f : IsLoop(f, m - 1)
    OBVIOUS
  <2> DEFINE h == [k \in 0..m |-> IF k = m THEN next(f[m - 1]) ELSE f[k]]
  <2>2. \A k \in 0..m : h[k] = IF k = 0 THEN timers ELSE next(h[k - 1])
    <3>1. \A k \in 0..(m - 1) : f[k] = IF k = 0 THEN timers ELSE next(f[k - 1])
      BY <2>1
    <3> QED
      BY <3>1
  <2>3. IsLoop(h, m)
    BY <2>2
  <2> HIDE DEF h
  <2> QED
    BY <1>1, <2>3
<1>4. n \in L
  <2> HIDE DEF L
  <2> QED
    BY <1>1, <1>2, <1>3, UpTo, Zenon
<1>5. IsLoop(round, n)
  <2> HIDE DEF IsLoop
  <2> QED
    BY <1>4
<1> HIDE DEF round
<1>6. round[0] = timers /\ \A k \in 1..n : round[k] = next(round[k - 1])
  BY <1>1, <1>5
<1> DEFINE Good(k) == /\ Kettles(round[k]) /\ Renewed(timers, round[k], at, cfg)
                      /\ \/ Quiet(round[k], at, cfg)
                         \/ Cardinality(Running(round[k])) + k <= n
           T == {k \in 0..n : Good(k)}
<1>7. Good(0)
  <2>1. Running(timers) \subseteq timers
    BY DEF Running
  <2>2. Cardinality(Running(timers)) <= n /\ Cardinality(Running(timers)) \in Nat
    BY <1>1, <2>1, FS_Subset, FS_CardinalityType DEF n
  <2>3. Renewed(timers, timers, at, cfg)
    BY DEF Renewed, Renews
  <2> QED
    BY <1>1, <1>6, <2>2, <2>3
<1>8. ASSUME NEW k \in 1..n, Good(k - 1) PROVE Good(k)
  <2> DEFINE x == round[k - 1]
             y == round[k]
  <2>1. y = Round(x, at, cfg) /\ Kettles(x) /\ Renewed(timers, x, at, cfg)
    BY <1>6, <1>8 DEF next
  <2>2. \/ Quiet(x, at, cfg)
        \/ Cardinality(Running(x)) + (k - 1) <= n
    BY <1>8
  <2> HIDE DEF x, y
  <2>3. /\ Kettles(y) /\ Renewed(x, y, at, cfg)
        /\ Quiet(y, at, cfg) \/ Cardinality(Running(y)) < Cardinality(Running(x))
        /\ Quiet(x, at, cfg) => Quiet(y, at, cfg)
    BY <2>1, RoundIs
  <2>4. Renewed(timers, y, at, cfg)
    BY <2>1, <2>3, RenewedOnwards
  <2>5. Cardinality(Running(x)) \in Nat /\ Cardinality(Running(y)) \in Nat
    BY <2>1, <2>3, BoilsAre, FS_CardinalityType
  <2>6. Quiet(y, at, cfg) \/ Cardinality(Running(y)) + k <= n
    BY <1>1, <2>2, <2>3, <2>5
  <2> QED
    BY <2>3, <2>4, <2>6 DEF y
<1> HIDE DEF Good
<1>9. 0 \in T /\ \A k \in 1..n : k - 1 \in T => k \in T
  BY <1>1, <1>7, <1>8
<1>10. n \in T
  <2> HIDE DEF T
  <2> QED
    BY <1>1, <1>9, UpTo, Zenon
<1> DEFINE last == round[n]
<1>11. /\ Kettles(last) /\ Renewed(timers, last, at, cfg)
       /\ \/ Quiet(last, at, cfg)
          \/ Cardinality(Running(last)) + n <= n
  BY <1>10 DEF Good
<1>12. Drain(timers, at, cfg) = last
  BY DEF Drain, round, next, Round, Mark, n
<1> HIDE DEF last
<1>13. Quiet(last, at, cfg)
  <2>1. IsFiniteSet(Running(last)) /\ Cardinality(Running(last)) \in Nat
    BY <1>11, BoilsAre, FS_CardinalityType
  <2>2. Cardinality(Running(last)) + n <= n => Running(last) = {}
    BY <1>1, <2>1, FS_EmptySet
  <2>3. Running(last) = {} => Quiet(last, at, cfg)
    BY DEF Quiet
  <2> QED
    BY <1>11, <2>2, <2>3
<1> QED
  BY <1>11, <1>12, <1>13

\* fire.ts: the timers that are due when the others have moved are marked, all at once.
LEMMA FireIs ==
  ASSUME NEW s, Sound(s), Kettles(s.timers), NEW cfg, IsConfig(cfg), NEW at \in Nat
  PROVE  /\ Kettles(FireDueTimers(s, at, cfg).timers)
         /\ Renewed(s.timers, FireDueTimers(s, at, cfg).timers, at, cfg)
         /\ Quiet(FireDueTimers(s, at, cfg).timers, at, cfg)
<1> DEFINE X == s.timers
           drained == Drain(X, at, cfg)
           final(t) == CHOOSE u \in drained : u.seq = t.seq
           boiled(t) == IF t.boiledAt = None /\ final(t).boiledAt # None THEN at ELSE t.boiledAt
           f == [t \in X |-> [t EXCEPT !.boiledAt = boiled(t), !.adjustment = final(t).adjustment]]
           new == FireDueTimers(s, at, cfg).timers
<1>1. /\ Kettles(drained) /\ Renewed(X, drained, at, cfg) /\ Quiet(drained, at, cfg)
  BY DrainIs
<1>2. new = {f[t] : t \in X}
  BY DEF FireDueTimers, Sound, IsState
<1>3. Kettles(X) /\ DOMAIN f = X /\ at # None /\ at \in Nat
  BY StoreEngineAssumption
<1> HIDE DEF new, drained, X
<1>4. ASSUME NEW t \in X PROVE final(t) \in drained /\ Renews(t, final(t), at, cfg)
  <2>1. PICK u \in drained : Renews(t, u, at, cfg)
    BY <1>1 DEF Renewed
  <2>2. final(t) \in drained /\ final(t).seq = t.seq
    BY <2>1 DEF Renews
  <2>3. final(t) = u
    BY <1>1, <2>1, <2>2 DEF Kettles, Renews
  <2> QED
    BY <2>1, <2>3
<1>5. \A u \in drained : \E t \in X : u = final(t)
  <2> SUFFICES ASSUME NEW u \in drained PROVE \E t \in X : u = final(t)
    OBVIOUS
  <2>1. PICK t \in X : Renews(t, u, at, cfg)
    BY <1>1 DEF Renewed
  <2>2. final(t).seq = u.seq /\ final(t) \in drained
    BY <1>4, <2>1 DEF Renews
  <2> QED
    BY <1>1, <2>2 DEF Kettles
<1> HIDE DEF final
<1>6. ASSUME NEW t \in X
      PROVE  /\ IsTimer(f[t]) /\ f[t].seq = t.seq /\ f[t].slots = t.slots
             /\ f[t].startTime = t.startTime /\ f[t].endTime = t.endTime
             /\ f[t].boiledAt = boiled(t) /\ f[t].adjustment = final(t).adjustment
  <2>1. IsTimer(t)
    BY <1>3 DEF Kettles
  <2>2. boiled(t) \in Nat \cup {None}
    BY <1>3, <2>1 DEF IsTimer
  <2> HIDE DEF boiled
  <2> QED
    BY <2>1, <2>2 DEF IsTimer
<1> HIDE DEF f
<1>7. Kettles(new)
  BY <1>2, <1>3, <1>6, ImageKettles DEF Kettles
<1>8. \A t \in X : f[t].boiledAt = None <=> final(t).boiledAt = None
  BY <1>3, <1>4, <1>6 DEF Renews
<1>9. \A t \in X : Renews(t, f[t], at, cfg)
  BY <1>4, <1>6, <1>8 DEF Renews
<1>10. Renewed(X, new, at, cfg)
  BY <1>2, <1>9 DEF Renewed
<1>11. \A t \in X : Boil(f[t]) = Boil(final(t)) /\ AdjustedEnd(f[t]) = AdjustedEnd(final(t))
  BY <1>4, <1>6 DEF Boil, Renews, AdjustedEnd
<1>12. Boils(new) = Boils(drained)
  <2>1. ASSUME NEW b \in Boils(new) PROVE b \in Boils(drained)
    <3>1. PICK u \in new : u.boiledAt = None /\ b = Boil(u)
      BY DEF Boils, Running
    <3>2. PICK t \in X : u = f[t]
      BY <1>2
    <3>3. final(t) \in drained /\ final(t).boiledAt = None /\ b = Boil(final(t))
      BY <1>4, <1>8, <1>11, <3>1, <3>2
    <3> QED
      BY <3>3 DEF Boils, Running
  <2>2. ASSUME NEW b \in Boils(drained) PROVE b \in Boils(new)
    <3>1. PICK u \in drained : u.boiledAt = None /\ b = Boil(u)
      BY DEF Boils, Running
    <3>2. PICK t \in X : u = final(t)
      BY <1>5
    <3>3. f[t] \in new /\ f[t].boiledAt = None /\ b = Boil(f[t])
      BY <1>2, <1>8, <1>11, <3>1, <3>2
    <3> QED
      BY <3>3 DEF Boils, Running
  <2> QED
    BY <2>1, <2>2
<1>13. Quiet(new, at, cfg)
  <2> SUFFICES ASSUME NEW u \in Running(new)
               PROVE  /\ u.adjustment = AdjustmentOf(Boil(u), Boils(new), cfg)
                      /\ u.adjustment \in Int /\ AdjustedEnd(u) > at + Epsilon
    BY DEF Quiet
  <2>1. PICK t \in X : u = f[t] /\ f[t].boiledAt = None
    BY <1>2 DEF Running
  <2>2. final(t) \in Running(drained)
    BY <1>4, <1>8, <2>1 DEF Running
  <2>3. u.adjustment = final(t).adjustment /\ Boil(u) = Boil(final(t))
        /\ AdjustedEnd(u) = AdjustedEnd(final(t))
    BY <1>6, <1>11, <2>1
  <2>4. /\ final(t).adjustment = AdjustmentOf(Boil(final(t)), Boils(drained), cfg)
        /\ final(t).adjustment \in Int /\ AdjustedEnd(final(t)) > at + Epsilon
    BY <1>1, <2>2 DEF Quiet
  <2> QED
    BY <1>12, <2>3, <2>4
<1> QED
  BY <1>7, <1>10, <1>13 DEF new, X

\* The alarm and the start of the object: the timers that are due are marked, and no other
\* is due when the rest has been synchronised.
LEMMA FiredIs ==
  ASSUME NEW s, Sound(s), ~DuplicatedSlot(s), Kettles(s.timers),
         NEW cfg, IsConfig(cfg), NEW at \in Nat
  PROVE  /\ Kettles(Decide(s, FireDueTimers(s, at, cfg), cfg).timers)
         /\ Renewed(s.timers, Decide(s, FireDueTimers(s, at, cfg), cfg).timers, at, cfg)
         /\ Quiet(Decide(s, FireDueTimers(s, at, cfg), cfg).timers, at, cfg)
<1> DEFINE fired == FireDueTimers(s, at, cfg)
           settled == Settle(fired, cfg)
<1>1. /\ Kettles(fired.timers) /\ Renewed(s.timers, fired.timers, at, cfg)
      /\ Quiet(fired.timers, at, cfg) /\ Sound(fired)
  BY FireIs, FireSound
<1> HIDE DEF fired
<1>2. settled.timers = Synchronize(fired.timers, cfg)
  BY <1>1 DEF Settle, Sound, IsState
<1> HIDE DEF settled
<1>3. /\ Kettles(settled.timers) /\ Renewed(fired.timers, settled.timers, at, cfg)
      /\ Quiet(settled.timers, at, cfg)
  BY <1>1, <1>2, SynchronizeIs, QuietStays
<1>4. Renewed(s.timers, settled.timers, at, cfg)
  BY <1>1, <1>3, RenewedOnwards
<1>5. ~DuplicatedSlot(settled)
  BY <1>4 DEF DuplicatedSlot, Renewed, Renews
<1>6. Decide(s, fired, cfg) = settled
  BY <1>5 DEF Decide, settled
<1> QED
  BY <1>3, <1>4, <1>6 DEF fired

-----------------------------------------------------------------------------
(* The other events: none of them marks a timer.                           *)

\* What a client or the POS moves: the timers are kept apart, and none is marked.
Tended(timers, new) ==
  /\ Kettles(new)
  /\ \A t \in new : t.boiledAt # None => \E u \in timers : u.seq = t.seq /\ u.boiledAt # None

LEMMA SameTended == ASSUME NEW timers, Kettles(timers) PROVE Tended(timers, timers)
  BY DEF Tended

LEMMA AddTended ==
  ASSUME NEW s, Sound(s), Kettles(s.timers), NEW slots, NEW firmness, NEW duration \in Nat,
         NEW item, NEW table, NEW at \in Nat,
         Sound(AddTimer(s, slots, firmness, duration, item, table, at))
  PROVE  Tended(s.timers, AddTimer(s, slots, firmness, duration, item, table, at).timers)
<1> DEFINE added == [seq |-> s.nextSeq, slots |-> slots, firmness |-> firmness,
                     startTime |-> at, endTime |-> at + duration,
                     boiledAt |-> None, adjustment |-> 0, item |-> item, table |-> table]
           new == AddTimer(s, slots, firmness, duration, item, table, at)
<1>1. new.timers = s.timers \cup {added}
  BY DEF AddTimer, Sound, IsState
<1>2. added.boiledAt = None /\ added.startTime <= added.endTime
  OBVIOUS
<1>3. Sound(new)
  OBVIOUS
<1> HIDE DEF added, new
<1>4. IsFiniteSet(new.timers)
  BY <1>1, FS_AddElement DEF Kettles
<1>5. Kettles(new.timers)
  BY <1>1, <1>2, <1>3, <1>4 DEF Kettles, Sound, IsState
<1> QED
  BY <1>1, <1>2, <1>5 DEF Tended, new

LEMMA StartTended ==
  ASSUME NEW s, Sound(s), Kettles(s.timers), NEW slots \in SlotSets, NEW duration,
         NEW at \in Nat, CanStart(s, slots, duration)
  PROVE  Tended(s.timers, StartTimer(s, slots, duration, at).timers)
<1>1. duration \in Nat
  BY StoreEngineAssumption DEF CanStart
<1>2. Sound(StartTimer(s, slots, duration, at))
  BY StartSound
<1> QED
  BY <1>1, <1>2, AddTended DEF StartTimer

LEMMA StartItemTended ==
  ASSUME NEW s, Sound(s), Kettles(s.timers), NEW slots \in SlotSets, NEW key \in Keys,
         NEW at \in Nat, CanStartOrderItem(s, slots, key, at)
  PROVE  Tended(s.timers, StartOrderItem(s, slots, key, at).timers)
<1> DEFINE item == ItemAt(s, key)
           duration == BoilTime[item.firmness]
           table == item.table
           firmness == item.firmness
<1>1. duration \in Nat
  BY BoilTimes DEF CanStartOrderItem
<1>2. Sound(StartOrderItem(s, slots, key, at))
  BY StartItemSound
<1>3. StartOrderItem(s, slots, key, at) = AddTimer(s, slots, firmness, duration, key, table, at)
  BY DEF StartOrderItem
<1> HIDE DEF item, duration, table, firmness
<1> QED
  BY <1>1, <1>2, <1>3, AddTended

LEMMA CancelTended ==
  ASSUME NEW s, Sound(s), Kettles(s.timers), NEW seq, NEW at
  PROVE  /\ Tended(s.timers, CancelTimer(s, seq, at).timers)
         /\ Tended(s.timers, CompleteTimer(s, seq, at).timers)
<1>1. /\ CancelTimer(s, seq, at).timers = Without(s.timers, seq)
      /\ CompleteTimer(s, seq, at).timers = Without(s.timers, seq)
  BY DEF CancelTimer, CompleteTimer, Sound, IsState
<1>2. Without(s.timers, seq) \subseteq s.timers
  BY DEF Without
<1>3. IsFiniteSet(Without(s.timers, seq))
  BY <1>2, FS_Subset DEF Kettles
<1> QED
  BY <1>1, <1>2, <1>3 DEF Kettles, Tended

\* A timer adjusted or given a table stays marked or not.
LEMMA ImageTended ==
  ASSUME NEW timers, Kettles(timers), NEW f, DOMAIN f = timers,
         \A t \in timers : /\ IsTimer(f[t]) /\ f[t].startTime <= f[t].endTime
                           /\ f[t].seq = t.seq /\ f[t].boiledAt = t.boiledAt
  PROVE  Tended(timers, {f[t] : t \in timers})
BY ImageKettles DEF Tended

LEMMA AdjustTended ==
  ASSUME NEW s, Sound(s), Kettles(s.timers), NEW seq, NEW firmness \in DOMAIN BoilTime
  PROVE  Tended(s.timers, AdjustTimer(s, seq, firmness).timers)
<1> DEFINE g(t) == IF t.seq = seq
                   THEN [t EXCEPT !.firmness = firmness,
                                  !.endTime = t.startTime + BoilTime[firmness]]
                   ELSE t
           f == [t \in s.timers |-> g(t)]
<1>1. AdjustTimer(s, seq, firmness).timers = {f[t] : t \in s.timers}
  BY DEF AdjustTimer, Sound, IsState
<1>2. \A t \in s.timers : /\ IsTimer(f[t]) /\ f[t].startTime <= f[t].endTime
                         /\ f[t].seq = t.seq /\ f[t].boiledAt = t.boiledAt
  <2> SUFFICES ASSUME NEW t \in s.timers
               PROVE  /\ IsTimer(g(t)) /\ g(t).startTime <= g(t).endTime
                      /\ g(t).seq = t.seq /\ g(t).boiledAt = t.boiledAt
    OBVIOUS
  <2>1. IsTimer(t) /\ t.startTime <= t.endTime /\ BoilTime[firmness] \in Nat
    BY BoilTimes DEF Kettles
  <2> QED
    BY <2>1 DEF IsTimer
<1>3. DOMAIN f = s.timers
  OBVIOUS
<1> HIDE DEF f
<1> QED
  BY <1>1, <1>2, <1>3, ImageTended

LEMMA AssignTended ==
  ASSUME NEW s, Sound(s), Kettles(s.timers), NEW key, NEW table, NEW at
  PROVE  Tended(s.timers, AssignTable(s, key, table, at).timers)
<1> DEFINE g(t) == IF t.item = key THEN [t EXCEPT !.table = table] ELSE t
           f == [t \in s.timers |-> g(t)]
<1>1. AssignTable(s, key, table, at).timers = {f[t] : t \in s.timers}
  BY DEF AssignTable, Sound, IsState
<1>2. \A t \in s.timers : /\ IsTimer(f[t]) /\ f[t].startTime <= f[t].endTime
                         /\ f[t].seq = t.seq /\ f[t].boiledAt = t.boiledAt
  <2> SUFFICES ASSUME NEW t \in s.timers
               PROVE  /\ IsTimer(g(t)) /\ g(t).startTime <= g(t).endTime
                      /\ g(t).seq = t.seq /\ g(t).boiledAt = t.boiledAt
    OBVIOUS
  <2>1. IsTimer(t) /\ t.startTime <= t.endTime
    BY DEF Kettles
  <2> QED
    BY <2>1 DEF IsTimer
<1>3. DOMAIN f = s.timers
  OBVIOUS
<1> HIDE DEF f
<1> QED
  BY <1>1, <1>2, <1>3, ImageTended

LEMMA OrdersTended ==
  ASSUME NEW s, Sound(s), Kettles(s.timers), NEW post, NEW at, NEW batch
  PROVE  /\ Tended(s.timers, PostOrder(s, post, at).timers)
         /\ Tended(s.timers, ArriveRecords(s, batch).timers)
<1>1. /\ PostOrder(s, post, at).timers = s.timers
      /\ ArriveRecords(s, batch).timers = s.timers
  BY DEF PostOrder, ArriveOrder, CancelOrder, ArriveRecords, Sound, IsState
<1> QED
  BY <1>1, SameTended

-----------------------------------------------------------------------------
(* The steps of the object.                                                *)

\* The timers of the store are in order, and where each of them is synchronised to is a time.
Kettled(timers) == Kettles(timers) /\ \A t \in Running(timers) : t.adjustment \in Int

\* A timer is called boiled when its window is open.
OpenedFrom(timers, new, at, cfg) ==
  \A t \in new : t.boiledAt # None =>
    \E u \in timers : /\ u.seq = t.seq
                      /\ \/ u.boiledAt # None
                         \/ 100 * (at + Epsilon) >= Left(t, cfg.ratio) - 50

LEMMA CfgIs == ASSUME Parts PROVE IsConfig(Cfg)
<1>1. projection = None \/ projection \in Projections
  BY DEF Parts, Control
<1> QED
  BY <1>1, ParamsAssumption DEF Cfg, IsConfig

LEMMA TendedDecides ==
  ASSUME NEW s, Sound(s), Kettled(s.timers), NEW moved, Sound(moved),
         Tended(s.timers, moved.timers), NEW cfg, IsConfig(cfg)
  PROVE  /\ Kettled(Decide(s, moved, cfg).timers)
         /\ Tended(s.timers, Decide(s, moved, cfg).timers)
<1> DEFINE settled == Settle(moved, cfg)
           Y == Synchronize(moved.timers, cfg)
<1>1. settled.timers = Y
  BY DEF Settle, Sound, IsState
<1>2. Kettles(moved.timers)
  BY DEF Tended
<1>3. /\ Kettles(Y) /\ \A t \in Running(Y) : t.adjustment \in Int
  <2>1. 0 \in Nat
    OBVIOUS
  <2> QED
    BY <1>2, <2>1, SynchronizeIs
<1>4. \A u \in Y : \E t \in moved.timers : u.seq = t.seq /\ u.boiledAt = t.boiledAt
  <2> DEFINE adj(t) == AdjustmentOf(Boil(t), Boils(moved.timers), cfg)
             g(t) == IF t.boiledAt = None THEN [t EXCEPT !.adjustment = adj(t)] ELSE t
  <2>1. Y = {g(t) : t \in moved.timers}
    BY DEF Synchronize
  <2>2. \A t \in moved.timers : g(t).seq = t.seq /\ g(t).boiledAt = t.boiledAt
    <3> HIDE DEF adj
    <3> QED
      OBVIOUS
  <2> HIDE DEF g
  <2> QED
    BY <2>1, <2>2
<1> HIDE DEF Y, settled
<1>5. Kettled(settled.timers) /\ Tended(s.timers, settled.timers)
  BY <1>1, <1>3, <1>4 DEF Kettled, Tended
<1>6. Tended(s.timers, s.timers)
  BY SameTended DEF Kettled
<1>7. Decide(s, moved, cfg) \in {s, settled}
  BY DEF Decide, settled
<1> QED
  BY <1>5, <1>6, <1>7

\* The part of the invariant that holds wherever the object crashes.
KettleInv == Kettled(disk.timers) /\ (effects # None => mem = disk)

\* What a step does to the timers of the store.
TimersStep ==
  Kettled(disk'.timers) /\ OpenedFrom(disk.timers, disk'.timers, now, Cfg)

LEMMA SameTimers == ASSUME KettleInv, disk' = disk PROVE TimersStep
  BY DEF KettleInv, TimersStep, OpenedFrom

\* An event that a client or the POS brings: either nothing is put, or the effects are due.
LEMMA HandleTimers ==
  ASSUME Parts, KettleInv, Idle, NEW moved, Sound(moved), Tended(disk.timers, moved.timers),
         NEW at \in Nat, Handle(moved, at)
  PROVE  /\ TimersStep /\ KettleInv'
         /\ UNCHANGED <<now, alarm, invocation>>
         /\ effects' = None => disk' = disk
<1> DEFINE next == Decide(disk, moved, Cfg)
<1>1. mem = disk /\ effects = None
  BY DEF Parts, MemoryIsDurable, Idle, Up
<1>2. Kettled(next.timers) /\ Tended(disk.timers, next.timers)
  BY CfgIs, TendedDecides DEF Parts, KettleInv
<1>3. RunEffects(disk, next, at) /\ UNCHANGED <<now, alarm, invocation>>
  BY <1>1 DEF Handle
<1> HIDE DEF next
<1>4. /\ disk' = disk \/ disk' = next
      /\ effects' = None => disk' = disk
      /\ mem' = disk'
  BY <1>1, <1>3, StoreEngineAssumption DEF RunEffects, NothingChanged, Persists, PersistFails
<1>5. TimersStep
  <2>1. CASE disk' = disk
    BY <2>1, SameTimers
  <2>2. CASE disk' = next
    BY <1>2, <2>2 DEF TimersStep, OpenedFrom, Tended
  <2> QED
    BY <1>4, <2>1, <2>2
<1> QED
  BY <1>3, <1>4, <1>5 DEF KettleInv, TimersStep

\* The alarm and a start of the object.
LEMMA FireTimers ==
  ASSUME Parts, KettleInv, RunEffects(disk, Decide(disk, FireDueTimers(disk, now, Cfg), Cfg), now)
  PROVE  /\ TimersStep /\ KettleInv'
         /\ disk' # disk => \A t \in Running(disk'.timers) : AdjustedEnd(t) > now + Epsilon
         /\ disk' # disk => effects' # None
<1> DEFINE next == Decide(disk, FireDueTimers(disk, now, Cfg), Cfg)
<1>1. /\ Kettles(next.timers) /\ Renewed(disk.timers, next.timers, now, Cfg)
      /\ Quiet(next.timers, now, Cfg)
  BY CfgIs, FiredIs DEF Parts, KettleInv, Kettled, Control
<1>2. RunEffects(disk, next, now)
  OBVIOUS
<1> HIDE DEF next
<1>3. /\ disk' = disk \/ (disk' = next /\ effects' # None)
      /\ mem' = disk'
  <2>1. now # None
    BY StoreEngineAssumption DEF Parts, Control
  <2> QED
    BY <1>2, <2>1 DEF RunEffects, NothingChanged, Persists, PersistFails
<1>4. CASE disk' = disk
  BY <1>3, <1>4, SameTimers DEF KettleInv
<1>5. CASE disk' = next /\ effects' # None
  <2>1. Kettled(next.timers)
    BY <1>1 DEF Kettled, Quiet
  <2>2. OpenedFrom(disk.timers, next.timers, now, Cfg)
    <3> SUFFICES ASSUME NEW u \in next.timers, u.boiledAt # None
                 PROVE  \E t \in disk.timers :
                          /\ t.seq = u.seq
                          /\ \/ t.boiledAt # None
                             \/ 100 * (now + Epsilon) >= Left(u, Cfg.ratio) - 50
      BY DEF OpenedFrom
    <3>1. PICK t \in disk.timers : Renews(t, u, now, Cfg)
      BY <1>1 DEF Renewed
    <3>2. t.seq = u.seq /\ Left(u, Cfg.ratio) = Left(t, Cfg.ratio)
      BY <3>1 DEF Renews, Left
    <3> QED
      BY <3>1, <3>2 DEF Renews
  <2>3. \A t \in Running(next.timers) : AdjustedEnd(t) > now + Epsilon
    BY <1>1 DEF Quiet
  <2> QED
    BY <1>3, <1>5, <2>1, <2>2, <2>3 DEF TimersStep, KettleInv
<1> QED
  BY <1>3, <1>4, <1>5

\* A handled event sets no alarm of its own, and a put of its own is followed by effects.
Handled ==
  /\ TimersStep /\ KettleInv'
  /\ UNCHANGED <<now, alarm, invocation>>
  /\ effects = None /\ (effects' = None => disk' = disk)

LEMMA CommandTimers ==
  ASSUME Parts, KettleInv,
         \/ \E slots \in SlotSets : \/ \E d \in Durations : Start(slots, d)
                                    \/ \E key \in Keys : StartItem(slots, key)
         \/ \E seq \in 0..(MaxStarts - 1) : \/ Cancel(seq) \/ Complete(seq)
                                            \/ \E f \in DOMAIN BoilTime : Adjust(seq, f)
         \/ \E key \in Keys, table \in Tables : Assign(key, table)
  PROVE  Handled
<1>1. now \in Nat /\ Sound(disk) /\ Kettles(disk.timers)
  BY DEF Parts, Control, KettleInv, Kettled
<1>2. Idle => mem = disk /\ effects = None
  BY DEF Parts, MemoryIsDurable, Idle
<1>3. ASSUME NEW slots \in SlotSets, NEW d \in Durations, Start(slots, d) PROVE Handled
  <2>1. Idle /\ CanStart(disk, slots, d) /\ Handle(StartTimer(disk, slots, d, now), now)
    BY <1>2, <1>3 DEF Start, FromClient
  <2>2. /\ Sound(StartTimer(disk, slots, d, now))
        /\ Tended(disk.timers, StartTimer(disk, slots, d, now).timers)
    BY <1>1, <2>1, StartSound, StartTended
  <2> QED
    BY <1>1, <1>2, <2>1, <2>2, HandleTimers DEF Handled
<1>4. ASSUME NEW slots \in SlotSets, NEW key \in Keys, StartItem(slots, key) PROVE Handled
  <2>1. /\ Idle /\ CanStartOrderItem(disk, slots, key, now)
        /\ Handle(StartOrderItem(disk, slots, key, now), now)
    BY <1>2, <1>4 DEF StartItem, FromClient
  <2>2. /\ Sound(StartOrderItem(disk, slots, key, now))
        /\ Tended(disk.timers, StartOrderItem(disk, slots, key, now).timers)
    BY <1>1, <2>1, StartItemSound, StartItemTended
  <2> QED
    BY <1>1, <1>2, <2>1, <2>2, HandleTimers DEF Handled
<1>5. ASSUME NEW seq \in 0..(MaxStarts - 1), Cancel(seq) PROVE Handled
  <2>1. Idle /\ Handle(CancelTimer(disk, seq, now), now)
    BY <1>2, <1>5 DEF Cancel, FromClient
  <2>2. /\ Sound(CancelTimer(disk, seq, now))
        /\ Tended(disk.timers, CancelTimer(disk, seq, now).timers)
    BY <1>1, CancelSound, CancelTended
  <2> QED
    BY <1>1, <1>2, <2>1, <2>2, HandleTimers DEF Handled
<1>6. ASSUME NEW seq \in 0..(MaxStarts - 1), Complete(seq) PROVE Handled
  <2>1. Idle /\ Handle(CompleteTimer(disk, seq, now), now)
    BY <1>2, <1>6 DEF Complete, FromClient
  <2>2. /\ Sound(CompleteTimer(disk, seq, now))
        /\ Tended(disk.timers, CompleteTimer(disk, seq, now).timers)
    BY <1>1, CancelSound, CancelTended
  <2> QED
    BY <1>1, <1>2, <2>1, <2>2, HandleTimers DEF Handled
<1>7. ASSUME NEW seq \in 0..(MaxStarts - 1), NEW f \in DOMAIN BoilTime, Adjust(seq, f)
      PROVE  Handled
  <2>1. Idle /\ Handle(AdjustTimer(disk, seq, f), now)
    BY <1>2, <1>7 DEF Adjust, FromClient
  <2>2. /\ Sound(AdjustTimer(disk, seq, f))
        /\ Tended(disk.timers, AdjustTimer(disk, seq, f).timers)
    BY <1>1, AdjustSound, AdjustTended
  <2> QED
    BY <1>1, <1>2, <2>1, <2>2, HandleTimers DEF Handled
<1>8. ASSUME NEW key \in Keys, NEW table \in Tables, Assign(key, table) PROVE Handled
  <2>1. Idle /\ Handle(AssignTable(disk, key, table, now), now)
    BY <1>2, <1>8 DEF Assign, FromClient
  <2>2. /\ Sound(AssignTable(disk, key, table, now))
        /\ Tended(disk.timers, AssignTable(disk, key, table, now).timers)
    BY <1>1, AssignSound, AssignTended
  <2> QED
    BY <1>1, <1>2, <2>1, <2>2, HandleTimers DEF Handled
<1> QED
  BY <1>3, <1>4, <1>5, <1>6, <1>7, <1>8

LEMMA OrderTimers ==
  ASSUME Parts, KettleInv, PostEnds \/ \E batch \in Batches : ReceiveRecords(batch)
  PROVE  Handled
<1>1. now \in Nat /\ Sound(disk) /\ Kettles(disk.timers) /\ (posting # None => posting.at \in Nat)
  BY DEF Parts, Control, KettleInv, Kettled
<1>2. Idle => mem = disk /\ effects = None
  BY DEF Parts, MemoryIsDurable, Idle
<1>3. CASE PostEnds
  <2> DEFINE post == posting.post
             at == posting.at
  <2>1. Idle /\ Handle(PostOrder(disk, post, at), at) /\ at \in Nat
    BY <1>1, <1>2, <1>3 DEF PostEnds
  <2> HIDE DEF post, at
  <2>2. Sound(PostOrder(disk, post, at))
    BY <1>1, OrdersSound DEF PostOrder
  <2>3. Tended(disk.timers, PostOrder(disk, post, at).timers)
    BY <1>1, OrdersTended
  <2> QED
    BY <1>2, <2>1, <2>2, <2>3, HandleTimers DEF Handled
<1>4. ASSUME NEW batch \in Batches, ReceiveRecords(batch) PROVE Handled
  <2>1. Idle /\ Handle(ArriveRecords(disk, batch), now)
    BY <1>2, <1>4 DEF ReceiveRecords
  <2>2. /\ Sound(ArriveRecords(disk, batch))
        /\ Tended(disk.timers, ArriveRecords(disk, batch).timers)
    BY <1>1, OrdersSound, OrdersTended
  <2> QED
    BY <1>1, <1>2, <2>1, <2>2, HandleTimers DEF Handled
<1> QED
  BY <1>3, <1>4

\* The steps that put nothing.
QuietStep ==
  \/ Tick \/ RunSideEffects \/ Hibernate \/ Crash \/ Connect \/ Disconnect
  \/ \E post \in Posts : PostBegins(post)
  \/ \E p \in Projections : ApplyProjection(p)

LEMMA QuietTimers ==
  ASSUME Parts, KettleInv, QuietStep
  PROVE  TimersStep /\ KettleInv' /\ disk' = disk
<1>1. disk' = disk /\ (effects' # None => effects' = effects /\ mem' = mem)
  BY DEF QuietStep, Tick, RunSideEffects, Hibernate, Crash, Connect, Disconnect, PostBegins,
         ApplyProjection, Idle
<1> QED
  BY <1>1, SameTimers DEF KettleInv

LEMMA FiringTimers ==
  ASSUME Parts, KettleInv, AlarmFires \/ Construct
  PROVE  /\ TimersStep /\ KettleInv'
         /\ disk' # disk => \A t \in Running(disk'.timers) : AdjustedEnd(t) > now + Epsilon
         /\ disk' # disk => effects' # None
<1>1. RunEffects(disk, Decide(disk, FireDueTimers(disk, now, Cfg), Cfg), now)
  <2>1. CASE AlarmFires
    <3>1. mem = disk
      BY <2>1 DEF AlarmFires, Parts, MemoryIsDurable, Idle
    <3> QED
      BY <2>1, <3>1 DEF AlarmFires, RunEffects
  <2>2. CASE Construct
    BY <2>2 DEF Construct
  <2> QED
    BY <2>1, <2>2
<1> QED
  BY <1>1, FireTimers

LEMMA NextTimers ==
  ASSUME Parts, KettleInv, [Next]_vars
  PROVE  /\ TimersStep /\ KettleInv'
         /\ (AlarmFires \/ Construct) /\ disk' # disk =>
              \A t \in Running(disk'.timers) : AdjustedEnd(t) > now + Epsilon
<1>1. CASE UNCHANGED vars
  BY <1>1, SameTimers DEF vars, KettleInv
<1>2. CASE AlarmFires \/ Construct
  BY <1>2, FiringTimers
<1>3. CASE QuietStep
  BY <1>3, QuietTimers
<1>4. CASE Next /\ ~(AlarmFires \/ Construct) /\ ~QuietStep
  BY <1>4, CommandTimers, OrderTimers DEF Next, QuietStep, Handled
<1> QED
  BY <1>1, <1>2, <1>3, <1>4

-----------------------------------------------------------------------------
(* The alarm.                                                              *)

\* With the object at rest an alarm is set exactly when a timer is running: for the
\* earliest one, or, after a failed put, when one is due already.
Armed ==
  effects = None =>
    IF Running(disk.timers) = {} THEN alarm = None
    ELSE /\ alarm # None
         /\ alarm.kind = "set" => /\ \A t \in Running(disk.timers) : alarm.at <= AdjustedEnd(t)
                                 /\ \E t \in Running(disk.timers) : alarm.at = AdjustedEnd(t)
         /\ alarm.kind # "set" => \E t \in Running(disk.timers) : AdjustedEnd(t) <= now + Epsilon

\* The ends of the running timers are times.
LEMMA EndsAre ==
  ASSUME KettleInv
  PROVE  /\ IsFiniteSet(Running(disk.timers))
         /\ \A t \in Running(disk.timers) : AdjustedEnd(t) \in Int
<1>1. Kettles(disk.timers) /\ \A t \in Running(disk.timers) : t.adjustment \in Int
  BY DEF KettleInv, Kettled
<1> QED
  <2>1. IsFiniteSet(Running(disk.timers))
    BY <1>1, BoilsAre
  <2>2. \A t \in Running(disk.timers) : t.endTime \in Nat
    BY <1>1 DEF Kettles, Running, IsTimer
  <2> QED
    BY <1>1, <2>1, <2>2 DEF AdjustedEnd

\* alarm.ts nextAlarmEffect: the effects of a put set the alarm for the earliest end.
LEMMA EffectsArm ==
  ASSUME Parts, KettleInv, RunSideEffects
  PROVE  Armed'
<1> DEFINE R == Running(disk.timers)
           ends == {AdjustedEnd(t) : t \in R}
           end == [t \in R |-> AdjustedEnd(t)]
<1>1. mem = disk /\ disk' = disk /\ effects # None
  BY DEF RunSideEffects, KettleInv
<1>2. alarm' = IF NextAlarm(disk.timers) = None THEN None
               ELSE [at |-> NextAlarm(disk.timers), retry |-> 0, kind |-> "set"]
  BY <1>1 DEF RunSideEffects
<1>3. NextAlarm(disk.timers) = IF R = {} THEN None ELSE Min(ends)
  BY DEF NextAlarm
<1>4. CASE R = {}
  BY <1>1, <1>2, <1>3, <1>4 DEF Armed
<1>5. CASE R # {}
  <2>1. ends = {end[t] : t \in R} /\ DOMAIN end = R /\ IsFiniteSet(R)
    BY EndsAre
  <2>2. ends \subseteq Int /\ ends # {}
    BY <1>5, EndsAre
  <2>3. \A t \in R : AdjustedEnd(t) \in ends
    OBVIOUS
  <2>4. \A x \in ends : \E t \in R : x = AdjustedEnd(t)
    OBVIOUS
  <2> HIDE DEF end, ends, R
  <2>5. IsFiniteSet(ends)
    BY <2>1, ImageFinite
  <2>6. Min(ends) \in ends /\ \A y \in ends : Min(ends) <= y
    BY <2>2, <2>5, MinIs
  <2>7. Min(ends) # None
    BY <2>2, <2>6, StoreEngineAssumption
  <2>8. alarm' = [at |-> Min(ends), retry |-> 0, kind |-> "set"]
    BY <1>2, <1>3, <1>5, <2>7
  <2>9. alarm' # None
    <3>1. alarm' \in [at : Int, retry : Nat, kind : {"set", "retry", "rearm"}]
      BY <2>2, <2>6, <2>8
    <3> QED
      BY <3>1, StoreTimerAssumption
  <2> QED
    BY <1>1, <1>5, <2>3, <2>4, <2>6, <2>8, <2>9 DEF Armed, R
<1> QED
  BY <1>4, <1>5

\* settle.ts, fire.ts: the alarm that is due finds a timer that is due, and when the put
\* fails there is another alarm.
LEMMA FiringArms ==
  ASSUME Parts, KettleInv, Armed, AlarmFires
  PROVE  Armed'
<1> DEFINE R == Running(disk.timers)
           next == Decide(disk, FireDueTimers(disk, now, Cfg), Cfg)
<1>1. /\ mem = disk /\ effects = None /\ now \in Nat
      /\ alarm # None /\ alarm.at <= now + AlarmSkew /\ alarm.retry \in Nat
      /\ alarm.kind \in {"set", "retry", "rearm"}
  BY DEF AlarmFires, Parts, MemoryIsDurable, Idle, Control, AlarmDue
<1>2. \E t \in R : AdjustedEnd(t) <= now + Epsilon
  <2>1. /\ R # {}
        /\ alarm.kind = "set" => \E t \in R : alarm.at = AdjustedEnd(t)
        /\ alarm.kind # "set" => \E t \in R : AdjustedEnd(t) <= now + Epsilon
    BY <1>1 DEF Armed
  <2>2. alarm.kind = "set" => \E t \in R : AdjustedEnd(t) <= now + Epsilon
    <3> SUFFICES ASSUME alarm.kind = "set"
                 PROVE  \E t \in R : AdjustedEnd(t) <= now + Epsilon
      OBVIOUS
    <3>1. PICK t \in R : alarm.at = AdjustedEnd(t)
      BY <2>1
    <3>2. AdjustedEnd(t) \in Int
      BY <3>1, EndsAre
    <3>3. AlarmSkew \in Nat /\ Epsilon \in Nat /\ AlarmSkew <= Epsilon
      BY StoreTimerAssumption, StoreEngineAssumption
    <3>4. AdjustedEnd(t) <= now + Epsilon
      BY <1>1, <3>1, <3>2, <3>3
    <3> QED
      BY <3>4
  <2> QED
    BY <2>1, <2>2
<1>3. Quiet(next.timers, now, Cfg)
  BY CfgIs, FiredIs DEF Parts, KettleInv, Kettled, Control
<1>4. next # disk
  <2>1. \A t \in R : AdjustedEnd(t) \in Int
    BY EndsAre
  <2>2. Epsilon \in Nat
    BY StoreEngineAssumption
  <2> HIDE DEF next
  <2> QED
    BY <1>1, <1>2, <1>3, <2>1, <2>2 DEF Quiet
<1>5. \/ Persists(disk, next, now)
      \/ PersistFails(disk, next) /\ AlarmFailed(alarm.retry)
  BY <1>1, <1>4 DEF AlarmFires, NothingChanged
<1>6. now' = now
  BY DEF AlarmFires
<1> HIDE DEF next
<1>7. CASE Persists(disk, next, now)
  BY <1>1, <1>7, StoreEngineAssumption DEF Persists, Armed
<1>8. CASE PersistFails(disk, next) /\ AlarmFailed(alarm.retry)
  <2>1. disk' = disk /\ effects' = None
    BY <1>1, <1>8 DEF PersistFails
  <2>2. \A delay \in Nat : Later(delay) \in Int
    <3> SUFFICES ASSUME NEW delay \in Nat PROVE Later(delay) \in Int
      OBVIOUS
    <3>1. now + delay \in Int /\ MaxTime \in Int
      BY <1>1, StoreTimerAssumption
    <3> DEFINE a == now + delay
    <3>2. Later(delay) = Min({a, MaxTime})
      BY DEF Later
    <3> HIDE DEF a
    <3>3. a \in Int
      BY <3>1 DEF a
    <3> QED
      BY <3>1, <3>2, <3>3, PairIs
  <2>3. alarm' # None /\ alarm'.kind # "set"
    <3>1. CASE alarm.retry >= AlarmRearmThreshold
      <4>1. alarm' = [at |-> Later(AlarmRearmDelay), retry |-> 0, kind |-> "rearm"]
        BY <1>8, <3>1 DEF AlarmFailed
      <4>2. Later(AlarmRearmDelay) \in Int
        BY <2>2, StoreTimerAssumption
      <4>3. alarm' \in [at : Int, retry : Nat, kind : {"set", "retry", "rearm"}]
        BY <4>1, <4>2
      <4> QED
        BY <4>1, <4>3, StoreTimerAssumption
    <3>2. CASE ~(alarm.retry >= AlarmRearmThreshold)
      <4>1. alarm.retry < AlarmMaxRetries
        BY <1>1, <3>2, StoreTimerAssumption, ParamsAssumption
      <4>2. alarm' = [at |-> Later(AlarmBackoff), retry |-> alarm.retry + 1, kind |-> "retry"]
        BY <1>8, <3>2, <4>1 DEF AlarmFailed, RetryOf
      <4>3. Later(AlarmBackoff) \in Int
        BY <2>2, StoreTimerAssumption
      <4>4. alarm' \in [at : Int, retry : Nat, kind : {"set", "retry", "rearm"}]
        BY <1>1, <4>2, <4>3
      <4> QED
        BY <4>2, <4>4, StoreTimerAssumption
    <3> QED
      BY <3>1, <3>2
  <2>4. R # {}
    BY <1>2
  <2> QED
    BY <1>2, <1>6, <2>1, <2>3, <2>4 DEF Armed
<1> QED
  BY <1>5, <1>7, <1>8

LEMMA NextArmed ==
  ASSUME Parts, KettleInv, Armed, [Next]_vars, "effects" \notin CrashPoints
  PROVE  Armed'
<1>1. CASE UNCHANGED vars
  BY <1>1 DEF vars, Armed
<1>2. CASE AlarmFires
  BY <1>2, FiringArms
<1>3. CASE RunSideEffects
  BY <1>3, EffectsArm
<1>4. CASE Tick
  <2>1. now \in Nat /\ now' = now + 1 /\ Epsilon \in Nat
    BY <1>4, StoreEngineAssumption DEF Tick, Parts, Control
  <2>2. \A t \in Running(disk.timers) :
          AdjustedEnd(t) <= now + Epsilon => AdjustedEnd(t) <= now' + Epsilon
    BY <2>1, EndsAre
  <2> QED
    BY <1>4, <2>2 DEF Tick, Armed
<1>5. CASE Crash
  <2>1. effects = None
    BY <1>5 DEF Crash
  <2>2. invocation = None
    BY <2>1 DEF Parts, Control
  <2> QED
    BY <1>5, <2>1, <2>2 DEF Crash, Armed
<1>6. CASE Construct
  <2>1. disk' # disk => effects' # None
    BY <1>6, FiringTimers
  <2>2. UNCHANGED <<now, alarm>> /\ (effects' = None => disk' = disk /\ effects = None)
    <3>1. now # None
      BY StoreEngineAssumption DEF Parts, Control
    <3> QED
      BY <1>6, <2>1, <3>1
         DEF Construct, RunEffects, NothingChanged, Persists, PersistFails
  <2> QED
    BY <2>2 DEF Armed
<1>7. CASE \/ Hibernate \/ Connect \/ Disconnect
           \/ \E post \in Posts : PostBegins(post)
           \/ \E p \in Projections : ApplyProjection(p)
  <2>1. UNCHANGED <<now, disk, effects, alarm>>
    BY <1>7 DEF Hibernate, Connect, Disconnect, PostBegins, ApplyProjection
  <2> QED
    BY <2>1 DEF Armed
<1>8. CASE Handled
  BY <1>8 DEF Handled, Armed
<1> QED
  BY <1>1, <1>2, <1>3, <1>4, <1>5, <1>6, <1>7, <1>8, CommandTimers, OrderTimers DEF Next

-----------------------------------------------------------------------------
(* The theorems.                                                           *)

LEMMA InitKettle == Init => KettleInv /\ Armed
<1> SUFFICES ASSUME Init PROVE KettleInv /\ Armed
  OBVIOUS
<1>1. disk.timers = {} /\ effects = None /\ alarm = None
  BY DEF Init, EmptyState
<1>2. Running(disk.timers) = {}
  BY <1>1 DEF Running
<1>3. Kettled(disk.timers)
  BY <1>1, <1>2, FS_EmptySet DEF Kettled, Kettles
<1> QED
  BY <1>1, <1>2, <1>3 DEF KettleInv, Armed

\* In every behaviour the timers of the store are finitely many, with whole-numbered ends.
THEOREM KettleInvHolds == Spec => []KettleInv
<1>1. Init => KettleInv
  BY InitKettle
<1>2. StoreInv /\ KettleInv /\ [Next]_vars => KettleInv'
  BY StoreInvParts, NextTimers
<1> QED
  BY <1>1, <1>2, Invariance, PTL DEF Spec

\* fire.ts: what the alarm or a start of the object puts has no running timer that is due.
THEOREM DrainsDueTimersHolds == Spec => DrainsDueTimers
<1>1. StoreInv /\ KettleInv /\ [Next]_vars =>
        [(AlarmFires \/ Construct) /\ disk' # disk =>
           \A t \in Running(disk'.timers) : AdjustedEnd(t) > now + Epsilon]_vars
  BY StoreInvParts, NextTimers
<1> QED
  BY <1>1, Invariance, KettleInvHolds, PTL DEF Spec, DrainsDueTimers

\* sync.ts, fire.ts: no timer is called boiled before its own tolerance window opens.
THEOREM BoilsInWindowHolds == Spec => BoilsInWindow
<1>1. StoreInv /\ KettleInv /\ [Next]_vars =>
        [\A t \in disk'.timers :
           t.boiledAt # None /\ (\E u \in Running(disk.timers) : u.seq = t.seq) =>
             100 * (now + Epsilon) >= Left(t, Cfg.ratio) - 50]_vars
  <2> SUFFICES ASSUME StoreInv, KettleInv, [Next]_vars,
                      NEW t \in disk'.timers, t.boiledAt # None,
                      NEW u \in Running(disk.timers), u.seq = t.seq
               PROVE  100 * (now + Epsilon) >= Left(t, Cfg.ratio) - 50
    OBVIOUS
  <2>1. OpenedFrom(disk.timers, disk'.timers, now, Cfg)
    BY StoreInvParts, NextTimers DEF TimersStep
  <2>2. PICK v \in disk.timers : /\ v.seq = t.seq
                                /\ \/ v.boiledAt # None
                                   \/ 100 * (now + Epsilon) >= Left(t, Cfg.ratio) - 50
    BY <2>1 DEF OpenedFrom
  <2>3. v = u /\ u.boiledAt = None
    BY <2>2 DEF KettleInv, Kettled, Kettles, Running
  <2> QED
    BY <2>2, <2>3
<1> QED
  BY <1>1, Invariance, KettleInvHolds, PTL DEF Spec, BoilsInWindow

\* alarm.ts nextAlarmEffect: unless the object crashes between a put and its effects, it
\* rests with the alarm set for the earliest running timer.
THEOREM AlarmArmedHolds == "effects" \notin CrashPoints => (Spec => []AlarmArmed)
<1> SUFFICES ASSUME "effects" \notin CrashPoints PROVE Spec => []AlarmArmed
  OBVIOUS
<1>1. Init => Armed
  BY InitKettle
<1>2. StoreInv /\ KettleInv /\ Armed /\ [Next]_vars => Armed'
  BY StoreInvParts, NextArmed
<1>3. Armed => AlarmArmed
  BY DEF Armed, AlarmArmed
<1> QED
  BY <1>1, <1>2, <1>3, Invariance, KettleInvHolds, PTL DEF Spec
=============================================================================
