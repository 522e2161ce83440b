---------------------------- MODULE StoreTimerDO ----------------------------
(***************************************************************************)
(* The Durable Object of one store (src/src/shell/store-timer-do.ts): its  *)
(* storage, its working copy, its alarm and its WebSockets, around the     *)
(* pure core in StoreEngine.                                               *)
(*                                                                         *)
(* A storage operation closes the object's input gate, so nothing else     *)
(* happens between an event and the end of its put, nor between the put    *)
(* and the effects that follow it; only a crash can come there.            *)
(***************************************************************************)
EXTENDS StoreEngine

CONSTANTS
  SlotSets,         \* sets of kettle slots a client may ask for
  Durations,        \* boil times of the ad hoc starts
  Keys, Tables,     \* what a client may start, and assign
  Posts,            \* bodies of the order POSTs: [order, lines], no lines to cancel
  Batches,          \* record batches, each delivered any number of times in any order
  Projections,      \* what the registry may send: [version, active, cfg]
  DefaultCfg,       \* the parameters before a projection
  CrashPoints,      \* where the object may crash: "idle", "effects"
  AlarmSkew,        \* how early, on the object's clock, the alarm may come
  AlarmMaxRetries, AlarmRearmThreshold, AlarmBackoff, AlarmRearmDelay,
  MaxTime, LastStart, MaxFaults, MaxStarts   \* bounds of the runs

ASSUME StoreTimerAssumption ==
  /\ AlarmSkew \in 0..Epsilon
  /\ AlarmMaxRetries \in Nat /\ AlarmRearmThreshold \in Nat
  /\ AlarmBackoff \in Nat /\ AlarmRearmDelay \in Nat
  /\ MaxTime \in Nat /\ LastStart \in Nat /\ MaxFaults \in Nat /\ MaxStarts \in Nat
  /\ CrashPoints \subseteq {"idle", "effects"}
  /\ {} \notin SlotSets
  /\ None \notin [at : Int, retry : Nat, kind : {"set", "retry", "rearm"}]

\* The registry sends and the defaults have a number of arms and a tolerance in percent; a
\* failing alarm handler sets a new alarm before the platform gives up.
ASSUME ParamsAssumption ==
  /\ \A cfg \in {p.cfg : p \in Projections} \cup {DefaultCfg} :
       cfg.arms \in Nat \ {0} /\ cfg.ratio \in Nat
  /\ AlarmRearmThreshold <= AlarmMaxRetries

\* Orders are numbers, for the order of their ids; lines are numbered on the order.
ASSUME ArrivalsAssumption ==
  /\ \A post \in Posts :
       post.order \in Nat /\ \A line \in post.lines : line.index \in Nat
  /\ \A batch \in Batches : Len(batch) \in Nat /\ \A k \in 1..Len(batch) :
       /\ batch[k].order \in Nat /\ batch[k].arrival \in Nat
       /\ \A line \in batch[k].lines : line.index \in Nat

VARIABLES
  now,          \* Date.now()
  disk,         \* the stored snapshot
  mem,          \* workingCopy, None while the object is not in memory
  effects,      \* time of the event whose side effects are to run, or None
  alarm,        \* the scheduled alarm [at, retry, kind], or None
  invocation,   \* retryCount of the alarm handler that is running, or None
  view,         \* the last snapshot sent to a client (any one of them), None while it is away
  projection,   \* the stored projection and the configuration taken from it, or None
  posting,      \* an order POST past the provision check, its body awaited: [post, at]
  faults        \* puts that failed

vars == <<now, disk, mem, effects, alarm, invocation, view, projection, posting, faults>>

Up == mem # None
Idle == Up /\ effects = None

Cfg == IF projection = None THEN DefaultCfg ELSE projection.cfg

Active == projection # None /\ projection.active

Init ==
  /\ now = 0
  /\ disk = EmptyState /\ mem = None /\ effects = None
  /\ alarm = None /\ invocation = None
  /\ view = None /\ projection = None /\ posting = None
  /\ faults = 0

Tick ==
  /\ now < MaxTime
  /\ now' = now + 1
  /\ UNCHANGED <<disk, mem, effects, alarm, invocation, view, projection, posting, faults>>

-----------------------------------------------------------------------------
(* runEffects: Persist first; the working copy follows the put, the other  *)
(* effects follow in RunSideEffects.  An event that changes nothing has    *)
(* no effects at all.                                                      *)

\* Mutant: the working copy takes the new state before the put.
MutPersistFails(base, next) ==
  /\ next # base
  /\ faults < MaxFaults
  /\ faults' = faults + 1
  /\ mem' = next
  /\ UNCHANGED <<disk, effects>>

PersistFails(base, next) ==
  /\ next # base
  /\ faults < MaxFaults
  /\ faults' = faults + 1
  /\ mem' = base
  /\ UNCHANGED <<disk, effects>>

Persists(base, next, at) ==
  /\ next # base
  /\ disk' = next /\ mem' = next
  /\ effects' = at
  /\ UNCHANGED faults

NothingChanged(base, next) ==
  /\ next = base
  /\ mem' = base
  /\ UNCHANGED <<disk, effects, faults>>

RunEffects(base, next, at) ==
  \/ NothingChanged(base, next)
  \/ Persists(base, next, at)
  \/ PersistFails(base, next)

\* Mutant: the snapshot is only broadcast when there is an alarm to set.
MutBroadcast(at) ==
  view' = IF view = None \/ NextAlarm(mem.timers) = None THEN view ELSE Snapshot(mem, at)

Broadcast(at) == view' = IF view = None THEN None ELSE Snapshot(mem, at)

\* SetAlarm or ClearAlarm, then Broadcast; neither is awaited.
RunSideEffects ==
  /\ effects # None
  /\ alarm' = IF NextAlarm(mem.timers) = None THEN None
              ELSE [at |-> NextAlarm(mem.timers), retry |-> 0, kind |-> "set"]
  /\ Broadcast(effects)
  /\ effects' = None /\ invocation' = None
  /\ UNCHANGED <<now, disk, mem, projection, posting, faults>>

-----------------------------------------------------------------------------
(* The life of the object.                                                 *)

\* The constructor: load, then decide Reconcile.  Any event to the store wakes it.
Construct ==
  /\ mem = None
  /\ RunEffects(disk, Decide(disk, FireDueTimers(disk, now, Cfg), Cfg), now)
  /\ UNCHANGED <<now, alarm, invocation, view, projection, posting>>

\* Eviction from memory with nothing to do; the sockets stay with the platform.
Hibernate ==
  /\ Idle /\ posting = None
  /\ mem' = None
  /\ UNCHANGED <<now, disk, effects, alarm, invocation, view, projection, posting, faults>>

\* The clock stops at MaxTime, so nothing is put off beyond it.
Later(delay) == Min({now + delay, MaxTime})

\* The platform tries an alarm handler that did not end again, AlarmMaxRetries times.
RetryOf(retry) ==
  IF retry < AlarmMaxRetries
  THEN [at |-> Later(AlarmBackoff), retry |-> retry + 1, kind |-> "retry"] ELSE None

\* Crash or deploy: sockets and requests in flight are gone.
Crash ==
  /\ Up /\ (IF effects = None THEN "idle" ELSE "effects") \in CrashPoints
  /\ mem' = None /\ effects' = None /\ view' = None /\ posting' = None
  /\ alarm' = IF invocation = None THEN alarm ELSE RetryOf(invocation)
  /\ invocation' = None
  /\ UNCHANGED <<now, disk, projection, faults>>

-----------------------------------------------------------------------------
(* The alarm.                                                              *)

\* Mutant: the handler throws however often it has been tried.
MutAlarmFailed(retry) == alarm' = RetryOf(retry)

\* The put failed: throw for a retry, or set a new alarm before the retries run out.
AlarmFailed(retry) ==
  alarm' = IF retry >= AlarmRearmThreshold
           THEN [at |-> Later(AlarmRearmDelay), retry |-> 0, kind |-> "rearm"]
           ELSE RetryOf(retry)

AlarmDue == alarm # None /\ alarm.at <= now + AlarmSkew

AlarmFires ==
  LET next == Decide(mem, FireDueTimers(mem, now, Cfg), Cfg)
  IN  /\ Idle /\ AlarmDue
      /\ \/ /\ NothingChanged(mem, next)
            /\ alarm' = None /\ invocation' = None
         \/ /\ Persists(mem, next, now)
            /\ alarm' = None /\ invocation' = alarm.retry
         \/ /\ PersistFails(mem, next)
            /\ AlarmFailed(alarm.retry) /\ invocation' = None
      /\ UNCHANGED <<now, view, projection, posting>>

-----------------------------------------------------------------------------
(* Commands on a WebSocket.                                                *)

Handle(moved, at) ==
  /\ RunEffects(mem, Decide(mem, moved, Cfg), at)
  /\ UNCHANGED <<now, alarm, invocation, view, projection>>

FromClient(moved) ==
  /\ Idle /\ view # None
  /\ Handle(moved, now)
  /\ UNCHANGED posting

MayStart == now <= LastStart /\ mem.nextSeq < MaxStarts

Start(slots, duration) ==
  /\ Idle /\ MayStart /\ CanStart(mem, slots, duration)
  /\ FromClient(StartTimer(mem, slots, duration, now))

StartItem(slots, key) ==
  /\ Idle /\ MayStart /\ CanStartOrderItem(mem, slots, key, now)
  /\ FromClient(StartOrderItem(mem, slots, key, now))

Cancel(seq) ==
  /\ Idle /\ HasTimer(mem, seq)
  /\ FromClient(CancelTimer(mem, seq, now))

Complete(seq) ==
  /\ Idle /\ HasTimer(mem, seq)
  /\ FromClient(CompleteTimer(mem, seq, now))

Adjust(seq, firmness) ==
  /\ Idle /\ HasTimer(mem, seq)
  /\ FromClient(AdjustTimer(mem, seq, firmness))

Assign(key, table) ==
  /\ Idle /\ CanAssignTable(mem, key)
  /\ FromClient(AssignTable(mem, key, table, now))

\* fetch of a WebSocket: the client is hydrated.
Connect ==
  /\ Idle /\ Active /\ view = None
  /\ view' = Snapshot(mem, now)
  /\ UNCHANGED <<now, disk, mem, effects, alarm, invocation, projection, posting, faults>>

Disconnect ==
  /\ view # None
  /\ view' = None
  /\ UNCHANGED <<now, disk, mem, effects, alarm, invocation, projection, posting, faults>>

-----------------------------------------------------------------------------
(* Orders and the registry.                                                *)

\* receiveOrder up to `await request.json()`: the provision and the clock are read here.
PostBegins(post) ==
  /\ Idle /\ Active /\ posting = None
  /\ posting' = [post |-> post, at |-> now]
  /\ UNCHANGED <<now, disk, mem, effects, alarm, invocation, view, projection, faults>>

PostOrder(s, post, at) ==
  IF post.lines = {} THEN CancelOrder(s, post.order)
  ELSE ArriveOrder(s, {ToOrderItem(post.order, line, at) : line \in post.lines})

\* The body is there: the order is decided on the state of this moment.
PostEnds ==
  /\ Idle /\ posting # None
  /\ Handle(PostOrder(mem, posting.post, posting.at), posting.at)
  /\ posting' = None

ReceiveRecords(batch) ==
  /\ Idle /\ Active
  /\ Handle(ArriveRecords(mem, batch), now)
  /\ UNCHANGED posting

\* A version behind the stored one is ignored; deactivation closes the sockets.  The
\* running timers are not synchronised anew.
ApplyProjection(p) ==
  /\ Idle
  /\ projection # None => p.version >= projection.version
  /\ projection' = p
  /\ view' = IF p.active THEN view ELSE None
  /\ UNCHANGED <<now, disk, mem, effects, alarm, invocation, posting, faults>>

-----------------------------------------------------------------------------
Next ==
  \/ Tick \/ RunSideEffects
  \/ Construct \/ Hibernate \/ Crash \/ AlarmFires
  \/ \E slots \in SlotSets : \/ \E d \in Durations : Start(slots, d)
                             \/ \E key \in Keys : StartItem(slots, key)
  \/ \E seq \in 0..(MaxStarts - 1) : \/ Cancel(seq) \/ Complete(seq)
                                     \/ \E f \in DOMAIN BoilTime : Adjust(seq, f)
  \/ \E key \in Keys, table \in Tables : Assign(key, table)
  \/ Connect \/ Disconnect
  \/ \E post \in Posts : PostBegins(post)
  \/ PostEnds
  \/ \E batch \in Batches : ReceiveRecords(batch)
  \/ \E p \in Projections : ApplyProjection(p)

Spec == Init /\ [][Next]_vars

\* The clock runs, an event that is handled is handled to its end, and the platform
\* delivers a due alarm to the object, waking it if need be.  The last two are the weak
\* fairness of Construct while the alarm is due and the strong fairness of AlarmFires with
\* the conditions that enable them written out.
Fairness ==
  /\ WF_vars(Tick) /\ WF_vars(RunSideEffects)
  /\ []<>~(mem = None /\ AlarmDue)
  /\ []<>(Idle /\ AlarmDue) => []<><<AlarmFires>>_vars

FairSpec == Spec /\ Fairness

-----------------------------------------------------------------------------
(* Properties.                                                             *)

IsTimer(t) ==
  /\ DOMAIN t = {"seq", "slots", "firmness", "startTime", "endTime", "boiledAt",
                 "adjustment", "item", "table"}
  /\ t.seq \in Nat /\ t.slots \in SlotSets /\ t.firmness \in DOMAIN BoilTime
  /\ t.startTime \in Nat /\ t.endTime \in Nat
  /\ t.boiledAt \in Nat \cup {None} /\ t.item \in Keys \cup {None}

IsState(s) ==
  /\ DOMAIN s = {"timers", "nextSeq", "items", "last"}
  /\ s.nextSeq \in Nat
  /\ \A t \in s.timers : IsTimer(t)

\* The shape of every variable.
TypeOK ==
  /\ now \in Nat /\ faults \in 0..MaxFaults
  /\ IsState(disk) /\ (Up => IsState(mem))
  /\ effects \in Nat \cup {None}
  /\ alarm # None => alarm.retry \in Nat /\ alarm.kind \in {"set", "retry", "rearm"}
  /\ invocation \in Nat \cup {None} /\ (invocation # None => effects # None)
  /\ projection \in Projections \cup {None}
  /\ posting # None => posting.post \in Posts /\ posting.at \in 0..now

\* store-timer-do.ts runEffects: whatever puts failed, what the object answers from is
\* what it would load after a crash.
MemoryIsDurable == Up => mem = disk

\* Seen through its storage, the object with its working copy, its failing puts, evictions
\* and crashes takes each event whole or not at all, on the state all earlier ones left.
Atomic == INSTANCE AtomicStore WITH state <- disk, Firmness <- DOMAIN BoilTime
ImplementsAtomicStore == Atomic!Spec

\* decide.ts duplicatedSlot (ADR-0015): no two timers hold the same kettle slot.
OneTimerPerSlot ==
  \A t, u \in disk.timers : t.slots \cap u.slots # {} => t = u

\* start.ts startOrderItemTimer: no dish is in the kettles twice, across cancelled,
\* truncated and redelivered orders.
OneTimerPerItem ==
  \A t, u \in disk.timers : t.item # None /\ t.item = u.item => t = u

\* start.ts: a number is never given twice, to timers of this or of an earlier life of the
\* object; with the rest of StoreInv, the inductive invariant of the proofs.
TimersNumbered ==
  \A t \in disk.timers : /\ t.seq < disk.nextSeq
                         /\ \A u \in disk.timers : t.seq = u.seq => t = u

StoreInv ==
  TypeOK /\ MemoryIsDurable /\ TimersNumbered /\ OneTimerPerSlot /\ OneTimerPerItem

\* alarm.ts nextAlarmEffect: with the object at rest an alarm is set exactly when a timer
\* is running, and for the earliest of them unless a failed put has put it off.
AlarmArmed ==
  effects = None =>
    IF Running(disk.timers) = {} THEN alarm = None
    ELSE /\ alarm # None
         /\ alarm.kind = "set" => /\ \A t \in Running(disk.timers) : alarm.at <= AdjustedEnd(t)
                                 /\ \E t \in Running(disk.timers) : alarm.at = AdjustedEnd(t)

\* store-timer-do.ts applySideEffect: "a missing alarm is recovered by the reconcile of the
\* next start": an object that has started has an alarm for its running timers.
AlarmRecovered == Idle /\ Running(disk.timers) # {} => alarm # None

\* settle.ts assembleEffects: once the effects are done, connected clients show the stored
\* timers and every item that is still to be shown, whoever changed them.
ViewMatches ==
  effects = None /\ view # None =>
    /\ view.timers = WireTimers(disk.timers)
    /\ OrderItemsToBroadcast(disk.items, disk.timers, now) \subseteq view.items
    /\ view.items \subseteq disk.items

\* fire.ts fireDueTimers: what the alarm or a start of the object puts has no running timer
\* that is due, however the others moved when the due ones were taken out.
DrainsDueTimers ==
  [][(AlarmFires \/ Construct) /\ disk' # disk =>
       \A t \in Running(disk'.timers) : AdjustedEnd(t) > now + Epsilon]_vars

\* fire.ts, sync.ts: no timer is called boiled before its own tolerance window opens.
BoilsInWindow ==
  [][\A t \in disk'.timers :
       t.boiledAt # None /\ (\E u \in Running(disk.timers) : u.seq = t.seq) =>
         100 * (now + Epsilon) >= Left(t, Cfg.ratio) - 50]_vars

\* assign-table.ts, pending.ts withOrderAttributes: once the store has decided the table of
\* an item, the kettle and the list agree on it, whatever the POS says later.
AssignedTableShared ==
  \A i \in disk.items, t \in disk.timers :
    RefersTo(t, i) /\ i.tableAssignedAt # None => t.table = i.table

\* receive.ts arriveRecords (AC 6.10, Property 14): the newest record accepted from a
\* terminal is the one the list shows: all its lines, and of its order nothing else that
\* the kitchen has not touched.
NewestRecordShows ==
  \A batch \in Batches : \A k \in DOMAIN batch :
    LET r == batch[k] IN
    disk.last[r.terminal] = r.sequence =>
      /\ \A line \in r.lines : \E i \in disk.items :
           Key(i) = <<r.order, line.index>> /\ i.firmness = line.firmness
      /\ \A i \in disk.items :
           /\ i.order = r.order /\ i.interruptedAt = None
           /\ ItemStatus(i, disk.timers) = "unstarted"
           => \E line \in r.lines : line.index = i.index

\* pending.ts: an item that is cooking or done is never lost (the list being within its
\* limit), its wait is never reset, and done is never undone, by POS or by kitchen.
KitchenFactsKept ==
  [][\A i \in disk.items : ItemStatus(i, disk.timers) # "unstarted" =>
       \E j \in disk'.items :
         /\ Key(j) = Key(i) /\ j.arrival = i.arrival
         /\ i.completedAt # None => j.completedAt # None]_vars

\* A timer that runs ends up boiled, or is taken off by the kitchen, in spite of failing
\* puts, evictions and crashes between events (ALARM_REARM_THRESHOLD).
EventuallyBoils ==
  \A seq \in 0..(MaxStarts - 1) :
    (\E t \in Running(disk.timers) : t.seq = seq) ~> (\A t \in Running(disk.timers) : t.seq # seq)
=============================================================================
