---------------------------- MODULE StoreEngine -----------------------------
(***************************************************************************)
(* The pure core of a store (src/src/engine/): what each event makes of    *)
(* the store's state, a record                                             *)
(*   [timers, nextSeq, items, last]                                        *)
(* with last the newest POS record accepted from each terminal.  A timer   *)
(* is a record                                                             *)
(*   [seq, slots, firmness, startTime, endTime, boiledAt, adjustment,      *)
(*    item, table].                                                        *)
(* A timer's random id is minted with its seq and never reused; seq stands *)
(* for both.  Every operator gives the state the event moves to; the       *)
(* guards (Can...) are the rejections, which leave the state as it was.    *)
(***************************************************************************)
EXTENDS BoilSync, OrderItems

CONSTANTS
  Terminals,        \* POS terminals
  BoilTime,         \* the preset's boil time for each firmness
  DefaultFirmness,
  MaxBoilTime,      \* BOIL_SECONDS_MAX; the minimum is one time unit
  Capacity,         \* MAX_TIMERS
  Epsilon           \* EPSILON_MS, in time units

ASSUME StoreEngineAssumption ==
  /\ DOMAIN BoilTime # {} /\ \A f \in DOMAIN BoilTime : BoilTime[f] \in 1..MaxBoilTime
  /\ DefaultFirmness \in DOMAIN BoilTime
  /\ MaxBoilTime \in Nat /\ Capacity \in Nat \ {0} /\ Epsilon \in Nat
  /\ None \notin Int

EmptyState == [timers |-> {}, nextSeq |-> 0, items |-> {}, last |-> [x \in Terminals |-> None]]

-----------------------------------------------------------------------------
(* settle and decide: what every event ends with.                          *)

\* Two timers on one kettle slot.
DuplicatedSlot(s) == \E t, u \in s.timers : t.seq # u.seq /\ t.slots \cap u.slots # {}

\* The running timers are synchronised anew after every move.
Settle(moved, cfg) == [moved EXCEPT !.timers = Synchronize(@, cfg)]

\* Mutant: the result is not checked for a slot held twice.
MutDecide(s, moved, cfg) == Settle(moved, cfg)

\* A result with a slot held twice is rejected, unless it was so before.
Decide(s, moved, cfg) ==
  LET settled == Settle(moved, cfg)
  IN  IF DuplicatedSlot(settled) /\ ~DuplicatedSlot(s) THEN s ELSE settled

\* Mutant: boiled timers are not left out.
MutNextAlarm(timers) ==
  IF timers = {} THEN None ELSE Min({AdjustedEnd(t) : t \in timers})

\* nextAlarmEffect: the earliest end of the running timers, None for ClearAlarm.
NextAlarm(timers) ==
  IF Running(timers) = {} THEN None ELSE Min({AdjustedEnd(t) : t \in Running(timers)})

\* toWireSnapshot, without serverTime; a wire timer has no boiledAt, a client derives it
\* from the end.
WireTimers(timers) ==
  {[seq |-> t.seq, slots |-> t.slots, firmness |-> t.firmness, startTime |-> t.startTime,
    endTime |-> AdjustedEnd(t), item |-> t.item] : t \in timers}

Snapshot(s, now) ==
  [timers |-> WireTimers(s.timers),
   items |-> OrderItemsToBroadcast(s.items, s.timers, now)]

-----------------------------------------------------------------------------
(* The kitchen's commands.                                                 *)

AddTimer(s, slots, firmness, duration, item, table, now) ==
  [s EXCEPT !.timers = @ \cup {[seq |-> s.nextSeq, slots |-> slots, firmness |-> firmness,
                                startTime |-> now, endTime |-> now + duration,
                                boiledAt |-> None, adjustment |-> 0,
                                item |-> item, table |-> table]},
            !.nextSeq = @ + 1]

CanStart(s, slots, duration) ==
  /\ slots # {} /\ duration \in 1..MaxBoilTime
  /\ Cardinality(s.timers) < Capacity

\* Mutant: an ad hoc timer has no firmness until it is adjusted.
MutStartTimer(s, slots, duration, now) ==
  AddTimer(s, slots, None, duration, None, None, now)

StartTimer(s, slots, duration, now) ==
  AddTimer(s, slots, DefaultFirmness, duration, None, None, now)

\* Mutant: the item only has to be on the list.
MutCanStartOrderItem(s, slots, key, now) ==
  /\ slots # {} /\ Cardinality(s.timers) < Capacity
  /\ \E i \in s.items : Key(i) = key

ItemAt(s, key) == CHOOSE i \in s.items : Key(i) = key

\* Only an item that waits, of a noodle the store has a preset for.
CanStartOrderItem(s, slots, key, now) ==
  /\ slots # {} /\ Cardinality(s.timers) < Capacity
  /\ \E i \in PendingOrders(s.items, s.timers, now) : Key(i) = key
  /\ ItemAt(s, key).firmness \in DOMAIN BoilTime

StartOrderItem(s, slots, key, now) ==
  LET item == ItemAt(s, key)
  IN  AddTimer(s, slots, item.firmness, BoilTime[item.firmness], key, item.table, now)

HasTimer(s, seq) == \E t \in s.timers : t.seq = seq

Without(timers, seq) == {t \in timers : t.seq # seq}

\* The items with the one that timer seq was started from marked at `now`.
IsSource(s, seq, item) == \E t \in s.timers : t.seq = seq /\ RefersTo(t, item)

CancelTimer(s, seq, now) ==
  [s EXCEPT !.timers = Without(@, seq),
            !.items = {IF IsSource(s, seq, i) THEN [i EXCEPT !.interruptedAt = now] ELSE i : i \in @}]

CompleteTimer(s, seq, now) ==
  [s EXCEPT !.timers = Without(@, seq),
            !.items = {IF IsSource(s, seq, i) THEN [i EXCEPT !.completedAt = now] ELSE i : i \in @}]

\* A boiled timer is adjusted as well: its end moves, boiledAt stays.
AdjustTimer(s, seq, firmness) ==
  [s EXCEPT !.timers = {IF t.seq = seq
                        THEN [t EXCEPT !.firmness = firmness,
                                       !.endTime = t.startTime + BoilTime[firmness]]
                        ELSE t : t \in @}]

CanAssignTable(s, key) == \E i \in s.items : Key(i) = key

AssignTable(s, key, table, now) ==
  [s EXCEPT !.items = {IF Key(i) = key THEN [i EXCEPT !.table = table, !.tableAssignedAt = now]
                       ELSE i : i \in @},
            !.timers = {IF t.item = key THEN [t EXCEPT !.table = table] ELSE t : t \in @}]

-----------------------------------------------------------------------------
(* Boiled: every running timer due within Epsilon is marked, the others    *)
(* synchronised anew, and again until no other becomes due.                *)

\* Mutant: one round only.
MutDrain(timers, now, cfg) ==
  LET synced == Synchronize(timers, cfg)
  IN  {IF t.boiledAt = None /\ AdjustedEnd(t) <= now + Epsilon
       THEN [t EXCEPT !.boiledAt = now] ELSE t : t \in synced}

\* Mutant: a due timer takes its whole cluster along.
MutDrainCluster(timers, now, cfg) ==
  LET synced == Synchronize(timers, cfg)
      due(t) == AdjustedEnd(t) <= now + Epsilon
  IN  {IF t.boiledAt = None /\ \E u \in ClusterOf(t, Running(synced), cfg.ratio) : due(u)
       THEN [t EXCEPT !.boiledAt = now] ELSE t : t \in synced}

\* Every round but the last marks a timer, so as many rounds as timers are enough.
Drain(timers, now, cfg) ==
  LET round[k \in 0..Cardinality(timers)] ==
        IF k = 0 THEN timers
        ELSE {IF t.boiledAt = None /\ AdjustedEnd(t) <= now + Epsilon
              THEN [t EXCEPT !.boiledAt = now] ELSE t : t \in Synchronize(round[k - 1], cfg)}
  IN  round[Cardinality(timers)]

FireDueTimers(s, now, cfg) ==
  LET drained == Drain(s.timers, now, cfg)
      final(t) == CHOOSE u \in drained : u.seq = t.seq
  IN  [s EXCEPT !.timers = {[t EXCEPT !.boiledAt = IF @ = None /\ final(t).boiledAt # None
                                                   THEN now ELSE @,
                                      !.adjustment = final(t).adjustment] : t \in @}]

-----------------------------------------------------------------------------
(* Orders, one by one over HTTP or as a batch of POS records.              *)

ArriveOrder(s, arrival) == [s EXCEPT !.items = UpsertOrder(@, s.timers, arrival)]

CancelOrder(s, order) == [s EXCEPT !.items = RemoveOrder(@, s.timers, order)]

IsNewerSequence(sequence, last) == last = None \/ sequence > last

ReceivedItems(r) == {ToOrderItem(r.order, line, r.arrival) : line \in r.lines}

\* Mutant: a record without lines is only counted.
MutReceiveRecord(acc, r, timers) ==
  IF ~IsNewerSequence(r.sequence, acc.last[r.terminal]) THEN acc
  ELSE [acc EXCEPT !.last[r.terminal] = r.sequence,
                   !.items = IF r.lines # {} THEN UpsertOrder(@, timers, ReceivedItems(r)) ELSE @]

\* One record of a batch: skipped unless newer than its terminal's last.
ReceiveRecord(acc, r, timers) ==
  IF ~IsNewerSequence(r.sequence, acc.last[r.terminal]) THEN acc
  ELSE [acc EXCEPT !.last[r.terminal] = r.sequence,
                   !.items = IF r.lines # {} THEN UpsertOrder(@, timers, ReceivedItems(r))
                             ELSE RemoveOrder(@, timers, r.order)]

\* The items and the newest records before the batch and after each of its records.
AfterRecords(s, batch) ==
  LET after[k \in 0..Len(batch)] ==
        IF k = 0 THEN [items |-> s.items, last |-> s.last]
        ELSE ReceiveRecord(after[k - 1], batch[k], s.timers)
  IN  after

ArriveRecords(s, batch) ==
  LET end == AfterRecords(s, batch)[Len(batch)]
  IN  [s EXCEPT !.items = end.items, !.last = end.last]
=============================================================================
