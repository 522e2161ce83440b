---------------------------- MODULE AtomicStore -----------------------------
(***************************************************************************)
(* What the Durable Object of a store promises (docs in                    *)
(* src/src/shell/store-timer-do.ts): one durable state, each event decided *)
(* on that state and taken whole or not at all.  No memory, no crash, no   *)
(* alarm and no socket: StoreTimerDO implements this with all of them.     *)
(***************************************************************************)
EXTENDS StoreTypes, Integers

CONSTANTS SlotSets, Durations, Firmness, Keys, Tables, Posts, Batches, Projections,
          DefaultCfg, MaxTime, LastStart, MaxStarts

\* The pure core, which StoreEngine defines.
CONSTANTS EmptyState, Decide(_, _, _), FireDueTimers(_, _, _),
          CanStart(_, _, _), StartTimer(_, _, _, _),
          CanStartOrderItem(_, _, _, _), StartOrderItem(_, _, _, _),
          HasTimer(_, _), CancelTimer(_, _, _), CompleteTimer(_, _, _), AdjustTimer(_, _, _),
          CanAssignTable(_, _), AssignTable(_, _, _, _), PostOrder(_, _, _), ArriveRecords(_, _)

VARIABLES now, state, projection

vars == <<now, state, projection>>

Cfg == IF projection = None THEN DefaultCfg ELSE projection.cfg

Init == now = 0 /\ state = EmptyState /\ projection = None

Tick == now < MaxTime /\ now' = now + 1 /\ UNCHANGED <<state, projection>>

Take(moved) ==
  /\ state' = Decide(state, moved, Cfg)
  /\ UNCHANGED <<now, projection>>

\* Due timers are fired at any time: when the alarm comes, and when the store wakes.
Fire == Take(FireDueTimers(state, now, Cfg))

Start(slots, duration) ==
  /\ now <= LastStart /\ state.nextSeq < MaxStarts /\ CanStart(state, slots, duration)
  /\ Take(StartTimer(state, slots, duration, now))

StartItem(slots, key) ==
  /\ now <= LastStart /\ state.nextSeq < MaxStarts
  /\ CanStartOrderItem(state, slots, key, now)
  /\ Take(StartOrderItem(state, slots, key, now))

Cancel(seq) == HasTimer(state, seq) /\ Take(CancelTimer(state, seq, now))

Complete(seq) == HasTimer(state, seq) /\ Take(CompleteTimer(state, seq, now))

Adjust(seq, firmness) == HasTimer(state, seq) /\ Take(AdjustTimer(state, seq, firmness))

Assign(key, table) == CanAssignTable(state, key) /\ Take(AssignTable(state, key, table, now))

\* A post counts as arrived when its request came in, at some earlier time.
Post(post, at) == Take(PostOrder(state, post, at))

\* Only an active store takes records.
ReceiveRecords(batch) ==
  /\ projection # None /\ projection.active
  /\ Take(ArriveRecords(state, batch))

ApplyProjection(p) ==
  /\ projection # None => p.version >= projection.version
  /\ projection' = p
  /\ UNCHANGED <<now, state>>

Next ==
  \/ Tick \/ Fire
  \/ \E slots \in SlotSets : \/ \E d \in Durations : Start(slots, d)
                             \/ \E key \in Keys : StartItem(slots, key)
  \/ \E seq \in 0..(MaxStarts - 1) : \/ Cancel(seq) \/ Complete(seq)
                                     \/ \E f \in Firmness : Adjust(seq, f)
  \/ \E key \in Keys, table \in Tables : Assign(key, table)
  \/ \E post \in Posts, at \in 0..now : Post(post, at)
  \/ \E batch \in Batches : ReceiveRecords(batch)
  \/ \E p \in Projections : ApplyProjection(p)

Spec == Init /\ [][Next]_vars
=============================================================================
