----------------------------- MODULE ClientView -----------------------------
(***************************************************************************)
(* What a terminal shows of its store and how every event changes it       *)
(* (decideView of src/src/client/connection.ts).  The view keeps facts:    *)
(*   timers       those the server confirmed (origin "server") and those   *)
(*                started while it was out of reach ("local")              *)
(*   items        the order items of the last snapshot                     *)
(*   processedIds timers that have rung here or were cancelled here        *)
(*   lastResults  the slots that show what was cooked on them last         *)
(*   connectivity, awaitingResync, unreachableReason, sync, error          *)
(* A timer is [id, slots, end, origin].                                    *)
(***************************************************************************)
EXTENDS Integers, FiniteSets, Sequences, StoreTypes

EmptyView ==
  [timers |-> {}, items |-> {}, processedIds |-> {}, lastResults |-> {},
   connectivity |-> "down", awaitingResync |-> FALSE, unreachableReason |-> "offline",
   sync |-> "connecting", error |-> None]

Mode(view) == IF view.connectivity = "up" THEN "live" ELSE "degraded"

IdsOf(timers) == {t.id : t \in timers}
SlotsOf(timers) == UNION {t.slots : t \in timers}
Confirmed(timers) == {t \in timers : t.origin = "server"}
Provisional(timers) == {t \in timers : t.origin = "local"}

IsRunning(timer, at) == timer.end > at

RecordLastResults(last, timer) == last \cup timer.slots

ClearLastResults(last, slots) == last \ slots

-----------------------------------------------------------------------------
(* What the terminal does by itself while the server is out of reach.      *)

DecideLocalStart(view, id, slots, at, boil) ==
  IF SlotsOf(view.timers) \cap slots # {} THEN view
  ELSE [view EXCEPT !.timers = @ \cup {[id |-> id, slots |-> slots, end |-> at + boil,
                                         origin |-> "local"]},
                    !.lastResults = ClearLastResults(@, slots)]

DecideLocalCancel(view, timer) ==
  [view EXCEPT !.timers = @ \ {timer},
               !.processedIds = IF timer.origin = "server" THEN @ \cup {timer.id} ELSE @,
               !.lastResults = RecordLastResults(@, timer)]

\* LocalComplete, one after the other.
DecideLocalComplete(view, group) ==
  [view EXCEPT !.timers = @ \ group,
               !.processedIds = @ \cup IdsOf(group),
               !.lastResults = @ \cup SlotsOf(group)]

\* Everything lifted together goes: the timers that end when this one does, once it is boiled.
BoiledGroup(view, timer, at) ==
  IF timer.end > at THEN {} ELSE {t \in view.timers : t.end = timer.end}

CompleteTargets(view, timer, at) ==
  IF BoiledGroup(view, timer, at) # {} THEN BoiledGroup(view, timer, at) ELSE {timer}

DueLocalTimers(view, at) == {t \in view.timers : t.end <= at /\ t.id \notin view.processedIds}

DecideLocalDone(view, ids) == [view EXCEPT !.processedIds = @ \cup ids]

-----------------------------------------------------------------------------
(* What the server says.                                                   *)

\* Mutant: whoever is on the server's list keeps the slot.
MutResolveSlotOccupancy(timers, at) ==
  {t \in timers : t.origin = "local" => SlotsOf(Confirmed(timers)) \cap t.slots = {}}

\* Mutant: every claim is shown.
MutShowsAll(timers, at) == timers

\* Of a confirmed and a provisional claim on a slot, unless both still run, one goes: the
\* confirmed one if only the provisional one runs, else the provisional one.
ResolveSlotOccupancy(timers, at) ==
  LET Claim(s, side) == {t \in side : s \in t.slots}
      Runs(side) == \E t \in side : IsRunning(t, at)
      LosersOn(s) ==
        LET server == Claim(s, Confirmed(timers))
            local == Claim(s, Provisional(timers))
        IN  CASE server = {} \/ local = {} \/ (Runs(server) /\ Runs(local)) -> {}
              [] server # {} /\ local # {} /\ Runs(local) /\ ~Runs(server) -> server
              [] server # {} /\ local # {} /\ ~Runs(local) -> local
  IN  timers \ UNION {LosersOn(s) : s \in SlotsOf(timers)}

\* Mutant: only what is still shown keeps its mark of having rung.
MutRetainedIds(serverTimers, provisional, shown) == IdsOf(shown)

RetainedIds(serverTimers, provisional, shown) == IdsOf(serverTimers \cup provisional)

\* The confirmed timers are replaced as a whole, the provisional ones stay as far as their slots
\* allow; what has gone leaves a trace on its slot, unless the slot is taken again.
ReconcileServerConfirmed(view, serverTimers, at) ==
  LET provisional == Provisional(view.timers)
      all == serverTimers \cup provisional
      gone == {t \in Confirmed(view.timers) : t.id \notin IdsOf(serverTimers)}
      free == SlotsOf(gone) \ SlotsOf(all)
      shown == ResolveSlotOccupancy(all, at)
  IN  [view EXCEPT
         !.awaitingResync = FALSE,
         !.timers = shown,
         !.lastResults = ClearLastResults(@, SlotsOf(all)) \cup free,
         !.processedIds = @ \cap RetainedIds(serverTimers, provisional, shown)]

\* Mutant: only the timers are reconciled after a reconnection.
MutDecideReconcile(view, snapshot, at) == ReconcileServerConfirmed(view, snapshot.timers, at)

DecideReconcile(view, snapshot, at) ==
  [ReconcileServerConfirmed(view, snapshot.timers, at) EXCEPT !.items = snapshot.items]

DecideSnapshot(view, snapshot, at) ==
  [DecideReconcile(view, snapshot, at) EXCEPT !.sync = "synced", !.error = None]

\* A timer that is already gone is what its canceller wanted.
DecideError(view, code) ==
  IF code = "TimerNotFound" THEN view ELSE [view EXCEPT !.error = code]

\* Mutant: what is shown is taken for current as soon as the connection is back.
MutDecideConnectivity(view, status) ==
  [view EXCEPT !.connectivity = status,
               !.unreachableReason = IF status = "up" THEN "offline" ELSE @]

DecideConnectivity(view, status) ==
  [view EXCEPT !.awaitingResync = status = "down" \/ @,
               !.connectivity = status,
               !.unreachableReason = IF status = "up" THEN "offline" ELSE @]

DecideClassify(view, reason) == [view EXCEPT !.unreachableReason = reason]

\* What outlives the page: serializeView and parsePersistedView.
Persisted(view) == [timers |-> view.timers, processedIds |-> view.processedIds]

Rehydrated(blob) == [EmptyView EXCEPT !.timers = blob.timers, !.processedIds = blob.processedIds]
=============================================================================
