----------------------------- MODULE OrderItems -----------------------------
(***************************************************************************)
(* The store's set of order items (src/src/domain/order.ts and             *)
(* src/src/engine/pending.ts).  An item is a record                        *)
(*   [order, index, firmness, table, arrival,                              *)
(*    completedAt, interruptedAt, tableAssignedAt],                        *)
(* the code's list of them a set: the list's order only decides layout.    *)
(* A timer refers to the item it was started from by its key, in t.item.   *)
(* firmness stands for everything the POS says of the bowl (noodle, size,  *)
(* names), which the code carries along in the same way.                   *)
(***************************************************************************)
EXTENDS StoreTypes, Integers, FiniteSets, SequencesExt

CONSTANTS OrderLifetime, OrderItemLimit

ASSUME OrderItemsAssumption ==
  /\ OrderLifetime \in Nat \ {0}
  /\ OrderItemLimit \in Nat \ {0}

Key(item) == <<item.order, item.index>>

IsLive(item, now) == item.arrival + OrderLifetime > now

RefersTo(t, item) == t.item # None /\ t.item = Key(item)

ItemStatus(item, timers) ==
  IF \E t \in timers : RefersTo(t, item) THEN "cooking"
  ELSE IF item.completedAt # None THEN "done" ELSE "unstarted"

PendingOrders(items, timers, now) ==
  {i \in items : IsLive(i, now) /\ ItemStatus(i, timers) = "unstarted"}

OrderItemsToBroadcast(items, timers, now) ==
  {i \in items : IsLive(i, now) \/ ItemStatus(i, timers) = "cooking"}

\* toOrderItems: a line of a POS order as the item it becomes on arrival.
ToOrderItem(order, line, at) ==
  [order |-> order, index |-> line.index, firmness |-> line.firmness, table |-> line.table,
   arrival |-> at, completedAt |-> None, interruptedAt |-> None, tableAssignedAt |-> None]

-----------------------------------------------------------------------------
(* The bound on the set: the items that arrived first are dropped.         *)

\* compareArrival; orders are numbers, in the text order of their ids.
ArrivesBefore(i, j) ==
  \/ i.arrival < j.arrival
  \/ i.arrival = j.arrival /\ i.order < j.order
  \/ i.arrival = j.arrival /\ i.order = j.order /\ i.index < j.index

TruncateOrderItems(items) ==
  {i \in items : Cardinality({j \in items : ArrivesBefore(i, j)}) < OrderItemLimit}

-----------------------------------------------------------------------------
(* A POS order arrives, in whole, for the first time or again.             *)

\* Mutant: the POS table wins over the one the store assigned.
MutWithOrderAttributes(item, arrived) ==
  [item EXCEPT !.firmness = arrived.firmness, !.table = arrived.table]

WithOrderAttributes(item, arrived) ==
  [item EXCEPT !.firmness = arrived.firmness,
               !.table = IF item.tableAssignedAt = None THEN arrived.table ELSE @]

\* Mutant: a line the order no longer has goes, whatever is in the kettle.
MutKeepsMissingLine(item, timers) == FALSE

\* A line the order no longer has stays while it cooks, and as history when it is done.
KeepsMissingLine(item, timers) == ItemStatus(item, timers) # "unstarted"

\* A late line of a known order waits from the order's first arrival.
FirstArrival(items, a) ==
  LET known == {i \in items : i.order = a.order}
  IN  IF known = {} THEN a.arrival ELSE Min({i.arrival : i \in known})

KeysOf(items) == {Key(i) : i \in items}

\* arrivalsOf: of lines with one key one counts, the first of them in the code's list.
Arrived(arrival, key) == CHOOSE a \in arrival : Key(a) = key

\* Lines of the order that are still there take the POS's attributes; lines that are gone
\* go unless cooking or done; new lines count from the order's first arrival.
UpsertOrder(items, timers, arrival) ==
  LET orders == {a.order : a \in arrival}
      updated == {WithOrderAttributes(i, Arrived(arrival, Key(i))) :
                    i \in {j \in items : Key(j) \in KeysOf(arrival)}}
      kept  == {i \in items : /\ Key(i) \notin KeysOf(arrival)
                              /\ i.order \in orders => KeepsMissingLine(i, timers)}
      fresh == {[Arrived(arrival, key) EXCEPT !.arrival = FirstArrival(items, Arrived(arrival, key))] :
                  key \in KeysOf(arrival) \ KeysOf(items)}
  IN  TruncateOrderItems(updated \cup kept \cup fresh)

RemoveOrder(items, timers, order) ==
  {i \in items : i.order # order \/ KeepsMissingLine(i, timers)}
=============================================================================
