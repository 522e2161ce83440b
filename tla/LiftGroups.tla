----------------------------- MODULE LiftGroups -----------------------------
(***************************************************************************)
(* What of a plan the kitchen is shown (src/src/domain/lift-group.ts), the *)
(* same for the server's costs and for the clients' queue.  An entry of    *)
(* the plan is a record                                                    *)
(*   [item, slots, startAt, group, anchor, boil]                           *)
(* with the order item, its kettle slots, and the lift group it comes up   *)
(* with; anchor is the end of the running timer the group joins, or None.  *)
(***************************************************************************)
EXTENDS OrderItems

CONSTANT PrepLead     \* PREP_LEAD_MS: how long before its start a bowl is shown

ASSUME LiftGroupsAssumption == PrepLead \in Nat

\* compareItems
StartsBefore(e, f) ==
  \/ e.startAt < f.startAt
  \/ e.startAt = f.startAt /\ ArrivesBefore(e.item, f.item)

FirstOf(entries) == CHOOSE e \in entries : \A f \in entries \ {e} : StartsBefore(e, f)

\* liftGroupsOf, without its order: FirstOf gives that.
LiftGroupsOf(entries) == {{e \in entries : e.group = g} : g \in {e.group : e \in entries}}

\* Some bowl of the group cooks already.
Started(group, now) == \E e \in group : e.anchor # None /\ e.anchor > now

\* Groups behind the first one not started are hidden, but for those that start with it.
VisibleGroups(groups, now) ==
  {g \in groups : \A h \in groups :
      Started(h, now) \/ FirstOf(g).startAt <= FirstOf(h).startAt}

\* displayableItemsOf: on free slots, and not long before the start.
DisplayableItems(visible, occupied, now) ==
  {e \in UNION visible : /\ \A k \in DOMAIN e.slots : e.slots[k] \notin occupied
                         /\ now >= e.startAt - PrepLead}

\* The order of the heads: by start, then as their groups are shown.
AheadIn(visible, e, f) ==
  LET first(x) == FirstOf(CHOOSE g \in visible : x \in g)
  IN  \/ e.startAt < f.startAt
      \/ /\ e.startAt = f.startAt
         /\ \/ StartsBefore(first(e), first(f))
            \/ first(e) = first(f) /\ StartsBefore(e, f)

\* What the arms are to start now, at most one bowl for each.
HeadsOf(visible, occupied, now, arms) ==
  LET due == {e \in DisplayableItems(visible, occupied, now) : now >= e.startAt}
  IN  {Key(e.item) : e \in {d \in due :
                        Cardinality({f \in due : AheadIn(visible, f, d)}) < arms}}
=============================================================================
