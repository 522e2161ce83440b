---------------------------- MODULE ScreenProofs ----------------------------
(***************************************************************************)
(* What KitchenScreen promises, for any number of kettles, orders, timers  *)
(* and upsets: a bowl confirmed as plated is not asked for again, a timer  *)
(* is announced once, and a boil is only cancelled by taps that meant it.  *)
(***************************************************************************)
EXTENDS KitchenScreen, TLAPS

AnOption == {None} \cup {Key(i) : i \in StoreItems}

\* A step of the cook, of the store or of the time other than Cue, Ack and Reload.
Other ==
  \/ Elsewhere \/ Down \/ Pong \/ Snapshot \/ Tick
  \/ \E k \in Slots : TapCancel(k) \/ TapUp(k) \/ TapMenu(k) \/ TapSuggestion(k) \/ OpenPicker(k)
  \/ \E k \in Slots, f \in DOMAIN Boil : TapFirmness(k, f)
  \/ \E item \in AnOption : Pick(item)
  \/ ClosePicker
  \/ \E count \in 1..2, u \in 0..(UnitCount - 1) : ShowUnits(UnitsForCount({u}, count))

LEMMA NextSplit == Next <=> Other \/ Cue \/ Ack \/ Reload
  BY DEF Next, Other, AnOption

-----------------------------------------------------------------------------
(* The bowls confirmed as plated.                                          *)

LEMMA OnlyAckConfirms == ASSUME Other \/ Cue \/ Reload PROVE acked' = acked
<1>1. CASE Other
  <2>1. CASE Elsewhere \/ Down \/ Pong \/ Snapshot \/ Tick
    BY <2>1 DEF Elsewhere, Down, Pong, Snapshot, Tick
  <2>2. ASSUME NEW k \in Slots, TapCancel(k) \/ TapUp(k) \/ TapMenu(k) PROVE acked' = acked
    BY <2>2 DEF TapCancel, TapUp, TapMenu
  <2>3. ASSUME NEW k \in Slots, TapSuggestion(k) \/ OpenPicker(k) PROVE acked' = acked
    BY <2>3 DEF TapSuggestion, OpenPicker
  <2>4. ASSUME NEW k \in Slots, NEW f \in DOMAIN Boil, TapFirmness(k, f) PROVE acked' = acked
    BY <2>4 DEF TapFirmness
  <2>5. ASSUME NEW item \in AnOption, Pick(item) PROVE acked' = acked
    BY <2>5 DEF Pick
  <2>6. ASSUME NEW us, ShowUnits(us) PROVE acked' = acked
    BY <2>6 DEF ShowUnits
  <2>7. CASE ClosePicker
    BY <2>7 DEF ClosePicker
  <2> QED BY <1>1, <2>1, <2>2, <2>3, <2>4, <2>5, <2>6, <2>7 DEF Other
<1>2. CASE Cue \/ Reload
  BY <1>2 DEF Cue, Reload
<1> QED BY <1>1, <1>2

\* A bowl that is confirmed is in no lane of plating, and what is in that lane is in the view.
LEMMA PlatingIs ==
  ASSUME NEW v, NEW confirmed, NEW at, NEW key \in Lanes(v, confirmed, at).plating
  PROVE  key \notin confirmed /\ \E i \in v.items : Key(i) = key
<1> DEFINE done == {i \in v.items : IsLive(i, at) /\ ItemStatus(i, v.timers) = "done"}
           plating == IF Synced(v) THEN {Key(i) : i \in done} \ confirmed ELSE {}
<1>1. Lanes(v, confirmed, at).plating = plating
  BY DEF Lanes
<1>2. done \subseteq v.items
  OBVIOUS
<1>3. key \in {Key(i) : i \in done} \ confirmed
  <2> HIDE DEF done
  <2> QED BY <1>1
<1> HIDE DEF done
<1> QED BY <1>2, <1>3

\* ack: a bowl confirmed as plated is not asked for again (acked in memory and in localStorage).
THEOREM AckedStaysHolds == Spec => AckedStays
<1>1. ASSUME [Next]_vars, NEW key \in acked PROVE key \notin Lanes(view', acked', drawn').plating
  <2>1. CASE Ack
    <3> SUFFICES ASSUME key \in Lanes(view', acked', drawn').plating PROVE FALSE
      OBVIOUS
    <3>1. key \notin acked' /\ \E i \in view'.items : Key(i) = key
      BY PlatingIs
    <3>2. view' = view
      BY <2>1 DEF Ack, shown
    <3>3. PICK new : acked' = Confirmed(new)
      BY <2>1 DEF Ack
    <3> QED BY <3>1, <3>2, <3>3 DEF Confirmed
  <2>2. CASE acked' = acked
    BY <2>2, PlatingIs
  <2> QED BY <1>1, <2>1, <2>2, NextSplit, OnlyAckConfirms DEF vars
<1>2. [Next]_vars => [\A key \in acked : key \notin Lanes(view', acked', drawn').plating]_vars
  BY <1>1
<1> QED BY <1>2, PTL DEF Spec, AckedStays

-----------------------------------------------------------------------------
(* The sound before a bowl is up.                                          *)

IdsOfUnits(v, us) == {t.id : t \in AssignedTimers(v, us)}

\* Who has been announced, and has been here ever since, is not armed again.
HeardInv == again = {} /\ heard \ away \subseteq watch.alerted \cap IdsOfUnits(view, units)

\* Wherever the cards are drawn, what goes from the terminal is noted as gone.
LEMMA GoneIsNoted ==
  ASSUME NEW us, NEW cs, NEW v, NEW at, DrawFor(us, cs, v, at)
  PROVE  away' = away \cup (IdsOfUnits(view, units) \ IdsOfUnits(view', units'))
  BY DEF DrawFor, IdsOfUnits

GoesNoted == \/ away' = away \cup (IdsOfUnits(view, units) \ IdsOfUnits(view', units'))
             \/ UNCHANGED <<view, units, away>>

LEMMA ChangesNoted == ASSUME NEW s, NEW cs, Changes(s, cs) PROVE GoesNoted
  BY GoneIsNoted DEF Changes, ShowStore, DrawFrom, DrawAt, GoesNoted

LEMMA EndsNoted == ASSUME NEW ids, NEW cs, NEW done, Ends(ids, cs, done) PROVE GoesNoted
<1>1. CASE view.live
  BY <1>1, ChangesNoted DEF Ends
<1>2. CASE ~view.live
  BY <1>2, GoneIsNoted DEF Ends, DrawFrom, DrawAt, GoesNoted
<1> QED BY <1>1, <1>2

LEMMA RedrawsNoted == ASSUME NEW cs, Redraws(cs) PROVE GoesNoted
  BY GoneIsNoted DEF Redraws, DrawFrom, DrawAt, GoesNoted

LEMMA StartsNoted == ASSUME NEW slots, NEW item, NEW cs, Starts(slots, item, cs) PROVE GoesNoted
  BY ChangesNoted DEF Starts

LEMMA OtherNoted == ASSUME Other PROVE GoesNoted /\ UNCHANGED sound
<1>1. CASE Elsewhere
  BY <1>1, StartsNoted, ChangesNoted DEF Elsewhere
<1>2. CASE Down \/ Pong \/ Snapshot \/ Tick
  BY <1>2, GoneIsNoted DEF Down, Pong, Snapshot, Tick, ShowStore, DrawFrom, DrawAt, GoesNoted
<1>3. ASSUME NEW k \in Slots, TapCancel(k) PROVE GoesNoted /\ UNCHANGED sound
  <2>1. UNCHANGED sound
    BY <1>3 DEF TapCancel
  <2>2. GoesNoted
    BY <1>3, EndsNoted, RedrawsNoted DEF TapCancel
  <2> QED BY <2>1, <2>2
<1>4. ASSUME NEW k \in Slots, TapUp(k) PROVE GoesNoted /\ UNCHANGED sound
  BY <1>4, EndsNoted DEF TapUp
<1>5. ASSUME NEW k \in Slots, TapMenu(k) \/ OpenPicker(k) PROVE GoesNoted /\ UNCHANGED sound
  BY <1>5, RedrawsNoted DEF TapMenu, OpenPicker
<1>6. ASSUME NEW k \in Slots, TapSuggestion(k) PROVE GoesNoted /\ UNCHANGED sound
  BY <1>6, StartsNoted DEF TapSuggestion
<1>7. ASSUME NEW k \in Slots, NEW f \in DOMAIN Boil, TapFirmness(k, f) PROVE GoesNoted /\ UNCHANGED sound
  BY <1>7, ChangesNoted, RedrawsNoted DEF TapFirmness
<1>8. ASSUME NEW item \in AnOption, Pick(item) PROVE GoesNoted /\ UNCHANGED sound
  BY <1>8, StartsNoted DEF Pick
<1>9. ASSUME NEW us, ShowUnits(us) PROVE GoesNoted /\ UNCHANGED sound
  BY <1>9, GoneIsNoted DEF ShowUnits, GoesNoted
<1>10. CASE ClosePicker
  BY <1>10, RedrawsNoted DEF ClosePicker
<1> QED
  BY <1>1, <1>2, <1>3, <1>4, <1>5, <1>6, <1>7, <1>8, <1>9, <1>10 DEF Other

LEMMA CueOnce == ASSUME HeardInv, Cue PROVE HeardInv'
<1> DEFINE timers == AssignedTimers(view, units)
           ids == IdsOfUnits(view, units)
           late == {t.id : t \in {u \in timers : RemainingAt(u, now) <= PreAlertThreshold}}
           over == watch.alerted \cap ids
           fire == (watch.armed \cap late) \ over
<1>1. /\ watch'.alerted = over \cup late
      /\ heard' = (heard \cup fire) \ away
      /\ again' = again \cup ((heard \cap fire) \ away)
  BY DEF Cue, AdvancePreAlert, IdsOfUnits
<1>2. late \subseteq ids
  BY DEF IdsOfUnits
<1>3. IdsOfUnits(view, units)' = ids /\ away' = away
  BY DEF Cue, shown, IdsOfUnits, AssignedTimers, SlotsOfUnits
<1> HIDE DEF ids, late
<1>4. heard \ away \subseteq over
  BY DEF HeardInv, ids
<1>5. again' = {}
  BY <1>1, <1>4 DEF HeardInv
<1>6. heard' \ away' \subseteq over \cup late
  BY <1>1, <1>3, <1>4
<1>7. heard' \ away' \subseteq watch'.alerted \cap IdsOfUnits(view, units)'
  BY <1>1, <1>2, <1>3, <1>6
<1> QED BY <1>5, <1>7 DEF HeardInv

\* advancePreAlert: a timer is announced at most once while the terminal is for its kettle.
THEOREM PreAlertOnceHolds == Spec => []PreAlertOnce
<1>1. Init => HeardInv
  BY DEF Init, HeardInv
<1>2. HeardInv /\ [Next]_vars => HeardInv'
  <2> SUFFICES ASSUME HeardInv, [Next]_vars PROVE HeardInv'
    OBVIOUS
  <2>1. CASE GoesNoted /\ UNCHANGED sound
    <3>1. UNCHANGED <<watch, heard, again>>
      BY <2>1 DEF sound
    <3>2. CASE UNCHANGED <<view, units, away>>
      BY <3>1, <3>2 DEF HeardInv, IdsOfUnits, AssignedTimers, SlotsOfUnits
    <3>3. CASE away' = away \cup (IdsOfUnits(view, units) \ IdsOfUnits(view', units'))
      <4>1. IdsOfUnits(view, units)' = IdsOfUnits(view', units')
        BY DEF IdsOfUnits, AssignedTimers, SlotsOfUnits
      <4> QED BY <3>1, <3>3, <4>1 DEF HeardInv
    <3> QED BY <2>1, <3>2, <3>3 DEF GoesNoted
  <2>2. CASE Cue
    BY <2>2, CueOnce
  <2>3. CASE Ack
    BY <2>3 DEF Ack, shown, sound, HeardInv, IdsOfUnits, AssignedTimers, SlotsOfUnits
  <2>4. CASE Reload
    BY <2>4 DEF Reload, HeardInv
  <2>5. CASE UNCHANGED vars
    BY <2>5 DEF vars, shown, sound, HeardInv, IdsOfUnits, AssignedTimers, SlotsOfUnits
  <2> QED BY <2>1, <2>2, <2>3, <2>4, <2>5, NextSplit, OtherNoted
<1>3. HeardInv => PreAlertOnce
  BY DEF HeardInv, PreAlertOnce
<1> QED BY <1>1, <1>2, <1>3, PTL DEF Spec

-----------------------------------------------------------------------------
(* Timers, kettles and what a card shows.                                  *)

IsTimer(t) ==
  /\ t = [id |-> t.id, slots |-> t.slots, start |-> t.start, end |-> t.end, item |-> t.item]
  /\ t.start \in Nat /\ t.end \in Nat

\* A kettle boils one bowl at a time.
Kettles(timers) ==
  /\ \A t \in timers : IsTimer(t)
  /\ \A t, u \in timers : t.slots \cap u.slots # {} => t = u

IsStore(s) == s = [timers |-> s.timers, items |-> s.items, plan |-> s.plan] /\ Kettles(s.timers)

\* A kettle that boils before and after boils the same bowl.
Follows(before, after) ==
  \A t \in before, u \in after : t.slots \cap u.slots # {} => t.id = u.id

Succeeds(s, next) == IsStore(next) /\ Follows(s.timers, next.timers)

LEMMA FewerFollow ==
  ASSUME NEW timers, Kettles(timers), NEW fewer \in SUBSET timers
  PROVE  Kettles(fewer) /\ Follows(timers, fewer)
  BY DEF Kettles, Follows

LEMMA SameFollow == ASSUME NEW s, IsStore(s) PROVE Succeeds(s, s)
  BY FewerFollow DEF IsStore, Succeeds

LEMMA WithoutIs ==
  ASSUME NEW s, IsStore(s), NEW ids
  PROVE  Without(s, ids) = [timers |-> {t \in s.timers : t.id \notin ids}, items |-> s.items, plan |-> s.plan]
  BY DEF IsStore, Without

LEMMA WithoutFollows == ASSUME NEW s, IsStore(s), NEW ids PROVE Succeeds(s, Without(s, ids))
<1> DEFINE left == {t \in s.timers : t.id \notin ids}
<1>1. Kettles(left) /\ Follows(s.timers, left)
  BY FewerFollow DEF IsStore
<1>2. Without(s, ids) = [timers |-> left, items |-> s.items, plan |-> s.plan]
  BY WithoutIs
<1> HIDE DEF left
<1> QED BY <1>1, <1>2 DEF Succeeds, IsStore

LEMMA LiftedFollows == ASSUME NEW s, IsStore(s), NEW ids PROVE Succeeds(s, Lifted(s, ids))
<1> DEFINE left == {t \in s.timers : t.id \notin ids}
           items == {IF \E t \in s.timers : t.id \in ids /\ RefersTo(t, i)
                     THEN [i EXCEPT !.completedAt = i.arrival] ELSE i : i \in s.items}
<1>1. Kettles(left) /\ Follows(s.timers, left)
  BY FewerFollow DEF IsStore
<1>2. Without(s, ids) = [timers |-> left, items |-> s.items, plan |-> s.plan]
  BY WithoutIs
<1>3. Lifted(s, ids) = [Without(s, ids) EXCEPT !.items = items]
  BY <1>2 DEF Lifted
<1> HIDE DEF left, items
<1>4. Lifted(s, ids) = [timers |-> left, items |-> items, plan |-> s.plan]
  BY <1>2, <1>3
<1> QED BY <1>1, <1>4 DEF Succeeds, IsStore

LEMMA WithIs ==
  ASSUME NEW s, s = [timers |-> s.timers, items |-> s.items, plan |-> s.plan], NEW t
  PROVE  With(s, t) = [timers |-> s.timers \cup {t}, items |-> s.items, plan |-> s.plan]
  BY DEF With

LEMMA WithFollows ==
  ASSUME NEW s, IsStore(s), NEW t, IsTimer(t), \A u \in s.timers : u.slots \cap t.slots = {}
  PROVE  Succeeds(s, With(s, t))
<1> DEFINE more == s.timers \cup {t}
<1>1. With(s, t) = [timers |-> more, items |-> s.items, plan |-> s.plan]
  BY WithIs DEF IsStore
<1>2. Kettles(more) /\ Follows(s.timers, more)
  BY DEF IsStore, Kettles, Follows
<1> HIDE DEF more
<1> QED BY <1>1, <1>2 DEF Succeeds, IsStore

LEMMA AdjustedFollows ==
  ASSUME NEW s, IsStore(s), NEW t \in s.timers, NEW f \in DOMAIN Boil
  PROVE  Succeeds(s, Adjusted(s, t, f))
<1> DEFINE other == [id |-> t.id, slots |-> t.slots, start |-> t.start, end |-> t.start + Boil[f], item |-> t.item]
           left == {u \in s.timers : u.id \notin {t.id}}
           after == left \cup {other}
<1>1. IsTimer(t) /\ Kettles(s.timers)
  BY DEF IsStore, Kettles
<1>2. [t EXCEPT !.end = t.start + Boil[f]] = other
  BY <1>1 DEF IsTimer
<1>3. Without(s, {t.id}) = [timers |-> left, items |-> s.items, plan |-> s.plan]
  BY WithoutIs
<1>4. Adjusted(s, t, f) = With(Without(s, {t.id}), other)
  BY <1>2 DEF Adjusted
<1>5. IsTimer(other)
  BY <1>1, KitchenScreenAssumption DEF IsTimer
<1>6. other.slots = t.slots /\ other.id = t.id
  OBVIOUS
<1> HIDE DEF other
<1>7. \A u \in left : u.slots \cap other.slots = {}
  BY <1>1, <1>6 DEF Kettles
<1>8. Kettles(after) /\ Follows(s.timers, after)
  <2>1. Kettles(after)
    BY <1>1, <1>5, <1>7 DEF Kettles
  <2>2. Follows(s.timers, after)
    BY <1>1, <1>6 DEF Kettles, Follows
  <2> QED BY <2>1, <2>2
<1> HIDE DEF left
<1>9. Adjusted(s, t, f) = [timers |-> after, items |-> s.items, plan |-> s.plan]
  BY <1>3, <1>4, WithIs
<1> HIDE DEF after
<1> QED BY <1>8, <1>9 DEF Succeeds, IsStore

\* A card that shows a timer shows one that is on its kettle.
LEMMA ShowsItsTimer ==
  ASSUME NEW v, Kettles(v.timers), NEW k, NEW at \in Nat, SlotDisplay(v, k, at).kind = "running"
  PROVE  SlotDisplay(v, k, at).timer \in v.timers /\ k \in SlotDisplay(v, k, at).timer.slots
<1> DEFINE bucket == {t \in v.timers : k \in t.slots}
           running == {t \in bucket : t.end > at}
<1>1. SlotDisplay(v, k, at) =
        CASE running # {} -> [kind |-> "running", timer |-> Earliest(running)]
          [] bucket # {} /\ running = {} -> [kind |-> "boiled", timer |-> Earliest(bucket)]
          [] OTHER -> [kind |-> IF v.sync THEN "idle" ELSE "unreceived"]
  BY DEF SlotDisplay
<1>2. \A t, u \in running : t = u /\ t.end <= u.end
  <2>1. \A t, u \in running : t = u
    BY DEF Kettles
  <2>2. \A t \in running : t.end \in Nat
    BY DEF Kettles, IsTimer
  <2> QED BY <2>1, <2>2
<1>3. running \subseteq v.timers /\ \A t \in running : k \in t.slots
  OBVIOUS
<1> HIDE DEF running, bucket
<1>4. running # {}
  BY <1>1
<1>5. Earliest(running) \in running
  BY <1>2, <1>4 DEF Earliest
<1> QED BY <1>1, <1>3, <1>4, <1>5

-----------------------------------------------------------------------------
(* The cards, and what arms them.                                          *)

IsCard(c) ==
  /\ c = [armed |-> c.armed, menu |-> c.menu, hidden |-> c.hidden]
  /\ \/ c.armed = None
     \/ c.armed = [at |-> c.armed.at, for |-> c.armed.for, over |-> c.armed.over]

Cards(cs) == cs = [k \in Slots |-> cs[k]] /\ \A k \in Slots : IsCard(cs[k])

\* A tap other than on the cancel button of a card can only disarm it.
Kept(cs) == Cards(cs) /\ \A k \in Slots : cs[k].armed \in {None, cards[k].armed}

\* A card is armed for the timer it shows, and that timer is not nearly up.
Meant(c, v, k, at) ==
  c.armed # None /\ ~c.armed.over =>
    Eligible(v, k, at) /\ SlotDisplay(v, k, at).timer.id = c.armed.for

\* Before it is drawn for v: no kettle has another timer there than its card is armed for.
Ready(cs, v) ==
  /\ Cards(cs)
  /\ \A k \in Slots : cs[k].armed # None /\ ~cs[k].armed.over =>
       \A t \in v.timers : k \in t.slots => t.id = cs[k].armed.for

LEMMA CardIs ==
  ASSUME NEW c, IsCard(c), NEW x
  PROVE  /\ [c EXCEPT !.armed = x] = [armed |-> x, menu |-> c.menu, hidden |-> c.hidden]
         /\ [c EXCEPT !.menu = x] = [armed |-> c.armed, menu |-> x, hidden |-> c.hidden]
         /\ [c EXCEPT !.hidden = x] = [armed |-> c.armed, menu |-> c.menu, hidden |-> x]
  BY DEF IsCard

LEMMA DisarmedIsCard ==
  ASSUME NEW c, IsCard(c)
  PROVE  IsCard([c EXCEPT !.armed = None]) /\ [c EXCEPT !.armed = None].armed = None
<1>1. [c EXCEPT !.armed = None] = [armed |-> None, menu |-> c.menu, hidden |-> c.hidden]
  BY CardIs
<1> QED BY <1>1 DEF IsCard

LEMMA MenuIsCard ==
  ASSUME NEW c, IsCard(c), NEW x
  PROVE  IsCard([c EXCEPT !.menu = x]) /\ [c EXCEPT !.menu = x].armed = c.armed
<1>1. [c EXCEPT !.menu = x] = [armed |-> c.armed, menu |-> x, hidden |-> c.hidden]
  BY CardIs
<1> QED BY <1>1 DEF IsCard

LEMMA HiddenIsCard ==
  ASSUME NEW c, IsCard(c), NEW x
  PROVE  IsCard([c EXCEPT !.hidden = x]) /\ [c EXCEPT !.hidden = x].armed = c.armed
<1>1. [c EXCEPT !.hidden = x] = [armed |-> c.armed, menu |-> c.menu, hidden |-> x]
  BY CardIs
<1> QED BY <1>1 DEF IsCard

LEMMA MountedIsCard ==
  ASSUME NEW c, IsCard(c), NEW k, NEW v, NEW at
  PROVE  IsCard(Mounted(c, k, v, at)) /\ Mounted(c, k, v, at).armed = c.armed
<1> DEFINE menu == c.menu /\ SlotDisplay(v, k, at).kind \in {"running", "boiled"}
<1>1. Mounted(c, k, v, at) = [c EXCEPT !.menu = menu]
  BY DEF Mounted, IsCard
<1> HIDE DEF menu
<1> QED BY <1>1, MenuIsCard

LEMMA ArmedIs ==
  ASSUME NEW a, a = [at |-> a.at, for |-> a.for, over |-> a.over], NEW x
  PROVE  [a EXCEPT !.over = x] = [at |-> a.at, for |-> a.for, over |-> x]
  OBVIOUS

\* The reconnection leaves nothing armed that is not marked as from before it.
LEMMA ReconciledIsCard ==
  ASSUME NEW c, IsCard(c)
  PROVE  IsCard(Reconciled(c)) /\ (Reconciled(c).armed = None \/ Reconciled(c).armed.over)
<1>1. CASE c.armed = None
  BY <1>1 DEF Reconciled
<1>2. CASE c.armed # None
  <2> DEFINE before == [at |-> c.armed.at, for |-> c.armed.for, over |-> TRUE]
  <2>1. c.armed = [at |-> c.armed.at, for |-> c.armed.for, over |-> c.armed.over]
    BY <1>2 DEF IsCard
  <2>2. [c.armed EXCEPT !.over = TRUE] = before
    <3> DEFINE over == TRUE
               marked == [at |-> c.armed.at, for |-> c.armed.for, over |-> over]
    <3>1. marked = before
      OBVIOUS
    <3> HIDE DEF over
    <3>2. [c.armed EXCEPT !.over = over] = marked
      BY <2>1, ArmedIs
    <3> QED BY <3>1, <3>2 DEF over
  <2>3. Reconciled(c) = [c EXCEPT !.armed = before]
    BY <1>2, <2>2, Zenon DEF Reconciled, IsCard
  <2>4. before.over /\ before = [at |-> before.at, for |-> before.for, over |-> before.over]
    BY Zenon
  <2> HIDE DEF before
  <2>5. Reconciled(c) = [armed |-> before, menu |-> c.menu, hidden |-> c.hidden]
    BY <2>3, CardIs
  <2> QED BY <2>4, <2>5 DEF IsCard
<1> QED BY <1>1, <1>2

LEMMA DrawnIsCard ==
  ASSUME NEW c, IsCard(c), NEW k, NEW v, NEW at
  PROVE  /\ IsCard(Mounted(Disarmed(c, k, v, at), k, v, at))
         /\ Mounted(Disarmed(c, k, v, at), k, v, at).armed = IF Eligible(v, k, at) THEN c.armed ELSE None
<1>1. IsCard(Disarmed(c, k, v, at))
  BY DisarmedIsCard DEF Disarmed
<1>2. Disarmed(c, k, v, at).armed = IF Eligible(v, k, at) THEN c.armed ELSE None
  BY CardIs DEF Disarmed
<1> QED BY <1>1, <1>2, MountedIsCard

LEMMA DrawnMeant ==
  ASSUME NEW v, Kettles(v.timers), NEW at \in Nat, NEW cs, Ready(cs, v), NEW us, DrawFor(us, cs, v, at)
  PROVE  Cards(cards') /\ \A k \in Slots : Meant(cards'[k], v, k, at)
<1>1. cards' = [k \in Slots |-> Mounted(Disarmed(cs[k], k, v, at), k, v, at)]
  BY DEF DrawFor
<1>2. \A k \in Slots : /\ IsCard(cards'[k])
                       /\ cards'[k].armed = IF Eligible(v, k, at) THEN cs[k].armed ELSE None
  BY <1>1, DrawnIsCard DEF Ready, Cards
<1>3. Cards(cards')
  BY <1>1, <1>2 DEF Cards
<1>4. ASSUME NEW k \in Slots, cards'[k].armed # None, ~cards'[k].armed.over
      PROVE  Eligible(v, k, at) /\ SlotDisplay(v, k, at).timer.id = cards'[k].armed.for
  <2>1. Eligible(v, k, at) /\ cards'[k].armed = cs[k].armed
    BY <1>2, <1>4
  <2>2. SlotDisplay(v, k, at).timer \in v.timers /\ k \in SlotDisplay(v, k, at).timer.slots
    BY <2>1, ShowsItsTimer DEF Eligible
  <2> QED BY <1>4, <2>1, <2>2 DEF Ready
<1> QED BY <1>3, <1>4 DEF Meant

-----------------------------------------------------------------------------
(* The invariant: what is shown of the store, and what the cards are armed *)
(* for, whoever changes the store.                                         *)

IsView(v) ==
  /\ v = [timers |-> v.timers, items |-> v.items, plan |-> v.plan,
          live |-> v.live, resync |-> v.resync, sync |-> v.sync]
  /\ Kettles(v.timers)

\* A terminal without a connection does not take what it shows for current when it is back.
Marked(v) == v.live \/ v.resync \/ ~v.sync

Times == now \in Nat /\ drawn \in Nat
Views == IsStore(store) /\ IsView(view) /\ Marked(view) /\ (UpToDate(view) => view.timers = store.timers)
Hands == Cards(cards) /\ \A k \in Slots : Meant(cards[k], view, k, drawn)
ScreenInv == Times /\ Views /\ Hands

LEMMA KeptReady ==
  ASSUME ScreenInv, NEW cs, Kept(cs), NEW v, Follows(view.timers, v.timers)
  PROVE  Ready(cs, v)
<1> SUFFICES ASSUME NEW k \in Slots, cs[k].armed # None, ~cs[k].armed.over,
                    NEW t \in v.timers, k \in t.slots
             PROVE  t.id = cs[k].armed.for
  BY DEF Kept, Ready
<1> DEFINE shownTimer == SlotDisplay(view, k, drawn).timer
<1>1. cs[k].armed = cards[k].armed
  BY DEF Kept
<1>2. Eligible(view, k, drawn) /\ shownTimer.id = cards[k].armed.for
  BY <1>1 DEF ScreenInv, Hands, Meant
<1>3. shownTimer \in view.timers /\ k \in shownTimer.slots
  BY <1>2, ShowsItsTimer DEF Eligible, ScreenInv, Times, Views, IsView
<1> HIDE DEF shownTimer
<1> QED BY <1>1, <1>2, <1>3 DEF Follows

LEMMA ReconciledReady ==
  ASSUME NEW cs, Cards(cs), NEW v
  PROVE  Ready([k \in Slots |-> Reconciled(cs[k])], v)
<1> DEFINE rs == [k \in Slots |-> Reconciled(cs[k])]
<1>1. \A k \in Slots : IsCard(rs[k]) /\ (rs[k].armed = None \/ rs[k].armed.over)
  BY ReconciledIsCard DEF Cards
<1>2. rs = [k \in Slots |-> rs[k]]
  OBVIOUS
<1> HIDE DEF rs
<1>3. Cards(rs)
  BY <1>1, <1>2 DEF Cards
<1>4. \A k \in Slots : ~(rs[k].armed # None /\ ~rs[k].armed.over)
  BY <1>1, Zenon
<1>5. Ready(rs, v)
  BY <1>3, <1>4, Zenon DEF Ready
<1> QED BY <1>5 DEF rs

LEMMA SnapshottedIs ==
  ASSUME NEW s, IsStore(s)
  PROVE  IsView(Snapshotted(s)) /\ Snapshotted(s).timers = s.timers /\ Marked(Snapshotted(s))
<1> DEFINE up == TRUE
           down == FALSE
           v == [timers |-> s.timers, items |-> s.items, plan |-> s.plan,
                 live |-> up, resync |-> down, sync |-> up]
<1>1. Snapshotted(s) = v
  BY DEF Snapshotted
<1>2. up
  OBVIOUS
<1> HIDE DEF up, down
<1> QED BY <1>1, <1>2 DEF IsView, IsStore, Marked

\* Time stands, the view v follows what was shown, or is of the store: all is as it should be.
LEMMA DrawnInv ==
  ASSUME NEW v, IsView(v), Marked(v), NEW at \in Nat, NEW cs, Ready(cs, v), NEW us, DrawFor(us, cs, v, at),
         now' \in Nat, IsStore(store'), UpToDate(v) => v.timers = store'.timers
  PROVE  ScreenInv'
<1>1. view' = v /\ drawn' = at
  BY DEF DrawFor
<1>2. Cards(cards') /\ \A k \in Slots : Meant(cards'[k], v, k, at)
  BY DrawnMeant DEF IsView
<1>3. Hands'
  <2>1. \A k \in Slots : Meant(cards[k], view, k, drawn)' <=> Meant(cards'[k], v, k, at)
    BY <1>1 DEF Meant, Eligible, SlotDisplay, RemainingAt
  <2>2. Cards(cards)' <=> Cards(cards')
    BY DEF Cards, IsCard
  <2> QED BY <1>2, <2>1, <2>2 DEF Hands
<1>4. Times'
  BY <1>1 DEF Times
<1>5. Views'
  BY <1>1 DEF Views, IsStore, IsView, Kettles, IsTimer, UpToDate, Synced, Marked
<1> QED BY <1>3, <1>4, <1>5 DEF ScreenInv

LEMMA ShowStoreInv ==
  ASSUME ScreenInv, NEW s, Succeeds(store, s), NEW cs, Kept(cs), ShowStore(s, cs), store' = s, now' = now
  PROVE  ScreenInv'
<1> DEFINE next == IF UpToDate(view) THEN cs ELSE [k \in Slots |-> Reconciled(cs[k])]
           v == Snapshotted(s)
<1>1. IsView(v) /\ Marked(v) /\ v.timers = s.timers /\ IsStore(s)
  BY SnapshottedIs DEF Succeeds
<1>2. DrawFor(units, next, v, now)
  BY DEF ShowStore, DrawFrom, DrawAt
<1> HIDE DEF v
<1>3. Ready(next, v)
  <2>1. CASE UpToDate(view)
    <3>1. Follows(view.timers, v.timers)
      BY <1>1, <2>1 DEF ScreenInv, Views, Succeeds
    <3> QED BY <2>1, <3>1, KeptReady
  <2>2. CASE ~UpToDate(view)
    BY <2>2, ReconciledReady DEF Kept
  <2> QED BY <2>1, <2>2
<1> HIDE DEF next
<1> QED BY <1>1, <1>2, <1>3, DrawnInv DEF ScreenInv, Times

LEMMA RedrawnInv ==
  ASSUME ScreenInv, NEW cs, Kept(cs), NEW at \in Nat, DrawAt(cs, view, at), now' \in Nat,
         IsStore(store'), view.live => store' = store
  PROVE  ScreenInv'
<1>1. Follows(view.timers, view.timers)
  BY FewerFollow DEF ScreenInv, Views, IsView
<1>2. Ready(cs, view)
  BY <1>1, KeptReady
<1>3. UpToDate(view) => view.timers = store'.timers
  BY DEF ScreenInv, Views, UpToDate, Synced
<1> QED BY <1>2, <1>3, DrawnInv DEF DrawAt, ScreenInv, Views

LEMMA ChangesInv ==
  ASSUME ScreenInv, NEW s, Succeeds(store, s), NEW cs, Kept(cs), Changes(s, cs), now' = now
  PROVE  ScreenInv'
<1>1. CASE view.live
  BY <1>1, ShowStoreInv DEF Changes
<1>2. CASE ~view.live
  BY <1>2, RedrawnInv DEF Changes, DrawFrom, Succeeds, ScreenInv, Times
<1> QED BY <1>1, <1>2

LEMMA StartsInv ==
  ASSUME ScreenInv, NEW slots, NEW item, NEW cs, Kept(cs), Starts(slots, item, cs), now' = now
  PROVE  ScreenInv'
<1>1. CASE CanStart(store, slots, item)
  <2> DEFINE t == Timer(slots, item)
  <2>1. IsTimer(t) /\ t.slots = slots
    BY KitchenScreenAssumption DEF IsTimer, Timer, ScreenInv, Times
  <2> HIDE DEF t
  <2>2. Succeeds(store, With(store, t))
    BY <1>1, <2>1, WithFollows DEF CanStart, ScreenInv, Views
  <2> QED BY <1>1, <2>2, ChangesInv DEF Starts, t
<1>2. CASE ~CanStart(store, slots, item)
  BY <1>2, SameFollow, ChangesInv DEF Starts, ScreenInv, Views
<1> QED BY <1>1, <1>2

LEMMA WithoutOfView ==
  ASSUME NEW v, IsView(v), NEW ids
  PROVE  /\ IsView(Without(v, ids)) /\ Follows(v.timers, Without(v, ids).timers)
         /\ Without(v, ids).live = v.live /\ (Marked(Without(v, ids)) <=> Marked(v))
<1> DEFINE left == {t \in v.timers : t.id \notin ids}
<1>1. Kettles(left) /\ Follows(v.timers, left)
  BY FewerFollow DEF IsView
<1>2. Without(v, ids) = [v EXCEPT !.timers = left]
  BY DEF Without, IsView
<1> HIDE DEF left
<1>3. Without(v, ids) = [timers |-> left, items |-> v.items, plan |-> v.plan,
                         live |-> v.live, resync |-> v.resync, sync |-> v.sync]
  BY <1>2 DEF IsView
<1> QED BY <1>1, <1>3 DEF IsView, Marked

LEMMA EndsInv ==
  ASSUME ScreenInv, NEW ids, NEW cs, Kept(cs), NEW done, Ends(ids, cs, done), now' = now
  PROVE  ScreenInv'
<1>1. CASE view.live
  <2>1. Succeeds(store, IF done THEN Lifted(store, ids) ELSE Without(store, ids))
    BY WithoutFollows, LiftedFollows DEF ScreenInv, Views
  <2> QED BY <1>1, <2>1, ChangesInv DEF Ends
<1>2. CASE ~view.live
  <2> DEFINE v == Without(view, ids)
  <2>1. IsView(v) /\ Marked(v) /\ Follows(view.timers, v.timers) /\ v.live = view.live
    BY WithoutOfView DEF ScreenInv, Views
  <2>2. DrawFor(units, cs, v, now) /\ store' = store
    BY <1>2 DEF Ends, DrawFrom, DrawAt
  <2> HIDE DEF v
  <2>3. Ready(cs, v)
    BY <2>1, KeptReady
  <2> QED BY <1>2, <2>1, <2>2, <2>3, DrawnInv DEF ScreenInv, Times, Views, UpToDate, Synced
<1> QED BY <1>1, <1>2

-----------------------------------------------------------------------------
(* Every step.                                                             *)

LEMMA CardsKept == ASSUME Cards(cards) PROVE Kept(cards)
  BY DEF Kept

LEMMA PointerDownKept == ASSUME Cards(cards), NEW own PROVE Kept(PointerDown(own))
<1> DEFINE cs == PointerDown(own)
<1>1. \A k \in Slots : cs[k] \in {cards[k], [cards[k] EXCEPT !.armed = None]}
  BY DEF PointerDown
<1>2. cs = [k \in Slots |-> cs[k]]
  BY DEF PointerDown
<1> HIDE DEF cs
<1>3. \A k \in Slots : /\ IsCard(cards[k]) /\ IsCard([cards[k] EXCEPT !.armed = None])
                       /\ [cards[k] EXCEPT !.armed = None].armed = None
  BY DisarmedIsCard DEF Cards
<1>4. \A k \in Slots : IsCard(cs[k]) /\ cs[k].armed \in {None, cards[k].armed}
  BY <1>1, <1>3
<1> QED BY <1>2, <1>4 DEF Kept, Cards, cs

LEMMA SetMenuKept == ASSUME Cards(cards), NEW k \in Slots, NEW open PROVE Kept(SetMenu(k, open))
<1> DEFINE tapped == PointerDown(None)
           one == [[tapped[k] EXCEPT !.menu = open] EXCEPT !.hidden = open]
           cs == SetMenu(k, open)
<1>1. Kept(tapped)
  BY PointerDownKept
<1> HIDE DEF tapped
<1>2. IsCard(one) /\ one.armed = tapped[k].armed
  <2> DEFINE menu == [tapped[k] EXCEPT !.menu = open]
  <2>1. IsCard(menu) /\ menu.armed = tapped[k].armed
    BY <1>1, MenuIsCard DEF Kept, Cards
  <2> HIDE DEF menu
  <2>2. IsCard([menu EXCEPT !.hidden = open]) /\ [menu EXCEPT !.hidden = open].armed = menu.armed
    BY <2>1, HiddenIsCard
  <2> QED BY <2>1, <2>2 DEF menu
<1>3. cs = [tapped EXCEPT ![k] = one]
  <2>1. tapped = [j \in Slots |-> tapped[j]]
    BY <1>1 DEF Kept, Cards
  <2> QED BY <2>1 DEF SetMenu, tapped
<1> HIDE DEF one
<1>4. cs = [j \in Slots |-> cs[j]] /\ \A j \in Slots : cs[j] = IF j = k THEN one ELSE tapped[j]
  BY <1>1, <1>3 DEF Kept, Cards
<1> HIDE DEF cs
<1> QED BY <1>1, <1>2, <1>4 DEF Kept, Cards, cs

LEMMA DisarmKept ==
  ASSUME Cards(cards), NEW k \in Slots
  PROVE  Kept([PointerDown(k) EXCEPT ![k].armed = None])
<1> DEFINE tapped == PointerDown(k)
           one == [tapped[k] EXCEPT !.armed = None]
           cs == [tapped EXCEPT ![k].armed = None]
<1>1. Kept(tapped)
  BY PointerDownKept
<1> HIDE DEF tapped
<1>2. IsCard(one) /\ one.armed = None
  BY <1>1, DisarmedIsCard DEF Kept, Cards
<1>3. cs = [tapped EXCEPT ![k] = one]
  BY <1>1 DEF Kept, Cards
<1> HIDE DEF one
<1>4. cs = [j \in Slots |-> cs[j]] /\ \A j \in Slots : cs[j] = IF j = k THEN one ELSE tapped[j]
  BY <1>1, <1>3 DEF Kept, Cards
<1> HIDE DEF cs
<1> QED BY <1>1, <1>2, <1>4 DEF Kept, Cards, cs, tapped

LEMMA ElsewhereInv == ASSUME ScreenInv, Elsewhere PROVE ScreenInv'
<1>1. Kept(cards) /\ IsStore(store)
  BY CardsKept DEF ScreenInv, Hands, Views
<1>2. now' = now
  BY DEF Elsewhere
<1>3. ASSUME NEW slots, NEW item, Starts(slots, item, cards) PROVE ScreenInv'
  BY <1>1, <1>2, <1>3, StartsInv
<1>4. ASSUME NEW s, Changes(s, cards), Succeeds(store, s) PROVE ScreenInv'
  BY <1>1, <1>2, <1>4, ChangesInv
<1>5. ASSUME NEW p \in Plans, Changes([store EXCEPT !.plan = p], cards) PROVE ScreenInv'
  <2> DEFINE s == [store EXCEPT !.plan = p]
  <2>1. s = [timers |-> store.timers, items |-> store.items, plan |-> p]
    BY <1>1 DEF IsStore
  <2>2. Succeeds(store, s)
    <3> HIDE DEF s
    <3> QED BY <1>1, <2>1, FewerFollow DEF Succeeds, IsStore
  <2> QED BY <1>5, <2>2, <1>4
<1> QED BY <1>1, <1>3, <1>4, <1>5, WithoutFollows, LiftedFollows, AdjustedFollows DEF Elsewhere

LEMMA RedrawsInv == ASSUME ScreenInv, NEW cs, Kept(cs), Redraws(cs), now' = now PROVE ScreenInv'
  BY RedrawnInv DEF Redraws, DrawFrom, ScreenInv, Times, Views

\* What is drawn over the view with another word on the connection.
LEMMA ConnectionInv ==
  ASSUME ScreenInv, NEW live, NEW resync, live \/ resync \/ ~view.sync,
         live /\ ~resync /\ view.sync => UpToDate(view),
         DrawFrom(cards, [timers |-> view.timers, items |-> view.items, plan |-> view.plan,
                          live |-> live, resync |-> resync, sync |-> view.sync]),
         UNCHANGED <<now, store>>
  PROVE  ScreenInv'
<1> DEFINE v == [timers |-> view.timers, items |-> view.items, plan |-> view.plan,
                 live |-> live, resync |-> resync, sync |-> view.sync]
<1>1. v.timers = view.timers /\ IsView(v)
  BY DEF ScreenInv, Views, IsView
<1>2. v.live = live /\ v.resync = resync /\ v.sync = view.sync
  OBVIOUS
<1>3. DrawFor(units, cards, v, now)
  BY DEF DrawFrom, DrawAt
<1> HIDE DEF v
<1>4. Ready(cards, v)
  BY <1>1, CardsKept, KeptReady, FewerFollow DEF ScreenInv, Hands, IsView
<1>5. Marked(v)
  BY <1>2 DEF Marked
<1>6. UpToDate(v) => v.timers = store'.timers
  BY <1>1, <1>2 DEF ScreenInv, Views, UpToDate, Synced
<1> QED BY <1>1, <1>3, <1>4, <1>5, <1>6, DrawnInv DEF ScreenInv, Times, Views

LEMMA ConnectionIs ==
  ASSUME NEW v, IsView(v), NEW live, NEW resync
  PROVE  [v EXCEPT !.live = live, !.resync = resync] =
           [timers |-> v.timers, items |-> v.items, plan |-> v.plan,
            live |-> live, resync |-> resync, sync |-> v.sync]
<1> DEFINE one == [timers |-> v.timers, items |-> v.items, plan |-> v.plan,
                   live |-> live, resync |-> v.resync, sync |-> v.sync]
<1>1. [v EXCEPT !.live = live, !.resync = resync] = [[v EXCEPT !.live = live] EXCEPT !.resync = resync]
  BY DEF IsView
<1>2. [v EXCEPT !.live = live] = one
  BY DEF IsView
<1>3. one = [timers |-> one.timers, items |-> one.items, plan |-> one.plan,
             live |-> one.live, resync |-> one.resync, sync |-> one.sync]
  OBVIOUS
<1>4. /\ one.timers = v.timers /\ one.items = v.items /\ one.plan = v.plan
      /\ one.live = live /\ one.sync = v.sync
  OBVIOUS
<1> HIDE DEF one
<1>5. [one EXCEPT !.resync = resync] =
        [timers |-> one.timers, items |-> one.items, plan |-> one.plan,
         live |-> one.live, resync |-> resync, sync |-> one.sync]
  BY <1>3
<1> QED BY <1>1, <1>2, <1>4, <1>5

LEMMA DownInv == ASSUME ScreenInv, Down PROVE ScreenInv'
<1> DEFINE live == FALSE
           resync == TRUE
<1>1. [view EXCEPT !.live = live, !.resync = resync] =
        [timers |-> view.timers, items |-> view.items, plan |-> view.plan,
         live |-> live, resync |-> resync, sync |-> view.sync]
  <2> HIDE DEF live, resync
  <2> QED BY ConnectionIs DEF ScreenInv, Views
<1>2. resync
  OBVIOUS
<1>3. DrawFrom(cards, [view EXCEPT !.live = live, !.resync = resync]) /\ UNCHANGED <<now, store>>
  BY DEF Down
<1> HIDE DEF live, resync
<1> QED BY <1>1, <1>2, <1>3, ConnectionInv

LEMMA PongInv == ASSUME ScreenInv, Pong PROVE ScreenInv'
<1> DEFINE live == TRUE
<1>1. [view EXCEPT !.live = live] =
        [timers |-> view.timers, items |-> view.items, plan |-> view.plan,
         live |-> live, resync |-> view.resync, sync |-> view.sync]
  <2> HIDE DEF live
  <2> QED BY DEF ScreenInv, Views, IsView
<1>2. live
  OBVIOUS
<1>3. DrawFrom(cards, [view EXCEPT !.live = live]) /\ UNCHANGED <<now, store>> /\ ~view.live
  BY DEF Pong
<1>4. ~(~view.resync /\ view.sync)
  BY <1>3 DEF ScreenInv, Views, Marked
<1> HIDE DEF live
<1> QED BY <1>1, <1>2, <1>3, <1>4, ConnectionInv

LEMMA SnapshotInv == ASSUME ScreenInv, Snapshot PROVE ScreenInv'
  BY CardsKept, SameFollow, ShowStoreInv DEF Snapshot, ScreenInv, Hands, Views

LEMMA TickInv == ASSUME ScreenInv, Tick PROVE ScreenInv'
<1>1. now' \in Nat /\ store' = store
  BY DEF Tick, ScreenInv, Times
<1>2. CASE DrawAt(cards, view, now')
  BY <1>1, <1>2, CardsKept, RedrawnInv DEF ScreenInv, Hands, Views
<1>3. CASE UNCHANGED <<view, drawn, cards>>
  <2>1. Hands'
    BY <1>3 DEF ScreenInv, Hands, Cards, IsCard, Meant, Eligible, SlotDisplay, RemainingAt
  <2>2. Views' /\ Times'
    BY <1>1, <1>3 DEF ScreenInv, Times, Views, IsStore, IsView, Kettles, IsTimer, UpToDate, Synced, Marked
  <2> QED BY <2>1, <2>2 DEF ScreenInv
<1> QED BY <1>2, <1>3 DEF Tick

\* The second tap finds the card armed for the timer that it shows.
LEMMA SecondTapMeant ==
  ASSUME ScreenInv, NEW k \in Slots, CancelOffered(k), CancelDecision(k) = "cancel"
  PROVE  cards[k].armed.for = Display(k).timer.id \/ cards[k].armed.over
<1>1. cards[k].armed # None
  <2>1. Remaining(k) \in Int
    <3> DEFINE timer == Display(k).timer
               left == timer.end - drawn
    <3>1. timer \in view.timers
      BY ShowsItsTimer DEF CancelOffered, Display, ScreenInv, Times, Views, IsView
    <3>2. left \in Int
      <4> HIDE DEF timer
      <4> QED BY <3>1 DEF ScreenInv, Times, Views, IsView, Kettles, IsTimer
    <3>3. Remaining(k) = Max({0, left})
      BY DEF Remaining, RemainingAt
    <3> HIDE DEF left
    <3> QED BY <3>2, <3>3 DEF Max
  <2>2. Remaining(k) < GuardThreshold \/ Remaining(k) >= GuardThreshold
    BY <2>1, KitchenScreenAssumption
  <2> QED BY <2>2 DEF CancelDecision
<1> QED BY <1>1 DEF ScreenInv, Hands, Meant, Display

\* The first tap arms it so.
LEMMA FirstTapReady ==
  ASSUME ScreenInv, NEW k \in Slots, CancelOffered(k), NEW at,
         NEW armed, armed = [at |-> at, for |-> Display(k).timer.id, over |-> armed.over]
  PROVE  Ready([PointerDown(k) EXCEPT ![k].armed = armed], view)
<1> DEFINE tapped == PointerDown(k)
           one == [tapped[k] EXCEPT !.armed = armed]
           cs == [tapped EXCEPT ![k].armed = armed]
<1>1. Kept(tapped)
  BY PointerDownKept DEF ScreenInv, Hands
<1>2. Ready(tapped, view)
  <2>1. Follows(view.timers, view.timers)
    BY FewerFollow DEF ScreenInv, Views, IsView
  <2> HIDE DEF tapped
  <2> QED BY <1>1, <2>1, KeptReady
<1> HIDE DEF tapped
<1>3. IsCard(one) /\ one.armed = armed
  <2>1. one = [armed |-> armed, menu |-> tapped[k].menu, hidden |-> tapped[k].hidden]
    BY <1>1, CardIs DEF Kept, Cards
  <2>2. armed = [at |-> armed.at, for |-> armed.for, over |-> armed.over]
    OBVIOUS
  <2> HIDE DEF one
  <2> QED BY <2>1, <2>2 DEF IsCard
<1>4. \A t \in view.timers : k \in t.slots => t.id = armed.for
  <2> DEFINE timer == Display(k).timer
  <2>1. timer \in view.timers /\ k \in timer.slots
    BY ShowsItsTimer DEF CancelOffered, Display, ScreenInv, Times, Views, IsView
  <2>2. armed.for = timer.id
    OBVIOUS
  <2> HIDE DEF timer
  <2> QED BY <2>1, <2>2 DEF ScreenInv, Views, IsView, Kettles
<1>5. cs = [tapped EXCEPT ![k] = one]
  BY <1>1 DEF Kept, Cards
<1> HIDE DEF one
<1>6. cs = [j \in Slots |-> cs[j]] /\ \A j \in Slots : cs[j] = IF j = k THEN one ELSE tapped[j]
  BY <1>1, <1>5 DEF Kept, Cards
<1> HIDE DEF cs
<1>7. Cards(cs)
  BY <1>1, <1>3, <1>6 DEF Kept, Cards
<1>8. ASSUME NEW j \in Slots, cs[j].armed # None, ~cs[j].armed.over, NEW t \in view.timers, j \in t.slots
      PROVE  t.id = cs[j].armed.for
  BY <1>2, <1>3, <1>4, <1>6, <1>8 DEF Ready
<1> QED BY <1>7, <1>8 DEF Ready, cs, tapped

LEMMA TapCancelInv ==
  ASSUME ScreenInv, NEW k \in Slots, TapCancel(k)
  PROVE  ScreenInv' /\ (unmeant = {} => unmeant' = {})
<1> DEFINE timer == Display(k).timer
           tapped == PointerDown(k)
<1>1. CancelOffered(k) /\ now' = now
  BY DEF TapCancel
<1>2. Cards(cards) /\ Kept(tapped)
  BY PointerDownKept DEF ScreenInv, Hands
<1>3. CASE Ends(CompleteIds(timer), tapped, TRUE) /\ UNCHANGED unmeant
  BY <1>1, <1>2, <1>3, EndsInv
<1>4. CASE /\ CancelDecision(k) = "cancel"
           /\ Ends({timer.id}, [tapped EXCEPT ![k].armed = None], FALSE)
           /\ unmeant' = IF cards[k].armed.for = timer.id \/ cards[k].armed.over THEN unmeant
                         ELSE unmeant \cup {timer.id}
  <2>1. Kept([tapped EXCEPT ![k].armed = None])
    BY <1>2, DisarmKept
  <2>2. unmeant' = unmeant
    BY <1>1, <1>4, SecondTapMeant
  <2> QED BY <1>1, <1>4, <2>1, <2>2, EndsInv
<1>5. CASE Redraws([tapped EXCEPT ![k].armed = [at |-> now, for |-> timer.id, over |-> FALSE]])
  <2> DEFINE over == FALSE
             armed == [at |-> now, for |-> timer.id, over |-> over]
             cs == [tapped EXCEPT ![k].armed = armed]
  <2>1. Redraws(cs)
    BY <1>5
  <2>2. armed = [at |-> now, for |-> timer.id, over |-> armed.over]
    <3> HIDE DEF over
    <3> QED OBVIOUS
  <2> HIDE DEF armed
  <2>3. Ready(cs, view)
    BY <1>1, <2>2, FirstTapReady
  <2> HIDE DEF cs
  <2>4. DrawFor(units, cs, view, now) /\ UNCHANGED <<store, unmeant>>
    BY <2>1 DEF Redraws, DrawFrom, DrawAt
  <2> QED BY <1>1, <2>3, <2>4, DrawnInv DEF ScreenInv, Times, Views
<1>6. CASE Redraws(tapped)
  BY <1>1, <1>2, <1>6, RedrawsInv DEF Redraws
<1> QED BY <1>3, <1>4, <1>5, <1>6 DEF TapCancel

LEMMA TapUpInv == ASSUME ScreenInv, NEW k \in Slots, TapUp(k) PROVE ScreenInv'
  BY PointerDownKept, EndsInv DEF TapUp, ScreenInv, Hands

LEMMA TapMenuInv == ASSUME ScreenInv, NEW k \in Slots, TapMenu(k) PROVE ScreenInv'
  BY SetMenuKept, RedrawsInv DEF TapMenu, ScreenInv, Hands

LEMMA TapFirmnessInv ==
  ASSUME ScreenInv, NEW k \in Slots, NEW f \in DOMAIN Boil, TapFirmness(k, f) PROVE ScreenInv'
<1> DEFINE d == Display(k)
           cs == IF d.kind = "running" THEN SetMenu(k, FALSE) ELSE PointerDown(None)
<1>1. Kept(cs)
  <2> HIDE DEF d
  <2> QED BY SetMenuKept, PointerDownKept DEF ScreenInv, Hands
<1>2. now' = now
  BY DEF TapFirmness
<1>3. CASE d.timer \in store.timers /\ Changes(Adjusted(store, d.timer, f), cs)
  BY <1>1, <1>2, <1>3, AdjustedFollows, ChangesInv DEF ScreenInv, Views
<1>4. CASE Redraws(cs)
  BY <1>1, <1>2, <1>4, RedrawsInv
<1> QED BY <1>3, <1>4 DEF TapFirmness

LEMMA StartTapsInv ==
  ASSUME ScreenInv, (\E k \in Slots : TapSuggestion(k)) \/ (\E item \in AnOption : Pick(item))
  PROVE  ScreenInv'
<1>1. Kept(PointerDown(None)) /\ now' = now
  BY PointerDownKept DEF ScreenInv, Hands, TapSuggestion, Pick
<1>2. PICK slots, it : Starts(slots, it, PointerDown(None))
  BY DEF TapSuggestion, Pick
<1> QED BY <1>1, <1>2, StartsInv

LEMMA PickerInv ==
  ASSUME ScreenInv, (\E k \in Slots : OpenPicker(k)) \/ ClosePicker PROVE ScreenInv'
  BY PointerDownKept, RedrawsInv DEF OpenPicker, ClosePicker, ScreenInv, Hands

LEMMA BlankIsCard == IsCard(Blank) /\ Blank.armed = None
<1> DEFINE no == FALSE
           c == [armed |-> None, menu |-> no, hidden |-> no]
<1>1. Blank = c
  BY DEF Blank
<1> HIDE DEF no
<1> QED BY <1>1 DEF IsCard

LEMMA ShowUnitsInv == ASSUME ScreenInv, NEW us, ShowUnits(us) PROVE ScreenInv'
<1> DEFINE cs == [k \in Slots |-> IF k \in Assigned \cap SlotsOfUnits(us) THEN PointerDown(None)[k] ELSE Blank]
<1>1. DrawFor(us, cs, view, now) /\ UNCHANGED <<now, store>>
  BY DEF ShowUnits
<1>2. Kept(cs)
  <2>1. Kept(PointerDown(None))
    BY PointerDownKept DEF ScreenInv, Hands
  <2>2. cs = [k \in Slots |-> cs[k]] /\ \A k \in Slots : cs[k] \in {PointerDown(None)[k], Blank}
    OBVIOUS
  <2> HIDE DEF cs
  <2> QED BY <2>1, <2>2, BlankIsCard DEF Kept, Cards
<1> HIDE DEF cs
<1>3. Ready(cs, view)
  <2>1. Follows(view.timers, view.timers)
    BY FewerFollow DEF ScreenInv, Views, IsView
  <2> QED BY <1>2, <2>1, KeptReady
<1> QED BY <1>1, <1>3, DrawnInv DEF ScreenInv, Times, Views

LEMMA ReloadInv == ASSUME ScreenInv, Reload PROVE ScreenInv'
<1> DEFINE no == FALSE
           cs == [k \in Slots |-> Blank]
           v == [timers |-> view.timers, items |-> {}, plan |-> {}, live |-> no, resync |-> no, sync |-> no]
<1>1. DrawFor({0}, cs, v, now) /\ UNCHANGED <<now, store>> /\ ~no
  BY DEF Reload
<1> HIDE DEF no
<1>2. IsView(v) /\ v.sync = no /\ v.timers = view.timers
  BY DEF ScreenInv, Views, IsView
<1> HIDE DEF v
<1>3. Ready(cs, v)
  <2>1. cs = [k \in Slots |-> cs[k]] /\ \A k \in Slots : cs[k] = Blank
    OBVIOUS
  <2> HIDE DEF cs
  <2> QED BY <2>1, BlankIsCard DEF Ready, Cards
<1> HIDE DEF cs
<1>4. Marked(v) /\ ~UpToDate(v)
  BY <1>1, <1>2 DEF Marked, UpToDate
<1> QED BY <1>1, <1>2, <1>3, <1>4, DrawnInv DEF ScreenInv, Times, Views

\* decideCancelTap under the drawings of SlotCard: a boil with a minute or more to go is only
\* cancelled by two taps that meant it.
THEOREM CancelMeantHolds == Spec => []CancelMeant
<1>1. Init => ScreenInv /\ unmeant = {}
  <2> SUFFICES ASSUME Init PROVE ScreenInv /\ unmeant = {}
    OBVIOUS
  <2>1. PICK p \in Plans : store = [timers |-> {}, items |-> StoreItems, plan |-> p]
    BY DEF Init
  <2>2. IsStore(store)
    BY <2>1 DEF IsStore, Kettles
  <2>3. Views
    BY <2>2, SnapshottedIs DEF Init, Views
  <2>4. cards = [k \in Slots |-> Blank]
    BY DEF Init
  <2>5. Hands
    BY <2>4, BlankIsCard DEF Hands, Cards, Meant
  <2> QED BY <2>3, <2>5 DEF Init, ScreenInv, Times
<1>2. ASSUME ScreenInv, [Next]_vars PROVE ScreenInv' /\ (unmeant = {} => unmeant' = {})
  <2>1. CASE Elsewhere \/ Down \/ Pong \/ Snapshot \/ Tick
    <3>1. unmeant' = unmeant
      BY <2>1 DEF Elsewhere, Down, Pong, Snapshot, Tick
    <3> QED BY <1>2, <2>1, <3>1, ElsewhereInv, DownInv, PongInv, SnapshotInv, TickInv
  <2>2. ASSUME NEW k \in Slots, TapCancel(k) PROVE ScreenInv' /\ (unmeant = {} => unmeant' = {})
    BY <1>2, <2>2, TapCancelInv
  <2>3. ASSUME NEW k \in Slots, TapUp(k) \/ TapMenu(k) PROVE ScreenInv' /\ unmeant' = unmeant
    BY <1>2, <2>3, TapUpInv, TapMenuInv DEF TapUp, TapMenu, Redraws
  <2>4. ASSUME NEW k \in Slots, NEW f \in DOMAIN Boil, TapFirmness(k, f)
        PROVE  ScreenInv' /\ unmeant' = unmeant
    <3>1. unmeant' = unmeant
      BY <2>4 DEF TapFirmness, Redraws
    <3> QED BY <1>2, <2>4, <3>1, TapFirmnessInv
  <2>5. CASE (\E k \in Slots : TapSuggestion(k)) \/ (\E item \in AnOption : Pick(item))
    BY <1>2, <2>5, StartTapsInv DEF TapSuggestion, Pick
  <2>6. CASE (\E k \in Slots : OpenPicker(k)) \/ ClosePicker
    BY <1>2, <2>6, PickerInv DEF OpenPicker, ClosePicker, Redraws
  <2>7. ASSUME NEW us, ShowUnits(us) PROVE ScreenInv' /\ unmeant' = unmeant
    BY <1>2, <2>7, ShowUnitsInv DEF ShowUnits
  <2>8. CASE Reload
    BY <1>2, <2>8, ReloadInv DEF Reload
  <2>9. CASE Cue \/ Ack \/ UNCHANGED vars
    <3>1. UNCHANGED <<shown, store, hand>>
      BY <2>9 DEF Cue, Ack, vars
    <3>2. UNCHANGED <<now, drawn, view, store, cards, unmeant>>
      BY <3>1 DEF shown, hand
    <3>3. Hands'
      BY <1>2, <3>2 DEF ScreenInv, Hands, Cards, IsCard, Meant, Eligible, SlotDisplay, RemainingAt
    <3>4. Views' /\ Times'
      BY <1>2, <3>2 DEF ScreenInv, Times, Views, IsStore, IsView, Kettles, IsTimer, UpToDate, Synced, Marked
    <3> QED BY <3>2, <3>3, <3>4 DEF ScreenInv
  <2> QED
    BY <1>2, <2>1, <2>2, <2>3, <2>4, <2>5, <2>6, <2>7, <2>8, <2>9, NextSplit DEF Other
<1>3. ScreenInv /\ unmeant = {} /\ [Next]_vars => (ScreenInv /\ unmeant = {})'
  BY <1>2
<1>4. ScreenInv /\ unmeant = {} => CancelMeant
  BY DEF CancelMeant
<1> QED BY <1>1, <1>3, <1>4, PTL DEF Spec
=============================================================================
