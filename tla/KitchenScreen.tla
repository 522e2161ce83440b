--------------------------- MODULE KitchenScreen ---------------------------
(***************************************************************************)
(* The hand of the cook on the terminal: the cards of the kettles with     *)
(* their guard against a mistaken cancel and their firmness menu           *)
(* (SlotBoard, SlotCard, FirmnessCornerControl, RadialMenu), the sound     *)
(* before a bowl is up (useAudioCues), and the lanes of the order flow     *)
(* with the bowls confirmed as plated (OrderFlow, flowLanes), all under    *)
(* src/src/client.                                                         *)
(*                                                                         *)
(* The store is what the server holds; while the terminal is live every    *)
(* change of it is shown at once, otherwise as a whole when the connection *)
(* is back.  A command reaches the server or the terminal is offline and   *)
(* acts alone; commands under way are the matter of StoreClient.  A card   *)
(* is drawn on every change and on a beat: what it shows of the time can   *)
(* be older than the clock the tap handler reads.                          *)
(***************************************************************************)
EXTENDS LiftGroups

CONSTANTS
  Slots, UnitCount, SlotsPerUnit,    \* slots are numbered through the units
  GuardThreshold, ArmedWindow, ArmedBounce,   \* CANCEL_GUARD_THRESHOLD_MS and so on
  PreAlertThreshold, Arms,
  Boil,           \* how long a bowl boils, by firmness
  Plans,          \* plans the store may show
  StoreItems,     \* the order items, at their arrival
  MaxTimers, MaxNow, Beat,   \* bounds of the model: timers ever, the clock, the age of a drawing
  MaxUpsets      \* and lost connections, changes from elsewhere on a live view, reloads, changes of units

ASSUME KitchenScreenAssumption ==
  /\ {UnitCount, SlotsPerUnit, ArmedWindow} \subseteq Nat \ {0} /\ Slots = 0..(UnitCount * SlotsPerUnit - 1)
  /\ {GuardThreshold, ArmedBounce, PreAlertThreshold, Arms, MaxTimers, MaxNow, Beat,
      MaxUpsets} \subseteq Nat
  /\ 1 \in DOMAIN Boil /\ \A f \in DOMAIN Boil : Boil[f] \in Nat

VARIABLES
  now, drawn,         \* the clock, and what it showed when the cards were last drawn
  store,              \* the server's timers, items and recommendations
  view,               \* the terminal's, and whether it is live and has been synchronised
  units,              \* the kettles this terminal is for
  cards,              \* armed, menu (of the corner control) and hidden (of the card) of each slot
  picker,             \* the slot the radial menu is open for, or None
  watch,              \* timers armed for the pre-alert, and timers it is over for
  acked,              \* bowls confirmed as plated, in memory and in localStorage
  started, upsets,    \* timers, and upsets, ever
  unmeant, heard, again, away  \* history: wrong cancels, timers announced, announced again, gone

shown == <<now, drawn, view, units, away>>
hand == <<cards, picker, unmeant>>
sound == <<watch, heard, again>>
counters == <<started, upsets>>
vars == <<shown, store, hand, sound, acked, counters>>

SlotsOfUnits(us) == {k \in Slots : k \div SlotsPerUnit \in us}
Assigned == SlotsOfUnits(units)
AssignedTimers(v, us) == {t \in v.timers : t.slots \cap SlotsOfUnits(us) # {}}

\* The units a terminal shows: as many as fit, from the leftmost it showed before.
UnitsForCount(current, count) ==
  LET length == Min({count, UnitCount})
      anchor == Min({Min(current), UnitCount - length})
  IN  anchor..(anchor + length - 1)

\* armed is None or when a tap armed the card, with, as history, the timer it was meant for and
\* whether the view was reconciled since.
Blank == [armed |-> None, menu |-> FALSE, hidden |-> FALSE]
Synced(v) == v.live /\ ~v.resync
UpToDate(v) == Synced(v) /\ v.sync
Snapshotted(s) ==
  [timers |-> s.timers, items |-> s.items, plan |-> s.plan,
   live |-> TRUE, resync |-> FALSE, sync |-> TRUE]
Occupied(v) == UNION {t.slots : t \in v.timers}

Init ==
  /\ now = 0 /\ drawn = 0
  /\ \E p \in Plans : store = [timers |-> {}, items |-> StoreItems, plan |-> p]
  /\ view = Snapshotted(store)
  /\ units = {0}
  /\ cards = [k \in Slots |-> Blank] /\ picker = None
  /\ watch = [armed |-> {}, alerted |-> {}]
  /\ acked = {} /\ started = 0 /\ upsets = 0
  /\ unmeant = {} /\ heard = {} /\ again = {} /\ away = {}

-----------------------------------------------------------------------------
(* What a card shows.                                                      *)

Earliest(timers) == CHOOSE t \in timers : \A u \in timers : t.end <= u.end

\* assignedSlotDisplays.
SlotDisplay(v, k, at) ==
  LET bucket == {t \in v.timers : k \in t.slots}
      running == {t \in bucket : t.end > at}
  IN  CASE running # {} -> [kind |-> "running", timer |-> Earliest(running)]
        [] bucket # {} /\ running = {} -> [kind |-> "boiled", timer |-> Earliest(bucket)]
        [] OTHER -> [kind |-> IF v.sync THEN "idle" ELSE "unreceived"]

Display(k) == SlotDisplay(view, k, drawn)
RemainingAt(t, at) == Max({0, t.end - at})
Remaining(k) == RemainingAt(Display(k).timer, drawn)

Eligible(v, k, at) ==
  LET d == SlotDisplay(v, k, at)
  IN  d.kind = "running" /\ RemainingAt(d.timer, at) >= GuardThreshold

\* Mutant: the armed state outlives the timer it was meant for.
MutDisarmed(card, k, v, at) == card

\* The effect of a drawing: without its premise the armed state goes.
Disarmed(card, k, v, at) ==
  IF Eligible(v, k, at) THEN card ELSE [card EXCEPT !.armed = None]

\* The corner control is on the cards of timers only; what it told its card stays with the card.
Mounted(card, k, v, at) ==
  [card EXCEPT !.menu = @ /\ SlotDisplay(v, k, at).kind \in {"running", "boiled"}]

Reconciled(card) == IF card.armed = None THEN card ELSE [card EXCEPT !.armed.over = TRUE]

\* All cards are drawn for the view v at a time, over the state cs that a tap left them in, on a
\* terminal that is now for the units us.
DrawFor(us, cs, v, at) ==
  /\ units' = us /\ view' = v /\ drawn' = at
  /\ away' = away \cup ({t.id : t \in AssignedTimers(view, units)} \ {t.id : t \in AssignedTimers(v, us)})
  /\ cards' = [k \in Slots |-> Mounted(Disarmed(cs[k], k, v, at), k, v, at)]
DrawAt(cs, v, at) == DrawFor(units, cs, v, at)
DrawFrom(cs, v) == DrawAt(cs, v, now)

\* pointerdown, which every card hears that is armed: a tap elsewhere than on its own cancel button.
PointerDown(own) ==
  [k \in Slots |-> IF k # own /\ cards[k].armed # None /\ now - cards[k].armed.at >= ArmedBounce
                   THEN [cards[k] EXCEPT !.armed = None] ELSE cards[k]]

CancelOffered(k) == k \in Assigned /\ Display(k).kind = "running" /\ ~cards[k].hidden
UpOffered(k) == k \in Assigned /\ Display(k).kind = "boiled" /\ ~cards[k].menu

-----------------------------------------------------------------------------
(* The server and the way to it.                                           *)

\* A snapshot of the store is shown, over the cards cs; after a time without one it can bring
\* several changes at once.
ShowStore(s, cs) ==
  DrawFrom(IF UpToDate(view) THEN cs ELSE [k \in Slots |-> Reconciled(cs[k])],
           Snapshotted(s))

\* The store becomes s; a live terminal shows it.
Changes(s, cs) ==
  /\ store' = s
  /\ IF view.live THEN ShowStore(s, cs) ELSE DrawFrom(cs, view)

\* The timer that starts next.
Timer(slots, item) ==
  [id |-> started + 1, slots |-> slots, start |-> now, end |-> now + Boil[1], item |-> item]

With(s, t) == [s EXCEPT !.timers = @ \cup {t}]
Without(s, ids) == [s EXCEPT !.timers = {t \in @ : t.id \notin ids}]

\* What is completed is done as an order; when is told to nobody here.
Lifted(s, ids) ==
  [Without(s, ids) EXCEPT !.items =
     {IF \E t \in s.timers : t.id \in ids /\ RefersTo(t, i) THEN [i EXCEPT !.completedAt = i.arrival]
                                                                  ELSE i
        : i \in s.items}]

Adjusted(s, timer, firmness) ==
  With(Without(s, {timer.id}), [timer EXCEPT !.end = timer.start + Boil[firmness]])

CanStart(s, slots, item) ==
  /\ \A t \in s.timers : t.slots \cap slots = {}
  /\ item # None => \E i \in PendingOrders(s.items, s.timers, now) : Key(i) = item

\* The store accepts a start, or does not.
Starts(slots, item, cs) ==
  IF CanStart(store, slots, item)
  THEN /\ started < MaxTimers /\ started' = started + 1
       /\ Changes(With(store, Timer(slots, item)), cs)
  ELSE Changes(store, cs) /\ UNCHANGED started

Upset == upsets < MaxUpsets /\ upsets' = upsets + 1

\* Another terminal changes the store.
Elsewhere ==
  /\ IF view.live THEN Upset ELSE UNCHANGED upsets
  /\ \/ \E k \in Slots, item \in {None} \cup {Key(i) : i \in StoreItems} : Starts({k}, item, cards)
     \/ /\ \/ \E t \in store.timers :
                Changes(Without(store, {t.id}), cards) \/ Changes(Lifted(store, {t.id}), cards)
           \/ \E t \in store.timers, f \in DOMAIN Boil :
                t.end > now /\ Changes(Adjusted(store, t, f), cards)
           \/ \E p \in Plans : Changes([store EXCEPT !.plan = p], cards)
        /\ UNCHANGED started
  /\ UNCHANGED <<now, picker, unmeant, sound, acked>>

Down ==
  /\ Upset
  /\ view.live
  /\ DrawFrom(cards, [view EXCEPT !.live = FALSE, !.resync = TRUE])
  /\ UNCHANGED <<now, store, picker, unmeant, sound, acked, started>>

\* A pong says that the server is there; only the snapshot brings what it holds.
Pong ==
  /\ ~view.live
  /\ DrawFrom(cards, [view EXCEPT !.live = TRUE])
  /\ UNCHANGED <<now, store, picker, unmeant, sound, acked, counters>>

Snapshot ==
  /\ ~UpToDate(view) /\ ShowStore(store, cards)
  /\ UNCHANGED <<now, store, picker, unmeant, sound, acked, counters>>

\* The clock goes on; the cards are drawn anew at the latest a beat later.
Tick ==
  /\ now < MaxNow /\ now' = now + 1
  /\ \/ DrawAt(cards, view, now')
     \/ now' - drawn <= Beat /\ UNCHANGED <<view, drawn, units, away, cards>>
  /\ UNCHANGED <<store, picker, unmeant, sound, acked, counters>>

-----------------------------------------------------------------------------
(* The cook taps.                                                          *)

\* complete and cancel: the server is asked, or a terminal that is offline acts alone.
Ends(ids, cs, done) ==
  IF view.live
  THEN Changes(IF done THEN Lifted(store, ids) ELSE Without(store, ids), cs)
  ELSE UNCHANGED store /\ DrawFrom(cs, Without(view, ids))

\* complete: what is boiled is lifted with all that ends with it.
CompleteIds(timer) ==
  IF timer.end > now THEN {timer.id} ELSE {t.id : t \in {u \in view.timers : u.end = timer.end}}

\* A tap that changes nothing but the cards.
Redraws(cs) == DrawFrom(cs, view) /\ UNCHANGED <<store, unmeant>>

\* decideCancelTap on the time the card shows and the clock of the tap.
CancelDecision(k) ==
  LET elapsed == now - cards[k].armed.at
  IN  CASE Remaining(k) < GuardThreshold -> "complete"
        [] Remaining(k) >= GuardThreshold /\ cards[k].armed = None -> "arm"
        [] OTHER -> IF elapsed < ArmedBounce THEN "ignore"
                    ELSE IF elapsed < ArmedWindow THEN "cancel" ELSE "arm"

TapCancel(k) ==
  LET timer == Display(k).timer
      tapped == PointerDown(k)
  IN  /\ CancelOffered(k)
      /\ CASE CancelDecision(k) = "complete" -> Ends(CompleteIds(timer), tapped, TRUE) /\ UNCHANGED unmeant
           [] CancelDecision(k) = "cancel" ->
                /\ Ends({timer.id}, [tapped EXCEPT ![k].armed = None], FALSE)
                /\ unmeant' = IF cards[k].armed.for = timer.id \/ cards[k].armed.over THEN unmeant
                              ELSE unmeant \cup {timer.id}
           [] CancelDecision(k) = "arm" ->
                Redraws([tapped EXCEPT ![k].armed = [at |-> now, for |-> timer.id, over |-> FALSE]])
           [] OTHER -> Redraws(tapped)
  /\ UNCHANGED <<now, picker, sound, acked, counters>>

\* The green button of a boiled kettle; the cover of an open menu takes the tap.
TapUp(k) ==
  /\ UpOffered(k)
  /\ Ends(CompleteIds(Display(k).timer), PointerDown(None), TRUE)
  /\ UNCHANGED <<now, picker, unmeant, sound, acked, counters>>

SetMenu(k, open) == [PointerDown(None) EXCEPT ![k].menu = open, ![k].hidden = open]

\* setOpenAnd: the corner button opens the menu, the cover over the card closes it; neither does
\* anything once the kettle has boiled.
TapMenu(k) ==
  /\ k \in Assigned /\ Display(k).kind = "running"
  /\ Redraws(SetMenu(k, ~cards[k].menu))
  /\ UNCHANGED <<now, picker, sound, acked, counters>>

\* An option of an open menu: adjust is sent whatever the card shows, and refused when it boiled.
TapFirmness(k, f) ==
  LET d == Display(k)
      cs == IF d.kind = "running" THEN SetMenu(k, FALSE) ELSE PointerDown(None)
  IN  /\ k \in Assigned /\ cards[k].menu
      /\ IF view.live /\ d.timer \in store.timers /\ d.timer.end > now
         THEN Changes(Adjusted(store, d.timer, f), cs) /\ UNCHANGED unmeant
         ELSE Redraws(cs)
      /\ UNCHANGED <<now, picker, sound, acked, counters>>

\* The bowls to start now, over the whole store (slotSuggestions).
Suggested ==
  LET entries == {e \in view.plan : e.item \in PendingOrders(view.items, view.timers, drawn)}
  IN  IF ~view.live THEN {}
      ELSE HeadsOf(VisibleGroups(LiftGroupsOf(entries), drawn), Occupied(view), drawn, Arms)

TapSuggestion(k) ==
  /\ k \in Assigned /\ Display(k).kind = "idle"
  /\ \E e \in view.plan : /\ Key(e.item) \in Suggested /\ k \in ToSet(e.slots)
                          /\ Starts(ToSet(e.slots), Key(e.item), PointerDown(None))
  /\ UNCHANGED <<now, picker, unmeant, sound, acked, upsets>>

OpenPicker(k) ==
  /\ picker = None /\ k \in Assigned /\ Display(k).kind = "idle"
  /\ picker' = k /\ Redraws(PointerDown(None))
  /\ UNCHANGED <<now, sound, acked, counters>>

\* A noodle of the radial menu, or an order waiting beside it; offline it is StoreClient's.
Pick(item) ==
  /\ picker # None /\ view.live /\ picker' = None
  /\ item # None => /\ Synced(view) /\ picker \notin Occupied(view)
                    /\ \E i \in PendingOrders(view.items, view.timers, drawn) : Key(i) = item
  /\ Starts({picker}, item, PointerDown(None))
  /\ UNCHANGED <<now, unmeant, sound, acked, upsets>>

ClosePicker ==
  /\ picker # None /\ picker' = None /\ Redraws(PointerDown(None))
  /\ UNCHANGED <<now, sound, acked, counters>>

\* The terminal is turned, or given to other units: cards come and go with their state.
ShowUnits(us) ==
  /\ Upset
  /\ us # units
  /\ DrawFor(us, [k \in Slots |-> IF k \in Assigned \cap SlotsOfUnits(us) THEN PointerDown(None)[k]
                                 ELSE Blank], view, now)
  /\ UNCHANGED <<now, store, unmeant, picker, sound, acked, started>>

-----------------------------------------------------------------------------
(* The sounds.                                                             *)

\* Mutant: a timer that is put off is armed anew.
MutAdvancePreAlert(timers) ==
  LET late == {t.id : t \in {u \in timers : RemainingAt(u, now) <= PreAlertThreshold}}
      ids == {t.id : t \in timers}
  IN  [fire |-> watch.armed \cap late, next |-> [alerted |-> late, armed |-> ids \ late]]

\* Armed timers that come under the threshold sound; those first seen under it never do.
AdvancePreAlert(timers) ==
  LET late == {t.id : t \in {u \in timers : RemainingAt(u, now) <= PreAlertThreshold}}
      ids == {t.id : t \in timers}
      over == watch.alerted \cap ids
  IN  [fire |-> (watch.armed \cap late) \ over,
       next |-> [alerted |-> over \cup late, armed |-> ids \ (over \cup late)]]

\* The tick of useAudioCues, each second while the page is in the foreground.
Cue ==
  LET cue == AdvancePreAlert(AssignedTimers(view, units))
  IN  /\ watch' = cue.next
      /\ heard' = (heard \cup cue.fire) \ away /\ again' = again \cup ((heard \cap cue.fire) \ away)
      /\ UNCHANGED <<shown, store, hand, acked, counters>>

-----------------------------------------------------------------------------
(* The order flow.                                                         *)

\* flowLanes, as the keys in each lane of a view.
Lanes(v, confirmed, at) ==
  LET keys(is) == {Key(i) : i \in is}
      done == {i \in v.items : IsLive(i, at) /\ ItemStatus(i, v.timers) = "done"}
  IN  [boiling |-> {t.item : t \in v.timers} \ {None},
       waiting |-> IF Synced(v) THEN keys(PendingOrders(v.items, v.timers, at)) ELSE {},
       plating |-> IF Synced(v) THEN keys(done) \ confirmed ELSE {},
       done    |-> IF Synced(v) THEN keys(done) \cap confirmed ELSE {}]

\* Mutant: only what is still to be cooked is remembered.
MutConfirmed(key) ==
  {k \in acked : \E i \in PendingOrders(view.items, view.timers, now) : Key(i) = k} \cup {key}

\* ack: confirmed bowls of which the snapshot still knows, and this one.
Confirmed(key) == {k \in acked : \E i \in view.items : Key(i) = k} \cup {key}

Ack ==
  /\ \E key \in Lanes(view, acked, drawn).plating : acked' = Confirmed(key)
  /\ UNCHANGED <<shown, store, hand, sound, counters>>

\* The page is loaded anew: of this only the timers and the confirmations are in localStorage.
Reload ==
  /\ Upset
  /\ picker' = None
  /\ DrawFor({0}, [k \in Slots |-> Blank],
             [timers |-> view.timers, items |-> {}, plan |-> {}, live |-> FALSE, resync |-> FALSE,
              sync |-> FALSE], now)
  /\ watch' = [armed |-> {}, alerted |-> {}] /\ heard' = {} /\ again' = {}
  /\ UNCHANGED <<now, store, acked, started, unmeant>>

Next ==
  \/ Elsewhere \/ Down \/ Pong \/ Snapshot \/ Tick \/ Cue \/ Ack \/ Reload
  \/ \E k \in Slots : TapCancel(k) \/ TapUp(k) \/ TapMenu(k) \/ TapSuggestion(k) \/ OpenPicker(k)
  \/ \E k \in Slots, f \in DOMAIN Boil : TapFirmness(k, f)
  \/ \E item \in {None} \cup {Key(i) : i \in StoreItems} : Pick(item)
  \/ ClosePicker
  \/ \E count \in 1..2, u \in 0..(UnitCount - 1) : ShowUnits(UnitsForCount({u}, count))

Spec == Init /\ [][Next]_vars

-----------------------------------------------------------------------------
(* What the screen promises.                                               *)

\* SlotCard and cancelGuard: a boil with a minute or more to go is only cancelled by two taps
\* that both meant this timer, whatever else was tapped, drawn or changed on the store between
\* them; only over a reconnection can the timer of a kettle change without the card noticing.
CancelMeant == unmeant = {}

\* advancePreAlert: a timer is announced at most once, however often its firmness is changed,
\* while the terminal is for its kettle.
PreAlertOnce == again = {}

\* ack: a bowl confirmed as plated is not asked for again, over later confirmations, lost
\* connections and reloads of the page.
AckedStays ==
  [][\A key \in acked : key \notin Lanes(view', acked', drawn').plating]_vars
=============================================================================
