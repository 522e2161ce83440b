---------------------------- MODULE StoreClient ----------------------------
(***************************************************************************)
(* A terminal of a store, its server and the connection between them       *)
(* (openTimerConnection of src/src/client/connection.ts).  While the       *)
(* connection is up the terminal asks the server and shows what it         *)
(* broadcasts; while it is down it starts, ends and rings timers itself    *)
(* and meets the server's list again after the reconnection.               *)
(*                                                                         *)
(* The server is the store as its protocol shows it: a set of timers on    *)
(* disjoint slots, changed by this terminal's requests and by the others,  *)
(* every change broadcast as the whole list.  A message is lost only with  *)
(* its connection.  The page may be reloaded at any time.                  *)
(***************************************************************************)
EXTENDS ClientView

CONSTANTS
  Slots, BoilTimes, Orders,    \* slots, the durations of a boil, and orders
  Answers,                     \* what the entry page may answer the probe
  MaxTime, MaxTimers, MaxDowns, MaxReloads, MaxInFlight   \* bounds of the model

ASSUME StoreClientAssumption ==
  /\ None \notin {"up", "down"} /\ None \notin Nat
  /\ BoilTimes \subseteq Nat \ {0}
  /\ MaxTime \in Nat /\ MaxTimers \in Nat /\ MaxDowns \in Nat /\ MaxReloads \in Nat /\ MaxInFlight \in Nat

VARIABLES
  view, stored,                  \* what the page shows, and what localStorage holds of it
  prevConnectivity, pendingReconcile, syncTimer,   \* None, "up" or "down"; two flags
  probes,                        \* classifications of a failed connection under way
  joined, toClient, toServer,    \* the socket in use is open; the messages in flight on it
  serverTimers, orders,          \* the server's state
  now, nextId, downs, reloads,
  rung, rungTwice, ended, heardAt   \* history: rung once, more than once, ended by the user here;
                                    \* the time of the last snapshot on this connection, or None

page == <<view, stored>>
flags == <<prevConnectivity, pendingReconcile, syncTimer>>
link == <<joined, toClient, toServer>>
server == <<serverTimers, orders>>
world == <<now, downs, reloads>>
history == <<rung, rungTwice, ended, heardAt>>
vars == <<page, flags, probes, link, server, world, nextId, history>>

Snapshot == [type |-> "snapshot", timers |-> serverTimers, items |-> orders]

\* update: every change is persisted.
Update(next) == view' = next /\ stored' = Persisted(next)

\* fireDue: everything due rings once.
FireDue(shown, at) ==
  LET due == IdsOf(DueLocalTimers(shown, at))
  IN  /\ Update(DecideLocalDone(shown, due))
      /\ rung' = rung \cup due
      /\ rungTwice' = rungTwice \cup (rung \cap due)

InitClient ==
  /\ view = EmptyView /\ stored = Persisted(EmptyView)
  /\ prevConnectivity = None /\ pendingReconcile = FALSE /\ syncTimer = FALSE
  /\ probes = 0
  /\ joined = FALSE /\ toClient = <<>> /\ toServer = <<>>
  /\ serverTimers = {} /\ orders = {}
  /\ now = 0 /\ nextId = 1 /\ downs = 0 /\ reloads = 0
  /\ rung = {} /\ rungTwice = {} /\ ended = {} /\ heardAt = None

-----------------------------------------------------------------------------
(* The connection.                                                         *)

\* The socket opens, and the server greets with the snapshot.
SocketOpens ==
  /\ ~joined
  /\ joined' = TRUE /\ toClient' = <<Snapshot>> /\ toServer' = <<>>
  /\ syncTimer' = TRUE
  /\ UNCHANGED <<page, prevConnectivity, pendingReconcile, probes, server, world, nextId, history>>

SyncTimeout ==
  /\ syncTimer /\ syncTimer' = FALSE
  /\ Update([view EXCEPT !.sync = "syncFailed"])
  /\ UNCHANGED <<prevConnectivity, pendingReconcile, probes, link, server, world, nextId, history>>

\* onConnectivity: a status that is news.
Reconciles(status) == IF status = "up" /\ prevConnectivity = "down" THEN TRUE ELSE pendingReconcile

Pong ==
  /\ joined /\ prevConnectivity # "up"
  /\ prevConnectivity' = "up" /\ pendingReconcile' = Reconciles("up")
  /\ Update(DecideConnectivity(view, "up"))
  /\ UNCHANGED <<syncTimer, probes, link, server, world, nextId, history>>

\* The connection is lost, or cannot be made; what was in flight is lost with it.  The first time
\* the terminal asks why.
Down ==
  /\ downs < MaxDowns /\ downs' = downs + 1
  /\ joined' = FALSE /\ toClient' = <<>> /\ toServer' = <<>>
  /\ prevConnectivity' = "down"
  /\ IF prevConnectivity # "down"
     THEN Update(DecideConnectivity(view, "down")) /\ probes' = probes + 1
     ELSE UNCHANGED <<page, probes>>
  /\ heardAt' = None
  /\ UNCHANGED <<pendingReconcile, syncTimer, server, now, reloads, nextId, rung, rungTwice, ended>>

\* classifyReachability: what an answer of the entry page tells.
ClassifyReachability(answer) ==
  CASE answer \in {"redirected", "forbidden"} -> "signInRequired"
    [] answer = "not among the stores" -> "noAccess"
    [] OTHER -> "offline"

ProbeAnswers(answer) ==
  /\ probes > 0 /\ probes' = probes - 1
  /\ Update(DecideClassify(view, ClassifyReachability(answer)))
  /\ UNCHANGED <<flags, link, server, world, nextId, history>>

\* onServerMessage, after the watch has taken a snapshot for a sign of life.
ReceiveSnapshot ==
  /\ joined /\ toClient # <<>> /\ Head(toClient).type = "snapshot"
  /\ LET up == IF prevConnectivity = "up" THEN view ELSE DecideConnectivity(view, "up")
         snapshot == Head(toClient)
     IN  IF Reconciles("up")
         THEN Update(DecideReconcile(up, snapshot, now))
         ELSE Update(DecideSnapshot(up, snapshot, now))
  /\ prevConnectivity' = "up" /\ pendingReconcile' = FALSE /\ syncTimer' = FALSE
  /\ toClient' = Tail(toClient)
  /\ heardAt' = now
  /\ UNCHANGED <<probes, joined, toServer, server, world, nextId, rung, rungTwice, ended>>

ReceiveError ==
  /\ joined /\ toClient # <<>> /\ Head(toClient).type = "error"
  /\ Update(DecideError(view, Head(toClient).code))
  /\ toClient' = Tail(toClient)
  /\ UNCHANGED <<flags, probes, joined, toServer, server, world, nextId, history>>

-----------------------------------------------------------------------------
(* The cook.                                                               *)

Send(messages) == toServer' = toServer \o messages

Start(slots, boil) ==
  IF Mode(view) = "live"
  THEN /\ joined /\ Len(toServer) < 1
       /\ Send(<<[type |-> "start", slots |-> slots, boil |-> boil]>>)
       /\ UNCHANGED <<page, flags, probes, joined, toClient, server, world, nextId, history>>
  ELSE /\ nextId <= MaxTimers /\ nextId' = nextId + 1
       /\ Update(DecideLocalStart(view, nextId, slots, now, boil))
       /\ UNCHANGED <<flags, probes, link, server, world, history>>

Cancel(t) ==
  IF t.origin = "server" /\ Mode(view) = "live"
  THEN /\ joined /\ Len(toServer) < 1
       /\ Send(<<[type |-> "end", id |-> t.id]>>)
       /\ UNCHANGED <<page, flags, probes, joined, toClient, server, world, nextId, history>>
  ELSE /\ Update(DecideLocalCancel(view, t)) /\ ended' = ended \cup {t.id}
       /\ UNCHANGED <<flags, probes, link, server, world, nextId, rung, rungTwice, heardAt>>

\* complete: the group the timer was lifted with, each by its own way.
Complete(t) ==
  LET group == CompleteTargets(view, t, now)
      asked == IF Mode(view) = "live" THEN {u \in group : u.origin = "server"} ELSE {}
  IN  /\ asked # {} => joined /\ Len(toServer) < 1
      /\ \E order \in [1..Cardinality(asked) -> asked] :
           /\ \A i, j \in DOMAIN order : order[i] = order[j] => i = j
           /\ Send([i \in DOMAIN order |-> [type |-> "end", id |-> order[i].id]])
      /\ Update(DecideLocalComplete(view, group \ asked))
      /\ ended' = ended \cup IdsOf(group \ asked)
      /\ UNCHANGED <<flags, probes, joined, toClient, server, world, nextId, rung, rungTwice, heardAt>>

-----------------------------------------------------------------------------
(* Time.                                                                   *)

Advance ==
  /\ now < MaxTime /\ now' = now + 1
  /\ UNCHANGED <<page, flags, probes, link, server, nextId, downs, reloads, history>>

Tick ==
  /\ DueLocalTimers(view, now) # {}
  /\ FireDue(view, now)
  /\ UNCHANGED <<flags, probes, link, server, world, nextId, ended, heardAt>>

\* The page is loaded anew: the view of before, and what fell due in the meantime rings.
Reload ==
  /\ reloads < MaxReloads /\ reloads' = reloads + 1
  /\ FireDue(Rehydrated(stored), now)
  /\ prevConnectivity' = None /\ pendingReconcile' = FALSE /\ syncTimer' = FALSE /\ probes' = 0
  /\ joined' = FALSE /\ toClient' = <<>> /\ toServer' = <<>>
  /\ heardAt' = None
  /\ UNCHANGED <<server, now, nextId, downs, ended>>

-----------------------------------------------------------------------------
(* The server.                                                             *)

ServerBecomes(timers, items) ==
  /\ Len(toClient) < MaxInFlight
  /\ serverTimers' = timers /\ orders' = items
  /\ toClient' = IF joined THEN Append(toClient, [type |-> "snapshot", timers |-> timers,
                                                   items |-> items]) ELSE toClient

Started(slots, boil) ==
  serverTimers \cup {[id |-> nextId, slots |-> slots, end |-> now + boil, origin |-> "server"]}

OtherStarts(slots, boil) ==
  /\ nextId <= MaxTimers /\ SlotsOf(serverTimers) \cap slots = {}
  /\ nextId' = nextId + 1 /\ ServerBecomes(Started(slots, boil), orders)
  /\ UNCHANGED <<page, flags, probes, joined, toServer, world, history>>

OtherEnds(t) ==
  /\ ServerBecomes(serverTimers \ {t}, orders)
  /\ UNCHANGED <<page, flags, probes, joined, toServer, world, nextId, history>>

Order ==
  /\ orders # Orders /\ ServerBecomes(serverTimers, Orders)
  /\ UNCHANGED <<page, flags, probes, joined, toServer, world, nextId, history>>

Refuse(code) ==
  /\ Len(toClient) < MaxInFlight
  /\ toClient' = Append(toClient, [type |-> "error", code |-> code])
  /\ UNCHANGED <<server, nextId>>

ServerHandles ==
  /\ toServer # <<>> /\ toServer' = Tail(toServer)
  /\ LET m == Head(toServer)
     IN  \/ /\ m.type = "start"
            /\ IF SlotsOf(serverTimers) \cap m.slots # {}
               THEN Refuse("SlotOccupied")
               ELSE /\ nextId <= MaxTimers /\ nextId' = nextId + 1
                    /\ ServerBecomes(Started(m.slots, m.boil), orders)
         \/ /\ m.type = "end"
            /\ IF m.id \notin IdsOf(serverTimers)
               THEN Refuse("TimerNotFound")
               ELSE /\ ServerBecomes({t \in serverTimers : t.id # m.id}, orders)
                    /\ UNCHANGED nextId
  /\ UNCHANGED <<page, flags, probes, joined, world, history>>

-----------------------------------------------------------------------------

SlotSets == (SUBSET Slots) \ {{}}

ClientNext ==
  \/ SocketOpens \/ SyncTimeout \/ Pong \/ Down \/ ReceiveSnapshot \/ ReceiveError
  \/ \E a \in Answers : ProbeAnswers(a)
  \/ \E slots \in SlotSets, boil \in BoilTimes : Start(slots, boil) \/ OtherStarts(slots, boil)
  \/ \E t \in view.timers : Cancel(t) \/ Complete(t)
  \/ Advance \/ Tick \/ Reload
  \/ \E t \in serverTimers : OtherEnds(t)
  \/ Order \/ ServerHandles

ClientSpec == InitClient /\ [][ClientNext]_vars

-----------------------------------------------------------------------------

InSync == view.connectivity = "up" /\ ~view.awaitingResync /\ joined /\ toClient = <<>>

\* Once connected and with nothing in flight the terminal shows what the server has: nothing
\* else as confirmed, all of its items, and every timer of it that still boils.
ShowsTheStore ==
  InSync => /\ Confirmed(view.timers) \subseteq serverTimers
            /\ view.items = orders
            /\ \A t \in serverTimers : IsRunning(t, now) => t \in view.timers

\* awaitingResync: the items listed while connected are those of this connection.
ResyncedIsHeard ==
  view.connectivity = "up" /\ ~view.awaitingResync /\ view.items # {} => heardAt # None

\* resolveSlotOccupancy: where two timers are shown on one slot, each side claims it and both
\* still boiled when the server was last heard.
OnlyRunningContested ==
  \A t, u \in view.timers :
    t # u /\ t.slots \cap u.slots # {} =>
      /\ t.origin # u.origin
      /\ heardAt # None => IsRunning(t, heardAt) /\ IsRunning(u, heardAt)

\* dueLocalTimers and the retained ids: no timer rings twice on a terminal, whatever it is told,
\* however often its page is loaded.
RingsOnce == rungTwice = {}

\* A boil started without the server is on the screen until the cook ends it or it has boiled: no
\* snapshot, no reconnection and no reload takes it away while it runs.
LocalBoilStays ==
  [][\A t \in Provisional(view.timers) :
       IsRunning(t, now) /\ t \notin view'.timers => t.id \in ended']_vars

=============================================================================
