---------------------------- MODULE ClientProofs ----------------------------
(***************************************************************************)
(* Proofs about StoreClient, for any slots, boil times and orders and any  *)
(* bounds: what the terminal shows and rings, over lost connections,       *)
(* reloads and the changes of others.                                      *)
(*                                                                         *)
(* The server's list travels as a line of snapshots, and the invariant is  *)
(* about that line: its last snapshot is the server's list (LineIsCurrent),*)
(* a timer is on a stretch of it without gaps (LineHasNoGaps), and what    *)
(* comes on to it is news to the terminal (NewOnLine).  The rest relates   *)
(* the view to the line.                                                   *)
(***************************************************************************)
EXTENDS StoreClient, FiniteSetTheorems, SequenceTheorems, TLAPS

USE StoreClientAssumption

-----------------------------------------------------------------------------
(* The invariant.                                                          *)

Timers == [id : Nat, slots : SUBSET Slots, end : Nat, origin : {"server", "local"}]

Messages ==
  [type : {"snapshot"}, timers : SUBSET Timers, items : {{}, Orders}]
    \cup [type : {"error"}, code : {"SlotOccupied", "TimerNotFound"}]

Requests == [type : {"start"}, slots : SlotSets, boil : BoilTimes] \cup [type : {"end"}, id : Nat]

ClientTypeOK ==
  /\ now \in Nat /\ nextId \in Nat
  /\ DOMAIN view = DOMAIN EmptyView /\ view.timers \in SUBSET Timers /\ IsFiniteSet(view.timers)
  /\ stored = Persisted(view)
  /\ serverTimers \in SUBSET Timers /\ IsFiniteSet(serverTimers) /\ orders \in {{}, Orders}
  /\ toClient \in Seq(Messages) /\ toServer \in Seq(Requests)
  /\ \A i \in DOMAIN toClient : toClient[i].type = "snapshot" => IsFiniteSet(toClient[i].timers)

\* The places of the line at which there is a list.
Lists == {i \in DOMAIN toClient : toClient[i].type = "snapshot"}

\* What the server has, or has had when it sent what is on its way.
OnLine == serverTimers \cup UNION {toClient[i].timers : i \in Lists}

\* An id is given once.
Identified ==
  /\ \A t, u \in OnLine \cup view.timers : t.id = u.id => t = u
  /\ \A t \in OnLine \cup view.timers : t.id < nextId
  /\ \A n \in rung : n \in Nat /\ n < nextId

DisjointSlots(timers) == \A t, u \in timers : t # u => t.slots \cap u.slots = {}

ServerIsSound(timers) == (\A t \in timers : t.origin = "server") /\ DisjointSlots(timers)

LineIsSound ==
  /\ ServerIsSound(serverTimers)
  /\ \A i \in Lists : ServerIsSound(toClient[i].timers)

LineIsCurrent ==
  joined => \A i \in Lists : (\A j \in Lists : j <= i) =>
              toClient[i].timers = serverTimers /\ toClient[i].items = orders

\* A timer that has gone from the server's list does not come back.
LineHasNoGaps ==
  \A i, j \in Lists : i < j => \A t \in toClient[i].timers :
    t \in serverTimers \cup UNION {toClient[k].timers : k \in {l \in Lists : j < l}}
      => t \in toClient[j].timers

NewOnLine ==
  \A i \in Lists : \A t \in serverTimers \cup UNION {toClient[k].timers : k \in {l \in Lists : i < l}} :
    t \notin toClient[i].timers => t.id \notin rung \cup IdsOf(view.timers)

\* What has rung keeps its mark as long as the server may have it.
RungIsMarked == \A t \in OnLine \cup view.timers : t.id \in rung => t.id \in view.processedIds

ServerIsShown ==
  /\ view.connectivity = "up" /\ ~view.awaitingResync
  /\ Confirmed(view.timers) \subseteq serverTimers
  /\ view.items = orders
  /\ \A t \in serverTimers : IsRunning(t, now) => t \in view.timers

\* A list is on its way, or the server's list is shown.
ShowsServer == joined /\ Lists = {} => ServerIsShown

Awaits ==
  /\ prevConnectivity = "down" => view.awaitingResync
  /\ prevConnectivity = "up" => view.connectivity = "up"
  /\ heardAt = None => view.items = {} \/ view.awaitingResync

ClientInv ==
  /\ ClientTypeOK /\ Identified
  /\ LineIsSound /\ LineIsCurrent /\ LineHasNoGaps /\ NewOnLine
  /\ RungIsMarked /\ RingsOnce /\ ShowsServer /\ Awaits /\ OnlyRunningContested

LEMMA InitClientInv == InitClient => ClientInv
<1> SUFFICES ASSUME InitClient PROVE ClientInv
  OBVIOUS
<1>0. view.timers = {} /\ view.items = {} /\ rungTwice = {} /\ joined = FALSE /\ prevConnectivity = None
  BY DEF InitClient, EmptyView
<1> USE DEF InitClient
<1>1. ClientTypeOK
  BY FS_EmptySet DEF ClientTypeOK, Messages, Requests, EmptyView
<1>2. Lists = {} /\ OnLine = {}
  BY DEF Lists, OnLine
<1>3. Identified /\ RungIsMarked /\ NewOnLine /\ LineHasNoGaps
  BY <1>0, <1>2 DEF Identified, RungIsMarked, NewOnLine, LineHasNoGaps
<1>4. LineIsSound /\ LineIsCurrent
  BY <1>2 DEF LineIsSound, LineIsCurrent, ServerIsSound, DisjointSlots
<1>5. RingsOnce /\ ShowsServer /\ OnlyRunningContested
  BY <1>0 DEF RingsOnce, ShowsServer, OnlyRunningContested
<1>6. Awaits
  BY <1>0 DEF Awaits
<1> QED
  BY <1>1, <1>3, <1>4, <1>5, <1>6 DEF ClientInv

-----------------------------------------------------------------------------
(* What the handlers leave of a view.                                      *)

IsView(v) == DOMAIN v = DOMAIN EmptyView

LEMMA Connectivity ==
  ASSUME NEW v, IsView(v), NEW status
  PROVE  /\ IsView(DecideConnectivity(v, status))
         /\ DecideConnectivity(v, status).timers = v.timers
         /\ DecideConnectivity(v, status).items = v.items
         /\ DecideConnectivity(v, status).processedIds = v.processedIds
         /\ DecideConnectivity(v, status).connectivity = status
         /\ DecideConnectivity(v, status).awaitingResync <=> status = "down" \/ v.awaitingResync
BY DEF IsView, EmptyView, DecideConnectivity

LEMMA Reconciled ==
  ASSUME NEW v, IsView(v), NEW snapshot, NEW at
  PROVE  LET w == DecideReconcile(v, snapshot, at)
             provisional == Provisional(v.timers)
         IN  /\ IsView(w)
             /\ w.timers = ResolveSlotOccupancy(snapshot.timers \cup provisional, at)
             /\ w.items = snapshot.items
             /\ w.processedIds = v.processedIds \cap IdsOf(snapshot.timers \cup provisional)
             /\ w.connectivity = v.connectivity
             /\ ~w.awaitingResync
<1> DEFINE provisional == Provisional(v.timers)
           shown == ResolveSlotOccupancy(snapshot.timers \cup provisional, at)
           retained == RetainedIds(snapshot.timers, provisional, shown)
           r == ReconcileServerConfirmed(v, snapshot.timers, at)
<1>1. /\ DOMAIN r = DOMAIN EmptyView
      /\ r.timers = shown
      /\ r.processedIds = v.processedIds \cap retained
      /\ r.connectivity = v.connectivity
      /\ r.awaitingResync = FALSE
  BY ZenonT(30) DEF IsView, EmptyView, ReconcileServerConfirmed
<1>2. retained = IdsOf(snapshot.timers \cup provisional)
  BY DEF RetainedIds
<1> HIDE DEF r, shown, retained
<1>3. DecideReconcile(v, snapshot, at) = [r EXCEPT !.items = snapshot.items]
  BY DEF DecideReconcile, r
<1> QED
  BY <1>1, <1>2, <1>3 DEF IsView, EmptyView, shown

\* DecideSnapshot adds to a reconciliation only that it is in sync.
LEMMA Synced ==
  ASSUME NEW v, IsView(v), NEW snapshot, NEW at
  PROVE  LET w == DecideSnapshot(v, snapshot, at)
             r == DecideReconcile(v, snapshot, at)
         IN  /\ IsView(w)
             /\ w.timers = r.timers /\ w.items = r.items /\ w.processedIds = r.processedIds
             /\ w.connectivity = r.connectivity /\ w.awaitingResync = r.awaitingResync
<1>1. IsView(DecideReconcile(v, snapshot, at))
  BY Reconciled
<1> QED
  BY <1>1 DEF IsView, EmptyView, DecideSnapshot

LEMMA LocalStartAdds ==
  ASSUME NEW v, IsView(v), NEW id, NEW slots, NEW at, NEW boil
  PROVE  v.timers \subseteq DecideLocalStart(v, id, slots, at, boil).timers
<1> DEFINE new == [id |-> id, slots |-> slots, end |-> at + boil, origin |-> "local"]
<1>1. CASE SlotsOf(v.timers) \cap slots # {}
  BY <1>1 DEF DecideLocalStart
<1>2. CASE SlotsOf(v.timers) \cap slots = {}
  <2>1. DecideLocalStart(v, id, slots, at, boil)
          = [v EXCEPT !.timers = @ \cup {new}, !.lastResults = ClearLastResults(@, slots)]
    BY <1>2 DEF DecideLocalStart
  <2> HIDE DEF new
  <2>2. DecideLocalStart(v, id, slots, at, boil).timers = v.timers \cup {new}
    BY <2>1 DEF IsView, EmptyView
  <2> QED
    BY <2>2
<1> QED
  BY <1>1, <1>2

LEMMA LocalCancelTakes ==
  ASSUME NEW v, IsView(v), NEW t
  PROVE  LET w == DecideLocalCancel(v, t)
         IN  /\ IsView(w) /\ w.timers = v.timers \ {t} /\ w.items = v.items
             /\ v.processedIds \subseteq w.processedIds
             /\ w.connectivity = v.connectivity /\ w.awaitingResync = v.awaitingResync
<1> DEFINE marked == IF t.origin = "server" THEN v.processedIds \cup {t.id} ELSE v.processedIds
           last == RecordLastResults(v.lastResults, t)
<1>1. DecideLocalCancel(v, t)
        = [v EXCEPT !.timers = v.timers \ {t}, !.processedIds = marked, !.lastResults = last]
  BY DEF DecideLocalCancel, IsView, EmptyView
<1>2. v.processedIds \subseteq marked
  OBVIOUS
<1> HIDE DEF marked, last
<1> QED
  BY <1>1, <1>2 DEF IsView, EmptyView

-----------------------------------------------------------------------------
(* Two claims on one slot.                                                 *)

\* What runs keeps its place.
LEMMA RunningKeepsItsPlace ==
  ASSUME NEW timers, NEW at, NEW t \in timers, IsRunning(t, at)
  PROVE  t \in ResolveSlotOccupancy(timers, at)
<1> DEFINE Claim(s, side) == {u \in side : s \in u.slots}
           Runs(side) == \E u \in side : IsRunning(u, at)
           Server(s) == Claim(s, Confirmed(timers))
           Local(s) == Claim(s, Provisional(timers))
           LosersOn(s) ==
             CASE Server(s) = {} \/ Local(s) = {} \/ (Runs(Server(s)) /\ Runs(Local(s))) -> {}
               [] Server(s) # {} /\ Local(s) # {} /\ Runs(Local(s)) /\ ~Runs(Server(s)) -> Server(s)
               [] Server(s) # {} /\ Local(s) # {} /\ ~Runs(Local(s)) -> Local(s)
<1>1. ASSUME NEW s, t \in LosersOn(s) PROVE FALSE
  <2>1. CASE Server(s) = {} \/ Local(s) = {} \/ (Runs(Server(s)) /\ Runs(Local(s)))
    <3> HIDE DEF Server, Local, Runs
    <3> QED
      BY <1>1, <2>1
  <2>2. CASE Server(s) # {} /\ Local(s) # {} /\ Runs(Local(s)) /\ ~Runs(Server(s))
    <3>1. LosersOn(s) = Server(s)
      <4> HIDE DEF Server, Local, Runs
      <4> QED
        BY <2>2
    <3> QED
      BY <1>1, <2>2, <3>1
  <2>3. CASE Server(s) # {} /\ Local(s) # {} /\ ~Runs(Local(s))
    <3>1. LosersOn(s) = Local(s)
      <4> HIDE DEF Server, Local, Runs
      <4> QED
        BY <2>3
    <3> QED
      BY <1>1, <2>3, <3>1
  <2> QED
    BY <2>1, <2>2, <2>3
<1>2. ResolveSlotOccupancy(timers, at) = timers \ UNION {LosersOn(s) : s \in SlotsOf(timers)}
  BY DEF ResolveSlotOccupancy
<1> HIDE DEF LosersOn
<1> QED
  BY <1>1, <1>2

LEMMA ResolvedIsPart ==
  ASSUME NEW timers, NEW at
  PROVE  ResolveSlotOccupancy(timers, at) \subseteq timers
BY DEF ResolveSlotOccupancy

\* Of a confirmed and a provisional timer on one slot, alone there on their sides, both stay only
\* if both run.
LEMMA OnlyRunningStay ==
  ASSUME NEW timers, NEW at, NEW s,
         NEW t \in ResolveSlotOccupancy(timers, at), t.origin = "server", s \in t.slots,
         NEW u \in ResolveSlotOccupancy(timers, at), u.origin = "local", s \in u.slots,
         \A v \in timers : v.origin = "server" /\ s \in v.slots => v = t,
         \A v \in timers : v.origin = "local" /\ s \in v.slots => v = u
  PROVE  IsRunning(t, at) /\ IsRunning(u, at)
<1> DEFINE Claim(r, side) == {v \in side : r \in v.slots}
           Runs(side) == \E v \in side : IsRunning(v, at)
           Server(r) == Claim(r, Confirmed(timers))
           Local(r) == Claim(r, Provisional(timers))
           LosersOn(r) ==
             CASE Server(r) = {} \/ Local(r) = {} \/ (Runs(Server(r)) /\ Runs(Local(r))) -> {}
               [] Server(r) # {} /\ Local(r) # {} /\ Runs(Local(r)) /\ ~Runs(Server(r)) -> Server(r)
               [] Server(r) # {} /\ Local(r) # {} /\ ~Runs(Local(r)) -> Local(r)
<1>1. t \in timers /\ u \in timers
  BY ResolvedIsPart
<1>2. Server(s) = {t} /\ Local(s) = {u}
  BY <1>1 DEF Confirmed, Provisional
<1>3. (Runs(Server(s)) <=> IsRunning(t, at)) /\ (Runs(Local(s)) <=> IsRunning(u, at))
  BY <1>2
<1>4. ResolveSlotOccupancy(timers, at) = timers \ UNION {LosersOn(r) : r \in SlotsOf(timers)}
  BY DEF ResolveSlotOccupancy
<1>5. s \in SlotsOf(timers)
  BY <1>1 DEF SlotsOf
<1>6. t \notin LosersOn(s) /\ u \notin LosersOn(s)
  <2> HIDE DEF LosersOn
  <2> QED
    BY <1>4, <1>5
<1> HIDE DEF Server, Local, Runs
<1>7. CASE Runs(Local(s)) /\ ~Runs(Server(s))
  BY <1>2, <1>6, <1>7
<1>8. CASE ~Runs(Local(s))
  BY <1>2, <1>6, <1>8
<1> QED
  BY <1>3, <1>7, <1>8

-----------------------------------------------------------------------------
(* The line.                                                               *)

LineInv == LineIsSound /\ LineIsCurrent /\ LineHasNoGaps

\* The line as it is, cut, or shorter by its first message.
Stays == UNCHANGED <<toClient, joined>>
IsCut == joined' = FALSE /\ toClient' = <<>>
Pops == toClient # <<>> /\ toClient' = Tail(toClient) /\ joined' = joined

LEMMA ListsOfLine ==
  ASSUME ClientTypeOK, UNCHANGED serverTimers
  PROVE  /\ Stays => Lists' = Lists /\ OnLine' = OnLine
         /\ IsCut => Lists' = {} /\ OnLine' = serverTimers
         /\ Pops => /\ \A i \in Lists' : /\ i \in Nat \ {0} /\ i + 1 \in Lists
                                         /\ toClient'[i] = toClient[i + 1]
                    /\ \A i \in Lists : i # 1 => i - 1 \in Lists' /\ toClient'[i - 1] = toClient[i]
                    /\ OnLine' \subseteq OnLine
<1>1. Stays => Lists' = Lists /\ OnLine' = OnLine
  BY DEF Stays, Lists, OnLine
<1>2. IsCut => Lists' = {} /\ OnLine' = serverTimers
  BY DEF IsCut, Lists, OnLine
<1>3. ASSUME Pops
      PROVE  /\ \A i \in Lists' : /\ i \in Nat \ {0} /\ i + 1 \in Lists
                                  /\ toClient'[i] = toClient[i + 1]
             /\ \A i \in Lists : i # 1 => i - 1 \in Lists' /\ toClient'[i - 1] = toClient[i]
  <2>1. toClient \in Seq(Messages)
    BY DEF ClientTypeOK
  <2>2. /\ Len(toClient') = Len(toClient) - 1
        /\ \A i \in 1 .. Len(toClient) - 1 : toClient'[i] = toClient[i + 1]
        /\ DOMAIN toClient' = 1 .. Len(toClient) - 1 /\ DOMAIN toClient = 1 .. Len(toClient)
        /\ Len(toClient) \in Nat
    BY <1>3, <2>1, HeadTailProperties, LenProperties DEF Pops
  <2> QED
    BY <2>2 DEF Lists
<1>4. Pops => OnLine' \subseteq OnLine
  BY <1>3 DEF OnLine
<1> QED
  BY <1>1, <1>2, <1>3, <1>4

LEMMA LineStaysInOrder ==
  ASSUME ClientTypeOK, LineInv, UNCHANGED server, Stays \/ IsCut \/ Pops
  PROVE  LineInv'
<1>1. CASE Stays
  BY <1>1, ListsOfLine DEF server, Stays, LineInv, LineIsSound, LineIsCurrent, LineHasNoGaps, ServerIsSound, DisjointSlots
<1>2. CASE IsCut
  BY <1>2, ListsOfLine DEF server, IsCut, LineInv, LineIsSound, LineIsCurrent, LineHasNoGaps, ServerIsSound, DisjointSlots
<1>3. CASE Pops
  <2>1. /\ \A i \in Lists' : i \in Nat /\ i + 1 \in Lists /\ toClient'[i] = toClient[i + 1]
        /\ \A i \in Lists : i # 1 => i - 1 \in Lists' /\ toClient'[i - 1] = toClient[i]
        /\ UNCHANGED <<serverTimers, orders, joined>>
    BY <1>3, ListsOfLine DEF server, Pops
  <2>2. Lists \subseteq Nat \ {0}
    BY DEF Lists, ClientTypeOK
  <2>3. LineIsSound'
    BY <2>1 DEF LineInv, LineIsSound, ServerIsSound, DisjointSlots
  <2>4. LineIsCurrent'
    <3> SUFFICES ASSUME joined, NEW i \in Lists', \A j \in Lists' : j <= i
                 PROVE  toClient'[i].timers = serverTimers /\ toClient'[i].items = orders
      BY <2>1 DEF LineIsCurrent
    <3>1. \A j \in Lists : j <= i + 1
      BY <2>1, <2>2
    <3> QED
      BY <2>1, <3>1 DEF LineInv, LineIsCurrent
  <2>5. LineHasNoGaps'
    <3> SUFFICES ASSUME NEW i \in Lists', NEW j \in Lists', i < j, NEW t \in toClient'[i].timers,
                        t \in serverTimers \cup UNION {toClient'[k].timers : k \in {l \in Lists' : j < l}}
                 PROVE  t \in toClient'[j].timers
      BY <2>1 DEF LineHasNoGaps
    <3>1. i + 1 \in Lists /\ j + 1 \in Lists /\ i + 1 < j + 1 /\ t \in toClient[i + 1].timers
      BY <2>1
    <3>2. t \in serverTimers \cup UNION {toClient[k].timers : k \in {l \in Lists : j + 1 < l}}
      BY <2>1
    <3> QED
      BY <2>1, <3>1, <3>2 DEF LineInv, LineHasNoGaps
  <2> QED
    BY <2>3, <2>4, <2>5 DEF LineInv
<1> QED
  BY <1>1, <1>2, <1>3

\* What is new to the terminal stays so if it learns no id that is on the line.
LEMMA NewStaysNew ==
  ASSUME ClientTypeOK, NewOnLine, UNCHANGED server, Stays \/ IsCut \/ Pops,
         \A t \in OnLine : t.id \in rung' \cup IdsOf(view'.timers) => t.id \in rung \cup IdsOf(view.timers)
  PROVE  NewOnLine'
<1> SUFFICES ASSUME NEW i \in Lists',
                    NEW t \in serverTimers \cup UNION {toClient'[k].timers : k \in {l \in Lists' : i < l}},
                    t \notin toClient'[i].timers
             PROVE  t.id \notin rung' \cup IdsOf(view'.timers)
  BY DEF NewOnLine, server
<1>0. UNCHANGED serverTimers
  BY DEF server
<1>1. CASE Stays
  <2>1. Lists' = Lists /\ toClient' = toClient
    BY <1>0, <1>1, ListsOfLine DEF Stays
  <2>2. t.id \notin rung \cup IdsOf(view.timers) /\ t \in OnLine
    BY <2>1 DEF NewOnLine, OnLine
  <2> QED
    BY <2>2
<1>2. CASE IsCut
  BY <1>0, <1>2, ListsOfLine
<1>3. CASE Pops
  <2>1. \A j \in Lists' : j \in Nat /\ j + 1 \in Lists /\ toClient'[j] = toClient[j + 1]
    BY <1>0, <1>3, ListsOfLine
  <2>2. t \in serverTimers \cup UNION {toClient[k].timers : k \in {l \in Lists : i + 1 < l}}
    BY <2>1
  <2>3. t.id \notin rung \cup IdsOf(view.timers) /\ t \in OnLine
    BY <2>1, <2>2 DEF NewOnLine, OnLine
  <2> QED
    BY <2>3
<1> QED
  BY <1>1, <1>2, <1>3

\* A step of the terminal that takes timers off the view, lets timers of the view ring and marks
\* what rings.
LEMMA TerminalStep ==
  ASSUME ClientInv, UNCHANGED <<server, nextId>>, Stays \/ IsCut \/ Pops,
         view'.timers \subseteq view.timers,
         view.processedIds \subseteq view'.processedIds,
         rung' \subseteq rung \cup (view'.processedIds \cap IdsOf(view.timers))
  PROVE  LineInv' /\ Identified' /\ NewOnLine' /\ RungIsMarked'
<1>1. OnLine' \cup view'.timers \subseteq OnLine \cup view.timers
  <2>1. OnLine' \subseteq OnLine
    BY ListsOfLine DEF ClientInv, server, OnLine
  <2> QED
    BY <2>1
<1>2. \A n \in rung' : n \in rung \cup IdsOf(view.timers)
  OBVIOUS
<1>3. LineInv'
  BY LineStaysInOrder DEF ClientInv, LineInv
<1>4. Identified'
  <2>1. \A n \in IdsOf(view.timers) : n \in Nat /\ n < nextId
    BY DEF ClientInv, Identified, IdsOf, ClientTypeOK, Timers
  <2> QED
    BY <1>1, <1>2, <2>1 DEF ClientInv, Identified
<1>5. NewOnLine'
  <2>1. IdsOf(view'.timers) \subseteq IdsOf(view.timers)
    BY DEF IdsOf
  <2> QED
    BY <1>2, <2>1, NewStaysNew DEF ClientInv
<1>6. RungIsMarked'
  BY <1>1 DEF ClientInv, RungIsMarked
<1> QED
  BY <1>3, <1>4, <1>5, <1>6

\* A message that is no list changes nothing of the line.
LEMMA ErrorOnLine ==
  ASSUME ClientTypeOK, NEW m, m.type = "error", toClient' = Append(toClient, m),
         UNCHANGED <<server, joined>>
  PROVE  /\ Lists' = Lists /\ OnLine' = OnLine
         /\ \A i \in Lists : toClient'[i] = toClient[i]
         /\ LineInv => LineInv'
<1>1. /\ DOMAIN toClient' = 1 .. Len(toClient) + 1 /\ DOMAIN toClient = 1 .. Len(toClient)
      /\ \A i \in 1 .. Len(toClient) : toClient'[i] = toClient[i]
      /\ toClient'[Len(toClient) + 1] = m
      /\ Len(toClient) \in Nat
  BY DEF ClientTypeOK
<1>2. Lists' = Lists /\ \A i \in Lists : toClient'[i] = toClient[i]
  BY <1>1 DEF Lists
<1>3. OnLine' = OnLine
  BY <1>2 DEF OnLine, server
<1>4. LineInv => LineInv'
  <2>1. UNCHANGED <<serverTimers, orders, joined>>
    BY DEF server
  <2>2. LineIsSound => LineIsSound'
    BY <1>2, <2>1 DEF LineIsSound, ServerIsSound, DisjointSlots
  <2>3. ASSUME LineIsCurrent PROVE LineIsCurrent'
    <3> SUFFICES ASSUME joined', NEW i \in Lists', \A j \in Lists' : j <= i
                 PROVE  toClient'[i].timers = serverTimers' /\ toClient'[i].items = orders'
      BY DEF LineIsCurrent
    <3>1. joined /\ i \in Lists /\ \A j \in Lists : j <= i
      BY <1>2, <2>1
    <3> QED
      BY <1>2, <2>1, <2>3, <3>1 DEF LineIsCurrent
  <2>4. ASSUME LineHasNoGaps PROVE LineHasNoGaps'
    <3> SUFFICES ASSUME NEW i \in Lists, NEW j \in Lists, i < j, NEW t \in toClient[i].timers,
                        t \in serverTimers \cup UNION {toClient'[k].timers : k \in {l \in Lists : j < l}}
                 PROVE  t \in toClient'[j].timers
      BY <1>2, <2>1 DEF LineHasNoGaps
    <3>1. t \in serverTimers \cup UNION {toClient[k].timers : k \in {l \in Lists : j < l}}
      BY <1>2
    <3> QED
      BY <1>2, <2>4, <3>1 DEF LineHasNoGaps
  <2> QED
    BY <2>2, <2>3, <2>4 DEF LineInv
<1> QED
  BY <1>2, <1>3, <1>4

\* The server's list changes, at most by a timer with the next id, and goes on the line.
LEMMA ServerStep ==
  ASSUME ClientInv, UNCHANGED <<page, joined, history, prevConnectivity, now>>,
         NEW timers \in SUBSET Timers, IsFiniteSet(timers), ServerIsSound(timers),
         NEW items \in {{}, Orders}, ServerBecomes(timers, items),
         nextId' \in Nat, nextId <= nextId',
         \A t, u \in timers \ serverTimers : t = u /\ t.id = nextId /\ nextId < nextId'
  PROVE  /\ Lists' # {} \/ ~joined
         /\ LineInv' /\ Identified' /\ NewOnLine' /\ RungIsMarked'
         /\ toClient' \in Seq(Messages)
         /\ \A i \in DOMAIN toClient' : toClient'[i].type = "snapshot" => IsFiniteSet(toClient'[i].timers)
<1> DEFINE m == [type |-> "snapshot", timers |-> timers, items |-> items]
           n == Len(toClient)
<1>1. /\ toClient \in Seq(Messages) /\ n \in Nat /\ DOMAIN toClient = 1 .. n
      /\ serverTimers' = timers /\ orders' = items
      /\ m \in Messages
  BY DEF ClientInv, ClientTypeOK, ServerBecomes, Messages
<1>2. /\ Lists \subseteq Lists' /\ \A i \in Lists : toClient'[i] = toClient[i]
      /\ \A i \in Lists' : i \in Lists \/ (joined /\ i = n + 1 /\ toClient'[i] = m)
      /\ joined => n + 1 \in Lists'
      /\ \A i \in Lists : i \in Nat /\ i <= n
  <2>1. CASE joined
    <3>1. toClient' = Append(toClient, m)
      BY <2>1 DEF ServerBecomes
    <3>2. /\ DOMAIN toClient' = 1 .. n + 1 /\ toClient'[n + 1] = m
          /\ \A i \in 1 .. n : toClient'[i] = toClient[i]
      BY <1>1, <3>1
    <3>3. m.type = "snapshot"
      OBVIOUS
    <3> HIDE DEF m
    <3> QED
      BY <1>1, <2>1, <3>2, <3>3 DEF Lists
  <2>2. CASE ~joined
    <3>1. toClient' = toClient
      BY <2>2 DEF ServerBecomes
    <3> QED
      BY <1>1, <2>2, <3>1 DEF Lists
  <2> QED
    BY <2>1, <2>2
<1>3. /\ toClient' \in Seq(Messages)
      /\ \A i \in DOMAIN toClient' : toClient'[i].type = "snapshot" => IsFiniteSet(toClient'[i].timers)
  <2>1. CASE joined
    <3>1. toClient' = Append(toClient, m)
      BY <2>1 DEF ServerBecomes
    <3>2. /\ DOMAIN toClient' = 1 .. n + 1 /\ toClient'[n + 1] = m
          /\ \A i \in 1 .. n : toClient'[i] = toClient[i]
      BY <1>1, <3>1
    <3>3. \A i \in 1 .. n : toClient[i].type = "snapshot" => IsFiniteSet(toClient[i].timers)
      BY <1>1 DEF ClientInv, ClientTypeOK
    <3>4. IsFiniteSet(m.timers)
      OBVIOUS
    <3>5. toClient' \in Seq(Messages)
      <4> HIDE DEF m
      <4> QED
        BY <1>1, <3>1
    <3> HIDE DEF m
    <3> QED
      BY <1>1, <3>2, <3>3, <3>4, <3>5
  <2>2. CASE ~joined
    BY <2>2 DEF ServerBecomes, ClientInv, ClientTypeOK
  <2> QED
    BY <2>1, <2>2
<1>4. m.timers = timers /\ m.items = items
  OBVIOUS
<1> HIDE DEF m, n
<1>5. LineIsSound'
  BY <1>1, <1>2, <1>4 DEF ClientInv, LineIsSound, ServerIsSound, DisjointSlots
<1>6. LineIsCurrent'
  <2> SUFFICES ASSUME joined, NEW i \in Lists', \A j \in Lists' : j <= i
               PROVE  toClient'[i].timers = timers /\ toClient'[i].items = items
    BY <1>1 DEF LineIsCurrent
  <2>1. i = n + 1
    BY <1>1, <1>2
  <2>2. toClient'[i] = m
    BY <1>1, <1>2, <2>1
  <2> QED
    BY <1>4, <2>2
<1>7. \A i \in Lists : \A t \in serverTimers' \cup UNION {toClient'[k].timers : k \in {l \in Lists' : i < l}} :
        \/ t \in serverTimers \cup UNION {toClient[k].timers : k \in {l \in Lists : i < l}}
        \/ t.id = nextId /\ t \notin OnLine
  <2> SUFFICES ASSUME NEW i \in Lists,
                      NEW t \in serverTimers' \cup UNION {toClient'[k].timers : k \in {l \in Lists' : i < l}},
                      t \notin serverTimers \cup UNION {toClient[k].timers : k \in {l \in Lists : i < l}}
               PROVE  t.id = nextId /\ t \notin OnLine
    OBVIOUS
  <2>1. t \in timers
    BY <1>1, <1>2, <1>4
  <2>2. t.id = nextId
    BY <2>1
  <2> QED
    BY <2>2 DEF ClientInv, Identified, ClientTypeOK
<1>8. LineHasNoGaps'
  <2> SUFFICES ASSUME NEW i \in Lists', NEW j \in Lists', i < j, NEW t \in toClient'[i].timers,
                      t \in serverTimers' \cup UNION {toClient'[k].timers : k \in {l \in Lists' : j < l}}
               PROVE  t \in toClient'[j].timers
    BY DEF LineHasNoGaps
  <2>1. i \in Lists /\ toClient'[i] = toClient[i] /\ t \in OnLine
    BY <1>1, <1>2 DEF OnLine
  <2>2. CASE j \in Lists
    BY <1>2, <1>7, <2>1, <2>2 DEF ClientInv, LineHasNoGaps
  <2>3. CASE j \notin Lists
    <3>1. j = n + 1 /\ toClient'[j] = m
      BY <1>2, <2>3
    <3>2. \A l \in Lists' : ~(j < l)
      BY <1>1, <1>2, <3>1
    <3> QED
      BY <1>1, <1>4, <3>1, <3>2
  <2> QED
    BY <2>2, <2>3
<1>9. OnLine' \subseteq OnLine \cup {t \in timers \ serverTimers : t.id = nextId /\ nextId < nextId'}
  BY <1>1, <1>2, <1>4 DEF OnLine
<1>10. view' = view /\ rung' = rung /\ rungTwice' = rungTwice
  BY DEF page, history
<1>11. Identified'
  <2>1. \A t \in OnLine \cup view.timers : t.id < nextId
    BY DEF ClientInv, Identified
  <2>2. \A t \in OnLine \cup view.timers : t.id \in Nat
    BY <1>1 DEF ClientInv, ClientTypeOK, Timers, OnLine, Lists, Messages
  <2>3. nextId \in Nat
    BY DEF ClientInv, ClientTypeOK
  <2>4. \A t, u \in OnLine' \cup view'.timers : t.id = u.id => t = u
    BY <1>9, <1>10, <2>1, <2>2, <2>3 DEF ClientInv, Identified
  <2>5. \A t \in OnLine' \cup view'.timers : t.id < nextId'
    BY <1>9, <1>10, <2>1, <2>2, <2>3
  <2>6. \A k \in rung' : k \in Nat /\ k < nextId'
    BY <1>10, <2>3 DEF ClientInv, Identified
  <2> QED
    BY <2>4, <2>5, <2>6 DEF Identified
<1>12. nextId \notin rung \cup IdsOf(view.timers)
  BY DEF ClientInv, ClientTypeOK, Identified, IdsOf
<1>13. NewOnLine'
  <2> SUFFICES ASSUME NEW i \in Lists',
                      NEW t \in serverTimers' \cup UNION {toClient'[k].timers : k \in {l \in Lists' : i < l}},
                      t \notin toClient'[i].timers
               PROVE  t.id \notin rung \cup IdsOf(view.timers)
    BY <1>10 DEF NewOnLine
  <2>1. CASE i \in Lists
    BY <1>2, <1>7, <1>12, <2>1 DEF ClientInv, NewOnLine
  <2>2. CASE i \notin Lists
    BY <1>1, <1>2, <1>4, <2>2
  <2> QED
    BY <2>1, <2>2
<1>14. RungIsMarked'
  BY <1>9, <1>10, <1>12 DEF ClientInv, RungIsMarked
<1> QED
  BY <1>2, <1>3, <1>5, <1>6, <1>8, <1>11, <1>13, <1>14 DEF LineInv

-----------------------------------------------------------------------------
(* The terminal's steps.                                                   *)

LEMMA LineIsTyped ==
  ASSUME ClientTypeOK, Stays \/ IsCut \/ Pops
  PROVE  /\ toClient' \in Seq(Messages)
         /\ \A i \in DOMAIN toClient' : toClient'[i].type = "snapshot" => IsFiniteSet(toClient'[i].timers)
<1>1. CASE Stays
  BY <1>1 DEF Stays, ClientTypeOK
<1>2. CASE IsCut
  BY <1>2 DEF IsCut
<1>3. CASE Pops
  <2>1. toClient \in Seq(Messages)
    BY DEF ClientTypeOK
  <2>2. /\ toClient' \in Seq(Messages)
        /\ \A i \in 1 .. Len(toClient) - 1 : toClient'[i] = toClient[i + 1]
        /\ DOMAIN toClient' = 1 .. Len(toClient) - 1 /\ DOMAIN toClient = 1 .. Len(toClient)
        /\ Len(toClient) \in Nat
    BY <1>3, <2>1, HeadTailProperties, LenProperties DEF Pops
  <2>3. \A i \in 1 .. Len(toClient) : toClient[i].type = "snapshot" => IsFiniteSet(toClient[i].timers)
    BY <2>2 DEF ClientTypeOK
  <2> QED
    BY <2>2, <2>3
<1> QED
  BY <1>1, <1>2, <1>3

\* A step of the terminal that takes timers off the view, what remains to be seen of it apart.
LEMMA TerminalKeeps ==
  ASSUME ClientInv, UNCHANGED <<server, nextId>>, Stays \/ IsCut \/ Pops,
         toServer' \in Seq(Requests), now' \in Nat,
         IsView(view'), stored' = Persisted(view'),
         view'.timers \subseteq view.timers,
         view.processedIds \subseteq view'.processedIds,
         rung' \subseteq rung \cup (view'.processedIds \cap IdsOf(view.timers)),
         rungTwice' = {}, heardAt' \in {heardAt, None},
         ShowsServer', Awaits'
  PROVE  ClientInv'
<1>1. LineInv' /\ Identified' /\ NewOnLine' /\ RungIsMarked'
  BY TerminalStep
<1>2. ClientTypeOK'
  <2>1. IsFiniteSet(view'.timers)
    BY FS_Subset DEF ClientInv, ClientTypeOK
  <2>2. DOMAIN view' = DOMAIN EmptyView
    BY DEF IsView
  <2>3. toClient' \in Seq(Messages)
        /\ \A i \in DOMAIN toClient' : toClient'[i].type = "snapshot" => IsFiniteSet(toClient'[i].timers)
    BY LineIsTyped DEF ClientInv
  <2>4. stored' = Persisted(view)'
    BY DEF Persisted
  <2> QED
    BY <2>1, <2>2, <2>3, <2>4 DEF ClientInv, ClientTypeOK, server
<1>3. OnlyRunningContested'
  BY DEF ClientInv, OnlyRunningContested
<1> QED
  BY <1>1, <1>2, <1>3 DEF ClientInv, LineInv, RingsOnce

\* A list stays on a line from which no list is taken.
LEMMA ListStays ==
  ASSUME ClientTypeOK, UNCHANGED serverTimers,
         Stays \/ (Pops /\ Head(toClient).type = "error"), Lists' = {}
  PROVE  Lists = {}
<1>1. CASE Stays
  BY <1>1, ListsOfLine
<1>2. CASE Pops /\ Head(toClient).type = "error"
  <2>1. 1 \notin Lists
    BY <1>2 DEF Lists, ClientTypeOK, Pops
  <2>2. \A i \in Lists : i # 1 => i - 1 \in Lists'
    BY <1>2, ListsOfLine
  <2> QED
    BY <2>1, <2>2
<1> QED
  BY <1>1, <1>2

\* A step that the list, the items and the status of the view come through.
LEMMA QuietStep ==
  ASSUME ClientInv, UNCHANGED <<server, nextId, prevConnectivity, now, rung, rungTwice, heardAt>>,
         toServer' \in Seq(Requests), Stays \/ (Pops /\ Head(toClient).type = "error"),
         IsView(view'), stored' = Persisted(view'),
         UNCHANGED <<view.timers, view.items, view.processedIds, view.connectivity, view.awaitingResync>>
  PROVE  ClientInv'
<1>1. ShowsServer'
  <2> SUFFICES ASSUME joined', Lists' = {}
               PROVE  ServerIsShown'
    BY DEF ShowsServer
  <2>1. Lists = {}
    BY ListStays DEF ClientInv, server
  <2>2. joined
    BY DEF Stays, Pops
  <2> QED
    BY <2>1, <2>2 DEF ClientInv, ShowsServer, ServerIsShown, server
<1>2. Awaits'
  BY DEF ClientInv, Awaits
<1> QED
  BY <1>1, <1>2, TerminalKeeps DEF ClientInv, ClientTypeOK, RingsOnce

LEMMA SocketOpensKeeps == ASSUME ClientInv, SocketOpens PROVE ClientInv'
<1> USE DEF SocketOpens
<1>1. UNCHANGED <<serverTimers, orders, view, stored, nextId, now, rung, rungTwice, heardAt, prevConnectivity>>
  BY DEF page, server, world, history
<1>2. toClient' = <<Snapshot>> /\ joined' /\ toServer' = <<>>
  OBVIOUS
<1>3. Lists' = {1} /\ toClient'[1].timers = serverTimers /\ toClient'[1].items = orders
  BY <1>2 DEF Lists, Snapshot
<1>4. OnLine' = serverTimers /\ serverTimers \subseteq OnLine
  BY <1>1, <1>3 DEF OnLine
<1>5. ClientTypeOK'
  <2>1. toClient' \in Seq(Messages)
    BY <1>2 DEF Messages, Snapshot, ClientInv, ClientTypeOK
  <2>2. \A i \in DOMAIN toClient' : toClient'[i].type = "snapshot" => IsFiniteSet(toClient'[i].timers)
    BY <1>2, <1>3 DEF ClientInv, ClientTypeOK
  <2> QED
    BY <1>1, <1>2, <2>1, <2>2 DEF ClientInv, ClientTypeOK
<1>6. Identified' /\ RungIsMarked'
  BY <1>1, <1>4 DEF ClientInv, Identified, RungIsMarked
<1>7. LineIsSound' /\ LineIsCurrent' /\ LineHasNoGaps' /\ NewOnLine'
  <2>1. LineIsSound'
    BY <1>1, <1>3 DEF ClientInv, LineIsSound, ServerIsSound, DisjointSlots
  <2>2. LineIsCurrent'
    BY <1>1, <1>3 DEF LineIsCurrent
  <2>3. LineHasNoGaps'
    BY <1>3 DEF LineHasNoGaps
  <2>4. NewOnLine'
    BY <1>1, <1>3 DEF NewOnLine
  <2> QED
    BY <2>1, <2>2, <2>3, <2>4
<1>8. RingsOnce' /\ ShowsServer' /\ Awaits' /\ OnlyRunningContested'
  BY <1>1, <1>3 DEF ClientInv, RingsOnce, ShowsServer, Awaits, OnlyRunningContested
<1> QED
  BY <1>5, <1>6, <1>7, <1>8 DEF ClientInv

LEMMA SyncTimeoutKeeps == ASSUME ClientInv, SyncTimeout PROVE ClientInv'
BY QuietStep DEF SyncTimeout, Update, IsView, EmptyView, ClientInv, ClientTypeOK, link, world, history, Stays

LEMMA ProbeAnswersKeeps == ASSUME ClientInv, NEW a, ProbeAnswers(a) PROVE ClientInv'
BY QuietStep DEF ProbeAnswers, Update, DecideClassify, IsView, EmptyView, ClientInv, ClientTypeOK, flags, link, world, history, Stays

LEMMA ReceiveErrorKeeps == ASSUME ClientInv, ReceiveError PROVE ClientInv'
<1>1. IsView(view') /\ UNCHANGED <<view.timers, view.items, view.processedIds, view.connectivity, view.awaitingResync>>
  BY DEF ReceiveError, Update, DecideError, IsView, EmptyView, ClientInv, ClientTypeOK
<1> QED
  BY <1>1, QuietStep DEF ReceiveError, Update, flags, world, history, Pops, ClientInv, ClientTypeOK

LEMMA PongKeeps == ASSUME ClientInv, Pong PROVE ClientInv'
<1>1. IsView(view)
  BY DEF ClientInv, ClientTypeOK, IsView
<1>2. /\ UNCHANGED <<server, nextId, toServer, toClient, joined, now, rung, rungTwice, heardAt>>
      /\ view' = DecideConnectivity(view, "up") /\ stored' = Persisted(view')
      /\ prevConnectivity' = "up"
  BY DEF Pong, Update, link, world, history
<1>3. /\ IsView(view') /\ view'.timers = view.timers /\ view'.items = view.items
      /\ view'.processedIds = view.processedIds /\ view'.connectivity = "up"
      /\ view'.awaitingResync <=> view.awaitingResync
  BY <1>1, <1>2, Connectivity
<1>4. Lists' = Lists
  BY <1>2 DEF Lists
<1>5. ShowsServer'
  BY <1>2, <1>3, <1>4 DEF ClientInv, ShowsServer, ServerIsShown, server
<1>6. Awaits'
  BY <1>2, <1>3 DEF ClientInv, Awaits
<1> QED
  BY <1>2, <1>3, <1>5, <1>6, TerminalKeeps DEF ClientInv, ClientTypeOK, RingsOnce, Stays

LEMMA DownKeeps == ASSUME ClientInv, Down PROVE ClientInv'
<1>1. IsView(view)
  BY DEF ClientInv, ClientTypeOK, IsView
<1>2. /\ UNCHANGED <<server, nextId, now, rung, rungTwice>>
      /\ IsCut /\ toServer' = <<>> /\ heardAt' = None /\ prevConnectivity' = "down"
  BY DEF Down, IsCut
<1>3. /\ IsView(view') /\ view'.timers = view.timers
      /\ view'.processedIds = view.processedIds /\ stored' = Persisted(view')
      /\ view'.awaitingResync
  <2>1. CASE prevConnectivity # "down"
    BY <1>1, <2>1, Connectivity DEF Down, Update
  <2>2. CASE prevConnectivity = "down"
    BY <1>1, <2>2 DEF Down, page, ClientInv, ClientTypeOK, Awaits
  <2> QED
    BY <2>1, <2>2
<1>4. ShowsServer' /\ Awaits'
  BY <1>2, <1>3 DEF ShowsServer, Awaits, IsCut
<1> QED
  BY <1>2, <1>3, <1>4, TerminalKeeps DEF ClientInv, ClientTypeOK, RingsOnce

LEMMA AdvanceKeeps == ASSUME ClientInv, Advance PROVE ClientInv'
<1>1. UNCHANGED <<server, nextId, view, stored, toServer, toClient, joined, rung, rungTwice, heardAt, prevConnectivity>>
  BY DEF Advance, page, flags, link, history
<1>2. now' \in Nat /\ now' = now + 1
  BY DEF Advance, ClientInv, ClientTypeOK
<1>3. Lists' = Lists
  BY <1>1 DEF Lists
<1>4. \A t \in serverTimers : IsRunning(t, now') => IsRunning(t, now)
  BY <1>2 DEF IsRunning, ClientInv, ClientTypeOK, Timers
<1>5. ShowsServer'
  BY <1>1, <1>3, <1>4 DEF ClientInv, ShowsServer, ServerIsShown, server
<1>6. Awaits'
  BY <1>1 DEF ClientInv, Awaits
<1> QED
  BY <1>1, <1>2, <1>5, <1>6, TerminalKeeps DEF ClientInv, ClientTypeOK, RingsOnce, Stays, IsView

\* Nothing marked is due, and what rings is marked.
LEMMA FireDueRings ==
  ASSUME NEW shown, IsView(shown), FireDue(shown, now), RingsOnce,
         \A t \in shown.timers : t.id \in rung => t.id \in shown.processedIds
  PROVE  /\ IsView(view') /\ stored' = Persisted(view')
         /\ view'.timers = shown.timers /\ view'.items = shown.items
         /\ view'.connectivity = shown.connectivity /\ view'.awaitingResync = shown.awaitingResync
         /\ shown.processedIds \subseteq view'.processedIds
         /\ rung' \subseteq rung \cup (view'.processedIds \cap IdsOf(shown.timers))
         /\ rungTwice' = {}
<1> DEFINE due == IdsOf(DueLocalTimers(shown, now))
<1>1. /\ view' = [shown EXCEPT !.processedIds = @ \cup due] /\ stored' = Persisted(view')
      /\ rung' = rung \cup due /\ rungTwice' = rungTwice \cup (rung \cap due)
  BY DEF FireDue, Update, DecideLocalDone
<1>2. due \subseteq IdsOf(shown.timers) /\ rung \cap due = {}
  BY DEF DueLocalTimers, IdsOf
<1> HIDE DEF due
<1> QED
  BY <1>1, <1>2 DEF IsView, EmptyView, RingsOnce

LEMMA TickKeeps == ASSUME ClientInv, Tick PROVE ClientInv'
<1>1. /\ UNCHANGED <<server, nextId, toServer, toClient, joined, now, heardAt, prevConnectivity>>
      /\ FireDue(view, now)
  BY DEF Tick, flags, link, world
<1>2. IsView(view) /\ RingsOnce /\ \A t \in view.timers : t.id \in rung => t.id \in view.processedIds
  BY DEF ClientInv, ClientTypeOK, IsView, RungIsMarked
<1>3. /\ IsView(view') /\ stored' = Persisted(view')
      /\ view'.timers = view.timers /\ view'.items = view.items
      /\ view'.connectivity = view.connectivity /\ view'.awaitingResync = view.awaitingResync
      /\ view.processedIds \subseteq view'.processedIds
      /\ rung' \subseteq rung \cup (view'.processedIds \cap IdsOf(view.timers))
      /\ rungTwice' = {}
  BY <1>1, <1>2, FireDueRings
<1>4. Lists' = Lists
  BY <1>1 DEF Lists
<1>5. ShowsServer'
  BY <1>1, <1>3, <1>4 DEF ClientInv, ShowsServer, ServerIsShown, server
<1>6. Awaits'
  BY <1>1, <1>3 DEF ClientInv, Awaits
<1> QED
  BY <1>1, <1>3, <1>5, <1>6, TerminalKeeps DEF ClientInv, ClientTypeOK, Stays

LEMMA ReloadKeeps == ASSUME ClientInv, Reload PROVE ClientInv'
<1> DEFINE shown == Rehydrated(stored)
<1>1. /\ IsView(shown) /\ shown.timers = view.timers /\ shown.processedIds = view.processedIds
      /\ shown.items = {}
  BY DEF IsView, EmptyView, Rehydrated, Persisted, ClientInv, ClientTypeOK
<1>2. /\ UNCHANGED <<server, nextId, now>> /\ IsCut /\ toServer' = <<>>
      /\ heardAt' = None /\ prevConnectivity' = None
      /\ FireDue(shown, now)
  BY DEF Reload, IsCut
<1> HIDE DEF shown
<1>3. /\ IsView(view') /\ stored' = Persisted(view')
      /\ view'.timers = view.timers /\ view'.items = {}
      /\ view.processedIds \subseteq view'.processedIds
      /\ rung' \subseteq rung \cup (view'.processedIds \cap IdsOf(view.timers))
      /\ rungTwice' = {}
  BY <1>1, <1>2, FireDueRings DEF ClientInv, RungIsMarked
<1>4. ShowsServer' /\ Awaits'
  BY <1>2, <1>3 DEF ShowsServer, Awaits, IsCut
<1> QED
  BY <1>2, <1>3, <1>4, TerminalKeeps DEF ClientInv, ClientTypeOK

\* The cook's message is on its way, and nothing else has changed.
LEMMA SentKeeps ==
  ASSUME ClientInv, toServer' \in Seq(Requests),
         UNCHANGED <<page, flags, probes, joined, toClient, server, world, nextId, history>>
  PROVE  ClientInv'
BY QuietStep DEF page, flags, world, history, Stays, IsView, ClientInv, ClientTypeOK

\* The timer that the terminal starts by itself is the only one with its id.
LEMMA LocalStartKeeps ==
  ASSUME ClientInv, NEW slots \in SlotSets, NEW boil \in BoilTimes, Mode(view) # "live",
         nextId' = nextId + 1, Update(DecideLocalStart(view, nextId, slots, now, boil)),
         UNCHANGED <<flags, probes, link, server, world, history>>
  PROVE  ClientInv'
<1> DEFINE new == [id |-> nextId, slots |-> slots, end |-> now + boil, origin |-> "local"]
<1>1. /\ IsView(view') /\ stored' = Persisted(view')
      /\ view'.items = view.items /\ view'.processedIds = view.processedIds
      /\ view'.awaitingResync = view.awaitingResync /\ view'.connectivity = view.connectivity
      /\ \/ view'.timers = view.timers
         \/ /\ view'.timers = view.timers \cup {new}
            /\ \A u \in view.timers : u.slots \cap slots = {}
  <2>1. CASE SlotsOf(view.timers) \cap slots # {}
    BY <2>1 DEF Update, DecideLocalStart, IsView, ClientInv, ClientTypeOK
  <2>2. CASE SlotsOf(view.timers) \cap slots = {}
    <3>1. \A u \in view.timers : u.slots \cap slots = {}
      BY <2>2 DEF SlotsOf
    <3>2. view' = [view EXCEPT !.timers = @ \cup {new}, !.lastResults = ClearLastResults(@, slots)]
      BY <2>2 DEF Update, DecideLocalStart
    <3>3. DOMAIN view = DOMAIN EmptyView
      BY DEF ClientInv, ClientTypeOK
    <3>4. stored' = Persisted(view')
      BY DEF Update
    <3> HIDE DEF new
    <3> QED
      BY <3>1, <3>2, <3>3, <3>4 DEF IsView, EmptyView
  <2> QED
    BY <2>1, <2>2
<1>2. /\ UNCHANGED <<serverTimers, orders, toServer, toClient, joined, now, rung, rungTwice, heardAt, prevConnectivity>>
      /\ Lists' = Lists /\ OnLine' = OnLine
  BY DEF flags, link, server, world, history, Lists, OnLine
<1>3. new \in Timers /\ new.id = nextId /\ new.origin = "local" /\ new.slots = slots
  BY DEF Timers, ClientInv, ClientTypeOK, SlotSets
<1> HIDE DEF new
<1>4. view'.timers \subseteq view.timers \cup {new}
  BY <1>1
<1>5. \A t \in OnLine \cup view.timers : t.id \in Nat /\ t.id < nextId
  BY DEF ClientInv, Identified, ClientTypeOK, Timers, OnLine, Lists, Messages
<1>6. nextId \in Nat /\ nextId \notin rung
  BY DEF ClientInv, ClientTypeOK, Identified
<1>7. ClientTypeOK'
  <2>1. IsFiniteSet(view'.timers)
    <3>1. IsFiniteSet(view.timers)
      BY DEF ClientInv, ClientTypeOK
    <3>2. IsFiniteSet(view.timers \cup {new})
      BY <3>1, FS_AddElement
    <3> QED
      BY <1>1, <3>1, <3>2
  <2> QED
    BY <1>1, <1>2, <1>3, <2>1 DEF ClientInv, ClientTypeOK, IsView, Persisted
<1>8. LineIsSound' /\ LineIsCurrent' /\ LineHasNoGaps'
  BY <1>2, LineStaysInOrder DEF ClientInv, LineInv, Stays, server
<1>9. Identified'
  <2>1. \A t, u \in OnLine' \cup view'.timers : t.id = u.id => t = u
    BY <1>2, <1>3, <1>4, <1>5, <1>6 DEF ClientInv, Identified
  <2>2. \A t \in OnLine' \cup view'.timers : t.id < nextId'
    BY <1>2, <1>3, <1>4, <1>5, <1>6
  <2>3. \A n \in rung' : n \in Nat /\ n < nextId'
    BY <1>2, <1>6 DEF ClientInv, Identified
  <2> QED
    BY <2>1, <2>2, <2>3 DEF Identified
<1>10. NewOnLine'
  <2>1. IdsOf(view'.timers) \subseteq IdsOf(view.timers) \cup {nextId}
    BY <1>3, <1>4 DEF IdsOf
  <2>2. \A t \in OnLine : t.id \in rung' \cup IdsOf(view'.timers) => t.id \in rung \cup IdsOf(view.timers)
    BY <1>2, <1>5, <1>6, <2>1
  <2> QED
    BY <1>2, <2>2, NewStaysNew DEF ClientInv, Stays, server
<1>11. RungIsMarked'
  BY <1>1, <1>2, <1>3, <1>4, <1>6 DEF ClientInv, RungIsMarked
<1>12. ShowsServer'
  BY <1>2 DEF ClientInv, ShowsServer, ServerIsShown, Mode
<1>13. RingsOnce' /\ Awaits'
  BY <1>1, <1>2 DEF ClientInv, RingsOnce, Awaits
<1>14. OnlyRunningContested'
  <2> SUFFICES ASSUME NEW t \in view'.timers, NEW u \in view'.timers, t # u, t.slots \cap u.slots # {}
               PROVE  t \in view.timers /\ u \in view.timers
    BY <1>2 DEF ClientInv, OnlyRunningContested
  <2> QED
    BY <1>1, <1>3
<1> QED
  BY <1>7, <1>8, <1>9, <1>10, <1>11, <1>12, <1>13, <1>14 DEF ClientInv

LEMMA StartKeeps ==
  ASSUME ClientInv, NEW slots \in SlotSets, NEW boil \in BoilTimes, Start(slots, boil)
  PROVE  ClientInv'
<1>1. CASE Mode(view) = "live"
  <2>1. [type |-> "start", slots |-> slots, boil |-> boil] \in Requests
    BY DEF Requests
  <2>2. toServer \in Seq(Requests)
    BY DEF ClientInv, ClientTypeOK
  <2>3. toServer' \in Seq(Requests)
    BY <1>1, <2>1, <2>2, ConcatProperties DEF Start, Send
  <2> QED
    BY <1>1, <2>3, SentKeeps DEF Start
<1>2. CASE Mode(view) # "live"
  BY <1>2, LocalStartKeeps DEF Start
<1> QED
  BY <1>1, <1>2

\* The terminal takes timers off by itself: of the confirmed ones only while it is cut off.
LEMMA TakesOffKeeps ==
  ASSUME ClientInv, UNCHANGED <<server, nextId, toClient, joined, now, rung, rungTwice, heardAt, prevConnectivity>>,
         toServer' \in Seq(Requests), NEW off,
         Mode(view) = "live" => \A t \in off : t.origin # "server",
         IsView(view'), stored' = Persisted(view'), view'.timers = view.timers \ off,
         view.processedIds \subseteq view'.processedIds,
         UNCHANGED <<view.items, view.connectivity, view.awaitingResync>>
  PROVE  ClientInv'
<1>1. Lists' = Lists
  BY DEF Lists
<1>2. ShowsServer'
  <2> SUFFICES ASSUME joined', Lists' = {}
               PROVE  ServerIsShown'
    BY DEF ShowsServer
  <2>1. ServerIsShown
    BY <1>1 DEF ClientInv, ShowsServer
  <2>2. Mode(view) = "live"
    BY <2>1 DEF ServerIsShown, Mode
  <2>3. \A t \in serverTimers : t \notin off
    BY <2>2 DEF ClientInv, LineIsSound, ServerIsSound
  <2> QED
    BY <2>1, <2>3 DEF ServerIsShown, Confirmed, server
<1>3. Awaits'
  BY DEF ClientInv, Awaits
<1> QED
  BY <1>2, <1>3, TerminalKeeps DEF ClientInv, ClientTypeOK, RingsOnce, Stays

LEMMA CancelKeeps == ASSUME ClientInv, NEW t \in view.timers, Cancel(t) PROVE ClientInv'
<1>0. toServer \in Seq(Requests) /\ DOMAIN view = DOMAIN EmptyView
  BY DEF ClientInv, ClientTypeOK
<1>1. CASE t.origin = "server" /\ Mode(view) = "live"
  <2>1. [type |-> "end", id |-> t.id] \in Requests
    BY DEF Requests, ClientInv, ClientTypeOK, Timers
  <2>2. toServer' \in Seq(Requests)
    BY <1>0, <1>1, <2>1, ConcatProperties DEF Cancel, Send
  <2> QED
    BY <1>1, <2>2, SentKeeps DEF Cancel
<1>2. CASE ~(t.origin = "server" /\ Mode(view) = "live")
  <2>1. /\ IsView(view') /\ view'.timers = view.timers \ {t} /\ view'.items = view.items
        /\ view.processedIds \subseteq view'.processedIds
        /\ view'.connectivity = view.connectivity /\ view'.awaitingResync = view.awaitingResync
        /\ stored' = Persisted(view')
    BY <1>0, <1>2, LocalCancelTakes DEF Cancel, Update, IsView
  <2> QED
    BY <1>0, <1>2, <2>1, TakesOffKeeps DEF Cancel, flags, link, world
<1> QED
  BY <1>1, <1>2

LEMMA CompleteKeeps == ASSUME ClientInv, NEW t \in view.timers, Complete(t) PROVE ClientInv'
<1> DEFINE group == CompleteTargets(view, t, now)
           asked == IF Mode(view) = "live" THEN {u \in group : u.origin = "server"} ELSE {}
<1>0. /\ toServer \in Seq(Requests) /\ DOMAIN view = DOMAIN EmptyView
      /\ view.timers \subseteq Timers /\ IsFiniteSet(view.timers)
  BY DEF ClientInv, ClientTypeOK
<1>1. group \subseteq view.timers
  BY DEF CompleteTargets, BoiledGroup
<1>2. asked \subseteq group
  OBVIOUS
<1>3. Mode(view) = "live" => \A u \in group \ asked : u.origin # "server"
  OBVIOUS
<1>4. /\ view' = DecideLocalComplete(view, group \ asked) /\ stored' = Persisted(view')
      /\ \E order \in [1..Cardinality(asked) -> asked] :
           toServer' = toServer \o [i \in DOMAIN order |-> [type |-> "end", id |-> order[i].id]]
      /\ UNCHANGED <<flags, probes, joined, toClient, server, world, nextId, rung, rungTwice, heardAt>>
  BY DEF Complete, Update, Send
<1> HIDE DEF group, asked
<1>5. toServer' \in Seq(Requests)
  <2>1. Cardinality(asked) \in Nat
    BY <1>0, <1>1, <1>2, FS_Subset, FS_CardinalityType
  <2>2. PICK order \in [1..Cardinality(asked) -> asked] :
          toServer' = toServer \o [i \in DOMAIN order |-> [type |-> "end", id |-> order[i].id]]
    BY <1>4
  <2>3. \A i \in 1..Cardinality(asked) : [type |-> "end", id |-> order[i].id] \in Requests
    BY <1>0, <1>1, <1>2 DEF Requests, Timers
  <2> DEFINE ends == [i \in 1..Cardinality(asked) |-> [type |-> "end", id |-> order[i].id]]
  <2>4. ends \in [1..Cardinality(asked) -> Requests]
    BY <2>3
  <2>5. ends \in Seq(Requests)
    BY <2>1, <2>4, IsASeq
  <2> QED
    BY <1>0, <2>2, <2>5, ConcatProperties
<1>6. /\ IsView(view') /\ view'.timers = view.timers \ (group \ asked) /\ view'.items = view.items
      /\ view.processedIds \subseteq view'.processedIds
      /\ view'.connectivity = view.connectivity /\ view'.awaitingResync = view.awaitingResync
  BY <1>0, <1>4 DEF DecideLocalComplete, IsView, EmptyView
<1> QED
  BY <1>3, <1>4, <1>5, <1>6, TakesOffKeeps DEF flags, world

-----------------------------------------------------------------------------
(* The server's steps.                                                     *)

LEMMA ServerKeeps ==
  ASSUME ClientInv, UNCHANGED <<page, flags, joined, history, world>>, toServer' \in Seq(Requests),
         NEW timers \in SUBSET Timers, IsFiniteSet(timers), ServerIsSound(timers),
         NEW items \in {{}, Orders}, ServerBecomes(timers, items),
         nextId' \in Nat, nextId <= nextId',
         \A t, u \in timers \ serverTimers : t = u /\ t.id = nextId /\ nextId < nextId'
  PROVE  ClientInv'
<1>1. /\ Lists' # {} \/ ~joined
      /\ LineInv' /\ Identified' /\ NewOnLine' /\ RungIsMarked'
      /\ toClient' \in Seq(Messages)
      /\ \A i \in DOMAIN toClient' : toClient'[i].type = "snapshot" => IsFiniteSet(toClient'[i].timers)
  BY ServerStep DEF flags, world
<1>2. /\ UNCHANGED <<view, stored, prevConnectivity, joined, rung, rungTwice, heardAt, now>>
      /\ serverTimers' = timers /\ orders' = items
  BY DEF page, flags, history, world, ServerBecomes
<1>3. ClientTypeOK'
  BY <1>1, <1>2 DEF ClientInv, ClientTypeOK, Persisted
<1>4. ShowsServer'
  BY <1>1, <1>2 DEF ShowsServer
<1>5. RingsOnce' /\ Awaits' /\ OnlyRunningContested'
  BY <1>2 DEF ClientInv, RingsOnce, Awaits, OnlyRunningContested
<1> QED
  BY <1>1, <1>3, <1>4, <1>5 DEF ClientInv, LineInv

LEMMA StartedIsSound ==
  ASSUME ClientInv, NEW slots \in SlotSets, NEW boil \in BoilTimes, SlotsOf(serverTimers) \cap slots = {}
  PROVE  /\ Started(slots, boil) \in SUBSET Timers /\ IsFiniteSet(Started(slots, boil))
         /\ ServerIsSound(Started(slots, boil))
         /\ \A t, u \in Started(slots, boil) \ serverTimers : t = u /\ t.id = nextId
<1> DEFINE new == [id |-> nextId, slots |-> slots, end |-> now + boil, origin |-> "server"]
<1>1. new \in Timers /\ new.id = nextId /\ new.origin = "server" /\ new.slots = slots
  BY DEF Timers, ClientInv, ClientTypeOK, SlotSets
<1>2. Started(slots, boil) = serverTimers \cup {new}
  BY DEF Started
<1> HIDE DEF new
<1>3. IsFiniteSet(serverTimers \cup {new})
  BY FS_AddElement DEF ClientInv, ClientTypeOK
<1>4. \A u \in serverTimers : u.slots \cap slots = {}
  BY DEF SlotsOf
<1>5. ServerIsSound(serverTimers \cup {new})
  BY <1>1, <1>4 DEF ClientInv, LineIsSound, ServerIsSound, DisjointSlots
<1> QED
  BY <1>1, <1>2, <1>3, <1>5 DEF ClientInv, ClientTypeOK

LEMMA ServerStartsKeeps ==
  ASSUME ClientInv, UNCHANGED <<page, flags, joined, history, world>>, toServer' \in Seq(Requests),
         NEW slots \in SlotSets, NEW boil \in BoilTimes, SlotsOf(serverTimers) \cap slots = {},
         nextId' = nextId + 1, ServerBecomes(Started(slots, boil), orders)
  PROVE  ClientInv'
<1> DEFINE timers == Started(slots, boil)
<1>1. /\ timers \in SUBSET Timers /\ IsFiniteSet(timers) /\ ServerIsSound(timers)
      /\ \A t, u \in timers \ serverTimers : t = u /\ t.id = nextId
  BY StartedIsSound
<1>2. nextId' \in Nat /\ nextId <= nextId' /\ nextId < nextId' /\ orders \in {{}, Orders}
  BY DEF ClientInv, ClientTypeOK
<1> HIDE DEF timers
<1>3. \A t, u \in timers \ serverTimers : t = u /\ t.id = nextId /\ nextId < nextId'
  BY <1>1, <1>2
<1>4. ServerBecomes(timers, orders)
  BY DEF timers
<1> QED
  BY <1>1, <1>2, <1>3, <1>4, ServerKeeps

LEMMA OtherStartsKeeps ==
  ASSUME ClientInv, NEW slots \in SlotSets, NEW boil \in BoilTimes, OtherStarts(slots, boil)
  PROVE  ClientInv'
BY ServerStartsKeeps DEF OtherStarts, ClientInv, ClientTypeOK

\* What is left of the server's list.
LEMMA FewerKeeps ==
  ASSUME ClientInv, UNCHANGED <<page, flags, joined, history, world, nextId>>, toServer' \in Seq(Requests),
         NEW timers \in SUBSET serverTimers, NEW items \in {{}, Orders}, ServerBecomes(timers, items)
  PROVE  ClientInv'
<1>1. timers \in SUBSET Timers /\ IsFiniteSet(timers) /\ ServerIsSound(timers)
  BY FS_Subset DEF ClientInv, ClientTypeOK, LineIsSound, ServerIsSound, DisjointSlots
<1>2. nextId' \in Nat /\ nextId <= nextId'
  BY DEF ClientInv, ClientTypeOK
<1>3. timers \ serverTimers = {}
  OBVIOUS
<1> QED
  BY <1>1, <1>2, <1>3, ServerKeeps

LEMMA OtherEndsKeeps == ASSUME ClientInv, NEW t \in serverTimers, OtherEnds(t) PROVE ClientInv'
<1>1. toServer' \in Seq(Requests) /\ orders \in {{}, Orders}
  BY DEF ClientInv, ClientTypeOK, OtherEnds
<1> QED
  BY <1>1, FewerKeeps DEF OtherEnds

LEMMA OrderKeeps == ASSUME ClientInv, Order PROVE ClientInv'
<1>1. toServer' \in Seq(Requests) /\ Orders \in {{}, Orders}
  BY DEF ClientInv, ClientTypeOK, Order
<1> QED
  BY <1>1, FewerKeeps DEF Order

LEMMA RefuseKeeps ==
  ASSUME ClientInv, NEW code \in {"SlotOccupied", "TimerNotFound"}, Refuse(code),
         UNCHANGED <<page, flags, joined, history, world>>, toServer' \in Seq(Requests)
  PROVE  ClientInv'
<1> DEFINE m == [type |-> "error", code |-> code]
<1>1. /\ UNCHANGED <<view, stored, prevConnectivity, joined, rung, rungTwice, heardAt, now>>
      /\ UNCHANGED <<serverTimers, orders, nextId>>
      /\ toClient' = Append(toClient, m)
  BY DEF page, flags, history, world, Refuse, server
<1>2. m.type = "error" /\ m \in Messages
  BY DEF Messages
<1> HIDE DEF m
<1>3. /\ Lists' = Lists /\ OnLine' = OnLine
      /\ \A i \in Lists : toClient'[i] = toClient[i]
      /\ LineInv'
  BY <1>1, <1>2, ErrorOnLine DEF ClientInv, LineInv, server
<1>4. ClientTypeOK'
  <2>1. toClient \in Seq(Messages)
    BY DEF ClientInv, ClientTypeOK
  <2>2. toClient' \in Seq(Messages) /\ DOMAIN toClient' = 1 .. Len(toClient) + 1
        /\ DOMAIN toClient = 1 .. Len(toClient) /\ Len(toClient) \in Nat
        /\ toClient'[Len(toClient) + 1] = m
    BY <1>1, <1>2, <2>1
  <2>3. \A i \in DOMAIN toClient' : toClient'[i].type = "snapshot" => i \in Lists' /\ i \in Lists
    BY <1>3 DEF Lists
  <2>4. \A i \in DOMAIN toClient' : toClient'[i].type = "snapshot" => IsFiniteSet(toClient'[i].timers)
    BY <1>3, <2>3 DEF ClientInv, ClientTypeOK, Lists
  <2> QED
    BY <1>1, <2>2, <2>4 DEF ClientInv, ClientTypeOK, Persisted
<1>5. Identified' /\ RungIsMarked'
  BY <1>1, <1>3 DEF ClientInv, Identified, RungIsMarked
<1>6. NewOnLine'
  <2> SUFFICES ASSUME NEW i \in Lists,
                      NEW t \in serverTimers \cup UNION {toClient'[k].timers : k \in {l \in Lists : i < l}},
                      t \notin toClient[i].timers
               PROVE  t.id \notin rung \cup IdsOf(view.timers)
    BY <1>1, <1>3 DEF NewOnLine
  <2>1. t \in serverTimers \cup UNION {toClient[k].timers : k \in {l \in Lists : i < l}}
    BY <1>3
  <2> QED
    BY <2>1 DEF ClientInv, NewOnLine
<1>7. ShowsServer' /\ RingsOnce' /\ Awaits' /\ OnlyRunningContested'
  BY <1>1, <1>3 DEF ClientInv, ShowsServer, ServerIsShown, RingsOnce, Awaits, OnlyRunningContested
<1> QED
  BY <1>3, <1>4, <1>5, <1>6, <1>7 DEF ClientInv, LineInv

LEMMA ServerHandlesKeeps == ASSUME ClientInv, ServerHandles PROVE ClientInv'
<1> DEFINE m == Head(toServer)
<1>1. toServer \in Seq(Requests) /\ toServer # <<>> /\ toServer' = Tail(toServer) /\ orders \in {{}, Orders}
      /\ nextId \in Nat
  BY DEF ServerHandles, ClientInv, ClientTypeOK
<1>2. m \in Requests /\ toServer' \in Seq(Requests)
  BY <1>1, HeadTailProperties
<1>3. UNCHANGED <<page, flags, joined, history, world>>
  BY DEF ServerHandles
<1>4. CASE m.type = "start"
  <2>1. m.slots \in SlotSets /\ m.boil \in BoilTimes
    BY <1>2, <1>4 DEF Requests
  <2>2. CASE SlotsOf(serverTimers) \cap m.slots # {}
    <3>1. Refuse("SlotOccupied")
      BY <1>4, <2>2 DEF ServerHandles
    <3> QED
      BY <1>2, <1>3, <3>1, RefuseKeeps
  <2>3. CASE SlotsOf(serverTimers) \cap m.slots = {}
    <3>1. nextId' = nextId + 1 /\ ServerBecomes(Started(m.slots, m.boil), orders)
      BY <1>4, <2>3 DEF ServerHandles
    <3> HIDE DEF m
    <3> QED
      BY <1>2, <1>3, <2>1, <2>3, <3>1, ServerStartsKeeps
  <2> QED
    BY <2>2, <2>3
<1>5. CASE m.type = "end"
  <2>1. CASE m.id \notin IdsOf(serverTimers)
    <3>1. Refuse("TimerNotFound")
      BY <1>5, <2>1 DEF ServerHandles
    <3> QED
      BY <1>2, <1>3, <3>1, RefuseKeeps
  <2>2. CASE m.id \in IdsOf(serverTimers)
    <3>1. ServerBecomes({t \in serverTimers : t.id # m.id}, orders) /\ UNCHANGED nextId
      BY <1>5, <2>2 DEF ServerHandles
    <3> QED
      BY <1>1, <1>2, <1>3, <3>1, FewerKeeps
  <2> QED
    BY <2>1, <2>2
<1>6. m.type \in {"start", "end"}
  BY <1>2 DEF Requests
<1> QED
  BY <1>4, <1>5, <1>6

-----------------------------------------------------------------------------
(* The list arrives.                                                       *)

\* What the view becomes, whichever way it is reconciled.
LEMMA ReceivedView ==
  ASSUME ClientInv, ReceiveSnapshot
  PROVE  LET first == toClient[1]
             all == first.timers \cup Provisional(view.timers)
         IN  /\ IsView(view') /\ stored' = Persisted(view')
             /\ view'.timers = ResolveSlotOccupancy(all, now)
             /\ view'.processedIds = view.processedIds \cap IdsOf(all)
             /\ view'.items = first.items
             /\ view'.connectivity = "up"
             /\ ~view'.awaitingResync
<1> DEFINE up == IF prevConnectivity = "up" THEN view ELSE DecideConnectivity(view, "up")
           first == toClient[1]
           all == first.timers \cup Provisional(view.timers)
<1>1. /\ IsView(up) /\ up.timers = view.timers /\ up.processedIds = view.processedIds
      /\ up.connectivity = "up"
  <2>1. IsView(view)
    BY DEF ClientInv, ClientTypeOK, IsView
  <2>2. CASE prevConnectivity = "up"
    BY <2>1, <2>2 DEF ClientInv, Awaits
  <2>3. CASE prevConnectivity # "up"
    BY <2>1, <2>3, Connectivity
  <2> QED
    BY <2>2, <2>3
<1>2. Head(toClient) = first
  BY DEF ReceiveSnapshot, ClientInv, ClientTypeOK
<1>3. /\ stored' = Persisted(view')
      /\ \/ view' = DecideReconcile(up, Head(toClient), now)
         \/ view' = DecideSnapshot(up, Head(toClient), now)
  BY DEF ReceiveSnapshot, Update
<1> HIDE DEF up, first
<1>4. LET r == DecideReconcile(up, first, now)
      IN  /\ IsView(r)
          /\ r.timers = ResolveSlotOccupancy(all, now)
          /\ r.items = first.items
          /\ r.processedIds = view.processedIds \cap IdsOf(all)
          /\ r.connectivity = "up"
          /\ ~r.awaitingResync
  BY <1>1, Reconciled
<1>5. CASE view' = DecideReconcile(up, Head(toClient), now)
  BY <1>2, <1>3, <1>4, <1>5 DEF first
<1>6. CASE view' = DecideSnapshot(up, Head(toClient), now)
  <2>1. LET r == DecideReconcile(up, first, now)
        IN  /\ IsView(view')
            /\ view'.timers = r.timers /\ view'.items = r.items /\ view'.processedIds = r.processedIds
            /\ view'.connectivity = r.connectivity /\ view'.awaitingResync = r.awaitingResync
    BY <1>1, <1>2, <1>6, Synced
  <2> QED
    BY <1>3, <1>4, <2>1 DEF first
<1> QED
  BY <1>3, <1>5, <1>6

LEMMA ReceiveSnapshotKeeps == ASSUME ClientInv, ReceiveSnapshot PROVE ClientInv'
<1> DEFINE first == toClient[1]
           local == Provisional(view.timers)
           all == first.timers \cup local
<1>1. /\ IsView(view') /\ stored' = Persisted(view')
      /\ view'.timers = ResolveSlotOccupancy(all, now)
      /\ view'.processedIds = view.processedIds \cap IdsOf(all)
      /\ view'.items = first.items
      /\ view'.connectivity = "up"
      /\ ~view'.awaitingResync
  BY ReceivedView
<1>2. /\ UNCHANGED <<serverTimers, orders, joined, toServer, now, nextId, rung, rungTwice>>
      /\ prevConnectivity' = "up" /\ heardAt' = now
      /\ Pops /\ joined
  BY DEF ReceiveSnapshot, server, world, Pops
<1>3. /\ 1 \in Lists /\ first \in Messages /\ IsFiniteSet(first.timers)
      /\ first.timers \subseteq Timers /\ first.timers \subseteq OnLine
  <2>1. toClient \in Seq(Messages) /\ toClient # <<>> /\ first.type = "snapshot"
    BY DEF ReceiveSnapshot, ClientInv, ClientTypeOK
  <2>2. 1 \in DOMAIN toClient /\ first \in Messages
    BY <2>1
  <2> QED
    BY <2>1, <2>2 DEF Lists, OnLine, Messages, ClientInv, ClientTypeOK
<1>4. local \subseteq view.timers /\ \A t \in local : t.origin = "local"
  BY DEF Provisional
<1>5. view'.timers \subseteq all
  BY <1>1, ResolvedIsPart
<1> HIDE DEF first, local
<1>6. /\ \A i \in Lists' : i \in Nat \ {0} /\ i + 1 \in Lists /\ toClient'[i] = toClient[i + 1]
      /\ \A i \in Lists : i # 1 => i - 1 \in Lists' /\ toClient'[i - 1] = toClient[i]
      /\ OnLine' \subseteq OnLine
  BY <1>2, ListsOfLine DEF ClientInv
<1>7. ClientTypeOK'
  <2>1. all \subseteq Timers /\ IsFiniteSet(all)
    BY <1>3, <1>4, FS_Subset, FS_Union DEF ClientInv, ClientTypeOK
  <2>2. view'.timers \subseteq Timers /\ IsFiniteSet(view'.timers)
    BY <1>5, <2>1, FS_Subset
  <2>3. toClient' \in Seq(Messages)
        /\ \A i \in DOMAIN toClient' : toClient'[i].type = "snapshot" => IsFiniteSet(toClient'[i].timers)
    BY <1>2, LineIsTyped DEF ClientInv
  <2> QED
    BY <1>1, <1>2, <2>2, <2>3 DEF ClientInv, ClientTypeOK, IsView, Persisted
<1>8. LineIsSound' /\ LineIsCurrent' /\ LineHasNoGaps'
  BY <1>2, LineStaysInOrder DEF ClientInv, LineInv, server
<1>9. OnLine' \cup view'.timers \subseteq OnLine \cup view.timers
  BY <1>3, <1>4, <1>5, <1>6
<1>10. Identified'
  BY <1>2, <1>9 DEF ClientInv, Identified
<1>11. NewOnLine'
  <2> SUFFICES ASSUME NEW i \in Lists',
                      NEW t \in serverTimers' \cup UNION {toClient'[k].timers : k \in {l \in Lists' : i < l}},
                      t \notin toClient'[i].timers
               PROVE  t.id \notin rung' \cup IdsOf(view'.timers)
    BY DEF NewOnLine
  <2>1. i + 1 \in Lists /\ 1 < i + 1 /\ t \notin toClient[i + 1].timers
    BY <1>6
  <2>2. t \in serverTimers \cup UNION {toClient[k].timers : k \in {l \in Lists : i + 1 < l}}
    BY <1>2, <1>6
  <2>3. t.id \notin rung \cup IdsOf(view.timers) /\ t \in OnLine
    BY <2>1, <2>2 DEF ClientInv, NewOnLine, OnLine
  <2>4. t \notin first.timers
    BY <1>3, <2>1, <2>2 DEF ClientInv, LineHasNoGaps, first
  <2>5. \A u \in first.timers : u.id # t.id
    BY <1>3, <2>3, <2>4 DEF ClientInv, Identified
  <2>6. \A u \in view'.timers : u.id # t.id
    BY <1>4, <1>5, <2>3, <2>5 DEF IdsOf
  <2> QED
    BY <1>2, <2>3, <2>6 DEF IdsOf
<1>12. RungIsMarked'
  <2> SUFFICES ASSUME NEW t \in OnLine' \cup view'.timers, t.id \in rung
               PROVE  t.id \in view.processedIds /\ t.id \in IdsOf(all)
    BY <1>1, <1>2 DEF RungIsMarked
  <2>1. t.id \in view.processedIds
    BY <1>9 DEF ClientInv, RungIsMarked
  <2>2. CASE t \in view'.timers
    BY <1>5, <2>1, <2>2 DEF IdsOf
  <2>3. CASE t \in OnLine'
    <3>1. t \in serverTimers \cup UNION {toClient[k].timers : k \in {l \in Lists : 1 < l}}
      <4>1. \A i \in Lists' : i + 1 \in Lists /\ 1 < i + 1 /\ toClient'[i] = toClient[i + 1]
        BY <1>6
      <4> QED
        BY <1>2, <2>3, <4>1 DEF OnLine
    <3>2. t \in first.timers
      BY <1>3, <3>1 DEF ClientInv, NewOnLine, first
    <3> QED
      BY <2>1, <3>2 DEF IdsOf
  <2> QED
    BY <2>2, <2>3
<1>13. ShowsServer'
  <2> SUFFICES ASSUME Lists' = {}
               PROVE  ServerIsShown'
    BY DEF ShowsServer
  <2>1. \A i \in Lists : i = 1
    BY <1>6
  <2>2. first.timers = serverTimers /\ first.items = orders
    BY <1>2, <1>3, <2>1 DEF ClientInv, LineIsCurrent, first
  <2>3. Confirmed(view'.timers) \subseteq serverTimers
    BY <1>4, <1>5, <2>2 DEF Confirmed
  <2>4. \A t \in serverTimers : IsRunning(t, now) => t \in view'.timers
    BY <1>1, <2>2, RunningKeepsItsPlace
  <2> QED
    BY <1>1, <1>2, <2>2, <2>3, <2>4 DEF ServerIsShown
<1>14. Awaits'
  BY <1>1, <1>2 DEF Awaits, ClientInv, ClientTypeOK
<1>15. OnlyRunningContested'
  <2> SUFFICES ASSUME NEW t \in view'.timers, NEW u \in view'.timers, t # u, t.slots \cap u.slots # {}
               PROVE  t.origin # u.origin /\ IsRunning(t, now) /\ IsRunning(u, now)
    BY <1>2 DEF OnlyRunningContested
  <2>1. \A v \in first.timers : v.origin = "server"
    BY <1>3 DEF ClientInv, LineIsSound, ServerIsSound, first
  <2>2. \A v, w \in first.timers : v # w => v.slots \cap w.slots = {}
    BY <1>3 DEF ClientInv, LineIsSound, ServerIsSound, DisjointSlots, first
  <2>3. \A v, w \in local : v # w => v.slots \cap w.slots = {}
    BY <1>4 DEF ClientInv, OnlyRunningContested
  <2>4. t.origin # u.origin
    BY <1>4, <1>5, <2>1, <2>2, <2>3
  <2>5. PICK s \in t.slots : s \in u.slots
    OBVIOUS
  <2>6. ASSUME NEW v \in view'.timers, v.origin = "server", s \in v.slots,
               NEW w \in view'.timers, w.origin = "local", s \in w.slots
        PROVE  IsRunning(v, now) /\ IsRunning(w, now)
    <3>1. \A x \in all : x.origin = "server" /\ s \in x.slots => x = v
      BY <1>4, <1>5, <2>2, <2>6
    <3>2. \A x \in all : x.origin = "local" /\ s \in x.slots => x = w
      BY <1>4, <1>5, <2>1, <2>3, <2>6
    <3>3. v \in ResolveSlotOccupancy(all, now) /\ w \in ResolveSlotOccupancy(all, now)
      BY <1>1
    <3> HIDE DEF all
    <3> QED
      BY <2>6, <3>1, <3>2, <3>3, OnlyRunningStay
  <2>7. t.origin \in {"server", "local"} /\ u.origin \in {"server", "local"}
    BY <1>4, <1>5, <2>1
  <2> QED
    BY <2>4, <2>5, <2>6, <2>7
<1> QED
  BY <1>2, <1>7, <1>8, <1>10, <1>11, <1>12, <1>13, <1>14, <1>15 DEF ClientInv, RingsOnce

-----------------------------------------------------------------------------
(* The theorems.                                                           *)

LEMMA NextKeepsClientInv == ClientInv /\ [ClientNext]_vars => ClientInv'
<1> SUFFICES ASSUME ClientInv, [ClientNext]_vars PROVE ClientInv'
  OBVIOUS
<1>1. CASE UNCHANGED vars
  BY <1>1, QuietStep DEF vars, page, flags, link, server, world, history, Stays, IsView, ClientInv, ClientTypeOK
<1>2. CASE SocketOpens \/ SyncTimeout \/ Pong \/ Down \/ ReceiveSnapshot \/ ReceiveError
  BY <1>2, SocketOpensKeeps, SyncTimeoutKeeps, PongKeeps, DownKeeps, ReceiveSnapshotKeeps, ReceiveErrorKeeps
<1>3. CASE \E a \in Answers : ProbeAnswers(a)
  BY <1>3, ProbeAnswersKeeps
<1>4. CASE \E slots \in SlotSets, boil \in BoilTimes : Start(slots, boil) \/ OtherStarts(slots, boil)
  BY <1>4, StartKeeps, OtherStartsKeeps
<1>5. CASE \E t \in view.timers : Cancel(t) \/ Complete(t)
  BY <1>5, CancelKeeps, CompleteKeeps
<1>6. CASE Advance \/ Tick \/ Reload
  BY <1>6, AdvanceKeeps, TickKeeps, ReloadKeeps
<1>7. CASE (\E t \in serverTimers : OtherEnds(t)) \/ Order \/ ServerHandles
  BY <1>7, OtherEndsKeeps, OrderKeeps, ServerHandlesKeeps
<1> QED
  BY <1>1, <1>2, <1>3, <1>4, <1>5, <1>6, <1>7 DEF ClientNext

\* The invariant: the terminal's view against the server and the line between them, after any
\* course of openTimerConnection's events.
THEOREM ClientInvHolds == ClientSpec => []ClientInv
<1>1. InitClient => ClientInv
  BY InitClientInv
<1>2. ClientInv /\ [ClientNext]_vars => ClientInv'
  BY NextKeepsClientInv
<1> QED
  BY <1>1, <1>2, PTL DEF ClientSpec

\* decideView: once connected, with nothing in flight, the terminal shows what the server has,
\* nothing else as confirmed and nothing that still boils left out.
THEOREM ShowsTheStoreHolds == ClientSpec => []ShowsTheStore
<1>1. ClientInv => ShowsTheStore
  <2> SUFFICES ASSUME ClientInv, InSync PROVE ServerIsShown
    BY DEF ShowsTheStore, ServerIsShown
  <2>1. Lists = {}
    BY DEF InSync, Lists
  <2> QED
    BY <2>1 DEF ClientInv, ShowsServer, InSync
<1> QED
  BY <1>1, ClientInvHolds, PTL

\* awaitingResync: items are never shown as current on a connection that brought none.
THEOREM ResyncedIsHeardHolds == ClientSpec => []ResyncedIsHeard
<1>1. ClientInv => ResyncedIsHeard
  BY DEF ClientInv, Awaits, ResyncedIsHeard
<1> QED
  BY <1>1, ClientInvHolds, PTL

\* resolveSlotOccupancy: two timers on one slot are one of each side, and both ran when the
\* server was last heard.
THEOREM OnlyRunningContestedHolds == ClientSpec => []OnlyRunningContested
<1>1. ClientInv => OnlyRunningContested
  BY DEF ClientInv
<1> QED
  BY <1>1, ClientInvHolds, PTL

\* processedIds: no timer rings twice on one terminal, over reconnections and reloads.
THEOREM RingsOnceHolds == ClientSpec => []RingsOnce
<1>1. ClientInv => RingsOnce
  BY DEF ClientInv
<1> QED
  BY <1>1, ClientInvHolds, PTL

LEMMA UntouchedTimersStay ==
  ASSUME view'.timers = view.timers
  PROVE  \A t \in Provisional(view.timers) : IsRunning(t, now) /\ t \notin view'.timers => t.id \in ended'
BY DEF Provisional

\* decideView: a boil started without the server is on the screen until it is ended here or has
\* boiled, whatever the server says and however often the page is loaded.
THEOREM LocalBoilStaysHolds == ClientSpec => LocalBoilStays
<1> DEFINE Stay == \A t \in Provisional(view.timers) :
                     IsRunning(t, now) /\ t \notin view'.timers => t.id \in ended'
<1>1. ClientInv /\ [ClientNext]_vars => [Stay]_vars
  <2> SUFFICES ASSUME ClientInv, ClientNext PROVE Stay
    OBVIOUS
  <2>0. DOMAIN view = DOMAIN EmptyView /\ IsView(view) /\ stored = Persisted(view)
    BY DEF ClientInv, ClientTypeOK, IsView
  <2>1. CASE SocketOpens \/ Advance \/ (\E t \in serverTimers : OtherEnds(t)) \/ Order \/ ServerHandles
             \/ \E slots \in SlotSets, boil \in BoilTimes : OtherStarts(slots, boil)
    BY <2>1, UntouchedTimersStay DEF SocketOpens, Advance, OtherEnds, Order, ServerHandles, OtherStarts, page
  <2>2. CASE SyncTimeout \/ ReceiveError \/ \E a \in Answers : ProbeAnswers(a)
    <3>1. view'.timers = view.timers
      BY <2>0, <2>2 DEF SyncTimeout, ReceiveError, ProbeAnswers, Update, DecideError, DecideClassify, EmptyView
    <3> QED
      BY <3>1, UntouchedTimersStay
  <2>3. CASE Pong \/ Down
    <3>1. view'.timers = view.timers
      BY <2>0, <2>3, Connectivity DEF Pong, Down, Update, page
    <3> QED
      BY <3>1, UntouchedTimersStay
  <2>4. CASE ReceiveSnapshot
    <3>1. view'.timers = ResolveSlotOccupancy(toClient[1].timers \cup Provisional(view.timers), now)
      BY <2>4, ReceivedView
    <3> QED
      BY <3>1, RunningKeepsItsPlace
  <2>5. CASE \E slots \in SlotSets, boil \in BoilTimes : Start(slots, boil)
    <3>1. PICK slots \in SlotSets, boil \in BoilTimes : Start(slots, boil)
      BY <2>5
    <3>2. view' = view \/ view' = DecideLocalStart(view, nextId, slots, now, boil)
      BY <3>1 DEF Start, page, Update
    <3>3. view.timers \subseteq view'.timers
      BY <2>0, <3>2, LocalStartAdds
    <3> QED
      BY <3>3 DEF Provisional
  <2>6. CASE \E t \in view.timers : Cancel(t)
    <3>1. PICK t \in view.timers : Cancel(t)
      BY <2>6
    <3>2. view'.timers = view.timers \/ (view'.timers = view.timers \ {t} /\ t.id \in ended')
      BY <2>0, <3>1, LocalCancelTakes DEF Cancel, page, Update
    <3> QED
      BY <3>2 DEF Provisional
  <2>7. CASE \E t \in view.timers : Complete(t)
    <3>1. PICK t \in view.timers : Complete(t)
      BY <2>7
    <3>2. PICK off : view' = DecideLocalComplete(view, off) /\ ended' = ended \cup IdsOf(off)
      BY <3>1 DEF Complete, Update
    <3>3. view'.timers = view.timers \ off /\ IdsOf(off) \subseteq ended'
      BY <2>0, <3>2 DEF DecideLocalComplete, EmptyView
    <3> QED
      BY <3>3 DEF Provisional, IdsOf
  <2>8. CASE Tick
    <3>1. view'.timers = view.timers
      BY <2>0, <2>8 DEF Tick, FireDue, Update, DecideLocalDone, EmptyView
    <3> QED
      BY <3>1, UntouchedTimersStay
  <2>9. CASE Reload
    <3>1. view'.timers = view.timers
      BY <2>0, <2>9 DEF Reload, FireDue, Update, DecideLocalDone, Rehydrated, Persisted, EmptyView
    <3> QED
      BY <3>1, UntouchedTimersStay
  <2> QED
    BY <2>1, <2>2, <2>3, <2>4, <2>5, <2>6, <2>7, <2>8, <2>9 DEF ClientNext
<1>2. ClientSpec => [][Stay]_vars
  BY <1>1, ClientInvHolds, PTL DEF ClientSpec
<1> QED
  BY <1>2 DEF LocalBoilStays
=============================================================================
