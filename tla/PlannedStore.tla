---------------------------- MODULE PlannedStore ----------------------------
(***************************************************************************)
(* A store that follows a cooking plan (src/src/engine/settle.ts, plan.ts, *)
(* digest.ts, shell/store-timer-do.ts) together with the planner it asks   *)
(* (src/src/solver/, src/src/cpsat/): every event settles the timers, the  *)
(* plan and what is shown, and may ask for a plan; requests are lost or    *)
(* delivered more than once, plans come late, out of order or not at all,  *)
(* and meet a store that has moved on.  What is lost, restarted or replayed *)
(* on the way of commands and records is in StoreTimerDO.                  *)
(* store is the engine's state with accepted (the slices followed), shown  *)
(* (the plan last sent to the clients) and requested (the digest of the    *)
(* input last asked for, <<digest>>, or <<>> for null).                    *)
(***************************************************************************)
EXTENDS PlanAdmission

CONSTANTS
  Settings,         \* the settings (params and planner) that a store may be given
  Orders,           \* what may arrive: sets of lines by order
  Cancellable,      \* the orders the POS may cancel
  Assignments,      \* what may be assigned: pairs of a key and a table
  AdHoc,            \* ad hoc timers: pairs of slots and a duration
  DeliveryLead,     \* CPSAT_DELIVERY_LEAD_MS
  SolverSpread,     \* bound: how long after the first possible start a plan goes, by planner
  MaxTime,          \* bound on the clock, by planner
  MaxEvents,        \* bound on the events from the kitchen, the POS and the registry, by planner
  MaxRequests,      \* bound on the requests underway; further ones are lost
  MaxPlans          \* bound on the plans underway

ASSUME PlannedStoreAssumption ==
  /\ DeliveryLead \in Nat
  /\ \A o \in DOMAIN Orders : IsFiniteSet(Orders[o])
  /\ \A p \in Settings : /\ MaxTime[p.planner] \in Nat /\ MaxEvents[p.planner] \in Nat
                         /\ SolverSpread[p.planner] \in Nat
  /\ MaxRequests \in Nat /\ MaxPlans \in Nat

VARIABLES
  store,
  sent,         \* the recommendations last broadcast
  asked,        \* the content of the last request
  requests,     \* the requests underway
  plans,        \* the plans underway
  now,
  params,       \* the store's settings
  reconfigured, \* history variable: they have changed, and no event has been settled since
  events

settings == <<params, reconfigured>>
vars == <<store, sent, asked, requests, plans, now, settings, events>>

-----------------------------------------------------------------------------
(* settle.ts: what every event ends with.                                  *)

Live(s, at) == PendingOrders(s.items, s.timers, at)

Context(s, at) == [shown |-> s.shown, running |-> s.timers, now |-> at, pending |-> Live(s, at)]

\* deriveRecommendations
Committed(s, at) == CommittedSchedule(s.accepted, Live(s, at), s.timers, params, at, Context(s, at))

\* Mutant: only the bowls that wait are part of the input.
MutDigestInput(s, at) ==
  [targets |-> PlanTargets(Live(s, at), at), running |-> {}, settings |-> params]

\* digestInput: the bowls to plan, the kettles that are taken, with their ends, and the settings.
DigestInput(s, at) ==
  [targets |-> [k \in DOMAIN PlanTargets(Live(s, at), at) |->
                  LET i == PlanTargets(Live(s, at), at)[k]
                  IN  <<i.order, i.index, i.firmness, i.table, i.arrival>>],
   running |-> {<<t.seq, t.slots, AdjustedEnd(t)>> : t \in s.timers},
   settings |-> params]

TimerFact(t) == <<t.seq, t.endTime, t.firmness, t.adjustment, t.boiledAt,
                  IF t.item = None THEN None ELSE t.table>>

WithoutAnchors(slices) ==
  [k \in DOMAIN slices |-> [slices[k] EXCEPT !.placements =
     [j \in DOMAIN @ |-> [@[j] EXCEPT !.anchor = None]]]]

\* isSameConfirmedResult
IsSameConfirmedResult(s, t) ==
  /\ {TimerFact(u) : u \in s.timers} = {TimerFact(u) : u \in t.timers}
  /\ s.items = t.items
  /\ WithoutAnchors(s.accepted) = WithoutAnchors(t.accepted)
  /\ s.last = t.last

\* Whether a plan is asked for: of a new input, with something to plan.
AsksFor(s, digest, mayRequest) == mayRequest /\ <<digest>> # s.requested /\ digest.targets # <<>>

Unchanged(s) == [changed |-> FALSE, state |-> s, recommendations |-> {}, asks |-> FALSE]

\* The result for the state with its plan, and whether a plan is asked for.
Confirmed(confirmed, committed, digest, asks) ==
  [changed |-> TRUE, state |-> IF asks THEN [confirmed EXCEPT !.requested = <<digest>>] ELSE confirmed,
   recommendations |-> Recommend(committed), asks |-> asks]

\* The state with its plan shown, and whether a plan is asked for.
Shows(next, committed, at, mayRequest) ==
  LET confirmed == [next EXCEPT !.shown = ShownPlanOf(committed)]
      digest == DigestInput(confirmed, at)
  IN  Confirmed(confirmed, committed, digest, AsksFor(confirmed, digest, mayRequest))

Settled(prev, next, at, mayRequest) ==
  IF \/ DuplicatedSlot(next) /\ ~DuplicatedSlot(prev)
     \/ IsSameConfirmedResult(prev, next)
  THEN Unchanged(prev) ELSE Shows(next, Committed(next, at), at, mayRequest)

\* settle, with decide's test for a slot held twice; [changed, state, recommendations, asks].
SettlePlan(prev, moved, at, mayRequest) == Settled(prev, Settle(moved, params), at, mayRequest)

\* requestPlan: what the planner is told.
PlanRequest(s, at) ==
  [pending |-> ToSet(PlanTargets(Live(s, at), at)), running |-> s.timers, shown |-> s.shown,
   params |-> params]

\* The effects: the snapshot is broadcast, the request sent.
Perform(result) ==
  LET request == PlanRequest(result.state, now)
  IN  /\ store' = result.state
      /\ sent' = IF result.changed THEN result.recommendations ELSE sent
      /\ asked' = IF result.asks THEN request ELSE asked
      /\ requests' = IF result.asks /\ Cardinality(requests) < MaxRequests
                     THEN requests \cup {request} ELSE requests
      /\ UNCHANGED params

Handle(moved) == /\ Perform(SettlePlan(store, moved, now, TRUE))
                 /\ reconfigured' = (reconfigured /\ store' = store)

-----------------------------------------------------------------------------
(* Events from the kitchen, the POS and the registry, and the alarm.       *)

Event == events < MaxEvents[params.planner] /\ events' = events + 1 /\ UNCHANGED <<plans, now>>

\* What the POS makes of the store: an order arrives, or is taken back.
OrderArrivals(s) ==
  {ArriveOrder(s, {ToOrderItem(o, line, now) : line \in Orders[o]}) :
     o \in {new \in DOMAIN Orders : \A i \in s.items : i.order # new}}

OrderCancellations(s) == {CancelOrder(s, o) : o \in {i.order : i \in s.items} \cap Cancellable}

\* What the kitchen makes of it.  A bowl may start on any clear slots, recommended or not.
Clear(s, slots) == slots \subseteq DOMAIN params.at /\ slots \cap OccupiedBy(s.timers) = {}

Starts(s) ==
  UNION {{StartOrderItem(s, slots, Key(i), now) :
            slots \in {k \in kSubset(SpanOf(i), DOMAIN params.at) :
                         Clear(s, k) /\ CanStartOrderItem(s, k, Key(i), now)}} : i \in s.items}

AdHocStarts(s) ==
  {StartTimer(s, a[1], a[2], now) : a \in {b \in AdHoc : Clear(s, b[1]) /\ CanStart(s, b[1], b[2])}}

Completions(s) == {CompleteTimer(s, t.seq, now) : t \in s.timers}

Cancellations(s) == {CancelTimer(s, t.seq, now) : t \in Running(s.timers)}

TableAssignments(s) ==
  {AssignTable(s, a[1], a[2], now) : a \in {b \in Assignments : CanAssignTable(s, b[1])}}

\* A record of the POS.
ReceiveOrder ==
  /\ Event
  /\ \E moved \in OrderArrivals(store) \cup OrderCancellations(store) : Handle(moved)

\* A command of the kitchen.
WebSocketMessage ==
  /\ Event
  /\ \E moved \in Starts(store) \cup AdHocStarts(store) \cup Completions(store)
                   \cup Cancellations(store) \cup TableAssignments(store) : Handle(moved)

Due == \E t \in Running(store.timers) : AdjustedEnd(t) <= now + Epsilon

AlarmFired ==
  /\ Due
  /\ Handle(FireDueTimers(store, now, params))
  /\ UNCHANGED <<plans, now, events>>

\* adoptProjectionConfig: new settings, for the events to come.  The planner is not among
\* them, and the kettles stay.
Reconfigure ==
  /\ Event
  /\ params' \in {p \in Settings \ {params} : /\ p.planner = params.planner
                                              /\ DOMAIN p.at = DOMAIN params.at}
  /\ reconfigured' = TRUE
  /\ UNCHANGED <<store, sent, asked, requests>>

-----------------------------------------------------------------------------
(* The planners.                                                           *)

\* searchPlan: the solver worker makes the plan the store would make by itself.
SolverPlans(r, at) ==
  LET live == {i \in r.pending : IsLive(i, at)}
      ch == [shown |-> r.shown, running |-> r.running, now |-> at, pending |-> live]
  IN  {OwnPlan(Planning(live, InitialRelease(r.running, at, r.params), r.running,
                                 InitialLifts(r.running), r.params, at, ch))}

ByTable(targets, placements) ==
  LET of(k) == SelectSeq(placements, LAMBDA q : TableKey(FindItem(ToSet(targets), q)) = k)
      slice(k) == [tableKey |-> k, placements |-> of(k)]
      first(k) == <<Min({q.startAt : q \in ToSet(of(k))}),
                    Min(UNION {ToSet(q.slots) : q \in ToSet(of(k))})>>
      keys == SetToSortSeq({TableKey(i) : i \in ToSet(targets)}, LAMBDA k, l : KeyBefore(first(k), first(l)))
  IN  [n \in DOMAIN keys |-> slice(keys[n])]

\* planCpsat: any plan of all the targets that keeps off running and boiled bowls, puts no
\* two bowls on a slot at a time, and keeps within the lift cap; which one is up to the
\* solver.  None joins a running bowl.
CpsatPlans(r, at) ==
  LET targets == SelectSeq(PlaceableTargets(r.pending, at, r.params),
                           LAMBDA i : SpanOf(i) <= Cardinality(DOMAIN r.params.at))
      earliest == at + DeliveryLead
      over(t) == t.boiledAt # None \/ AdjustedEnd(t) <= at
      clear == DOMAIN r.params.at \ UNION {t.slots : t \in {u \in r.running : over(u)}}
      freeFrom(s) == Max({0} \cup {AdjustedEnd(t) : t \in {u \in r.running : ~over(u) /\ s \in u.slots}})
      placed(i, start, slots) ==
        [order |-> i.order, index |-> i.index, slots |-> SetToSortSeq(slots, <), startAt |-> start,
         serveAt |-> start + BoilOf(i), anchor |-> None]
      options(i) ==
        {placed(i, start, slots) : start \in earliest..(earliest + SolverSpread[r.params.planner]),
                                   slots \in kSubset(SpanOf(i), clear)}
      free(q) == \A s \in ToSet(q.slots) : q.startAt >= freeFrom(s)
      apart(q, r2) == ToSet(q.slots) \cap ToSet(r2.slots) = {} \/ q.serveAt <= r2.startAt
                        \/ r2.serveAt <= q.startAt
      add(seqs, i) == {Append(seq, q) : seq \in seqs, q \in {o \in options(i) : free(o)}}
      whole == {seq \in FoldLeft(add, {<<>>}, targets) :
                  /\ \A j, k \in DOMAIN seq : j < k => apart(seq[j], seq[k])
                  /\ WithinLiftCap(InitialLifts(r.running), seq, r.params)}
  IN  IF targets = <<>> THEN {} ELSE {ByTable(targets, seq) : seq \in whole}

\* Of either planner any plan that keeps these constraints may come, and of the solver
\* worker its own, which may join running bowls.
PlansFor(r, at) == CpsatPlans(r, at) \cup IF IsCpsat(r.params) THEN {} ELSE SolverPlans(r, at)

Solve ==
  /\ Cardinality(plans) < MaxPlans
  /\ \E r \in requests : \E plan \in PlansFor(r, now) : plans' = plans \cup {plan}
  /\ UNCHANGED <<store, sent, asked, requests, now, settings, events>>

\* A request is lost, or done with.
DropRequest ==
  /\ \E r \in requests : requests' = requests \ {r}
  /\ UNCHANGED <<store, sent, asked, plans, now, settings, events>>

DropPlan ==
  /\ \E plan \in plans : plans' = plans \ {plan}
  /\ UNCHANGED <<store, sent, asked, requests, now, settings, events>>

Adopt(s, adopted, at) ==
  IF adopted = <<>> THEN Unchanged(s) ELSE SettlePlan(s, [s EXCEPT !.accepted = adopted], at, FALSE)

Admitted(s, plan, at) ==
  Admit(plan, Committed(s, at), Live(s, at), s.timers, s.shown, at, params)

\* receivePlan: what is adopted replaces what was; no new request comes of it.
Received(s, plan, at) ==
  Adopt(s, Admitted([s EXCEPT !.timers = Synchronize(@, params)], plan, at), at)

\* deliverPlan. A plan may come more than once.
DeliverPlan ==
  /\ \E plan \in plans : Perform(Received(store, plan, now))
  /\ UNCHANGED <<plans, now, reconfigured, events>>

Tick == /\ now < MaxTime[params.planner] /\ ~Due
        /\ now' = now + 1
        /\ UNCHANGED <<store, sent, asked, requests, plans, settings, events>>

Init ==
  /\ store = [timers |-> {}, nextSeq |-> 0, items |-> {}, last |-> [x \in Terminals |-> None],
              accepted |-> <<>>, shown |-> <<>>, requested |-> <<>>]
  /\ sent = {}
  /\ asked = None
  /\ requests = {} /\ plans = {} /\ now = 0 /\ events = 0
  /\ params \in Settings /\ reconfigured = FALSE

Next ==
  \/ ReceiveOrder \/ WebSocketMessage \/ AlarmFired \/ Reconfigure
  \/ Solve \/ DropRequest \/ DropPlan \/ DeliverPlan \/ Tick

Spec == Init /\ [][Next]_vars

-----------------------------------------------------------------------------
(* Properties.                                                             *)

Rest == RestPlanning(store.accepted, Live(store, now), store.timers, params, now, Context(store, now))

\* The store's own plan passes the tests it puts others to: no kettle twice at a time, whole
\* boil times, nobody left behind who could join the running bowls of the table, no window
\* above the cap.
OwnPlanIsLegal == ~IsCpsat(params) => IsLegal(Rest, OwnPlan(Rest))

EachOnce(committed, keys) ==
  /\ IsInjective([k \in DOMAIN PlacementsOf(committed) |-> Key(PlacementsOf(committed)[k])])
  /\ PlacedKeys(committed) \subseteq keys
  /\ ~IsCpsat(params) => PlacedKeys(committed) = keys

\* Every bowl that waits and that the kitchen has room for is recommended once, and
\* nothing else is, whatever was adopted before.
EachBowlOnce ==
  EachOnce(Committed(store, now),
           {Key(i) : i \in {j \in ToSet(PlaceableTargets(Live(store, now), now, params)) :
                             SpanOf(j) <= Cardinality(DOMAIN params.at)}})

InputOf(r) ==
  [targets |-> {<<Key(i), i.firmness, i.table>> : i \in r.pending},
   kettles |-> {<<t.slots, AdjustedEnd(t)>> : t \in r.running},
   settings |-> r.params]

\* While anything waits, the planner has been asked about just these bowls, kettles and
\* settings, as they were at some time since: they differ by what has expired, and by settings
\* that changed, with no event after it.
AskedAboutThis ==
  ~reconfigured /\ PlanTargets(Live(store, now), now) # <<>> =>
    \E t \in 0..now : InputOf(asked) = InputOf(PlanRequest(store, t))

\* A bowl whose turn has come although its kettle is not cleared.
BlockedAt(t) == \E q \in ToSet(PlacementsOf(Slid(store.accepted, t, params))) :
                  q.startAt <= t /\ ToSet(q.slots) \cap OccupiedBy(store.timers) # {}

\* Moved later, the plan comes up with the running bowls: more than the arms can lift.
CrowdedAt(t) ==
  ~WithinLiftCap(InitialLifts(store.timers), PlacementsOf(Slid(store.accepted, t, params)), params)

\* A plan nobody follows is moved later as a whole and goes on being shown: time alone takes
\* a bowl that still waits off it only when a kettle is not cleared or the arms would have
\* too much to lift.
TimeTakesNothing ==
  LET stays(recommended) == recommended[now] \cap KeysOf(Live(store, now + 1)) \subseteq recommended[now + 1]
  IN  IsCpsat(params) /\ ~BlockedAt(now + 1) /\ ~CrowdedAt(now + 1) =>
        stays([t \in {now, now + 1} |-> PlacedKeys(Committed(store, t))])

=============================================================================
