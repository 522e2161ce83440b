# A verification of durable-yudemen in TLA+

durable-yudemen is the noodle timer of a chain of ramen shops: tablets at the
kettles, one Cloudflare Durable Object per shop that owns the timers and the
order items, one registry object that owns the configuration of all shops, a
Worker in front of them, and planners that propose what to cook next. Paths
below are relative to the repository; the TypeScript is under `src/`
(`src/src/` in `PROJECT.json`).

This directory holds TLA+ modules of that system, the TLC runs that check them
on small instances, and TLAPS proofs that hold for every value of the constants.
A run named `x` is `tlc -config <cfg> <module>` with the files `PROJECT.json` gives
for it; `tlapm M.tla` checks the proofs of a module `...Proofs`.

## 1. The system

| Part | State it keeps | Operations | Talks to |
|---|---|---|---|
| Pure core, `src/engine/` | none; `TimerState` (timers, next number, order items, last record of each terminal, plan fields) is passed in | `decide(state, event, params)` and one handler per event; `settle` synchronises the running timers, drops no-ops and lists the effects | called by the store object only |
| Domain rules, `src/domain/` | none | keys, lifetime and status of an item, what is pending, what is broadcast, decoding of messages | core, shell and client |
| Store object, `src/shell/store-timer-do.ts` | stored snapshot, working copy, alarm, sockets, stored projection | constructor, `fetch`, `webSocketMessage`, `alarm`, `receiveRecords`, `applyProjection`, `deliverPlan`, `applyShortNames` | clients over WebSockets, Worker, registry, planners |
| Registry object, `src/shell/store-registry-do.ts`, `src/registry/` | chains, shops, policies, revision, the shops still to be told, held POS records | creating and updating, convergence of projections, holding and replaying records, its alarm | store objects by RPC, Worker |
| Worker, `src/worker.ts`, `src/ingress/` | store codes it has resolved, per isolate | authorisation, routing, splitting of POS batches and folding of their outcomes | both objects |
| Client, `src/client/` | socket, what it shows, local timers, browser storage, the cards of the kettles | reconnect, working offline, reconciling with a snapshot, the taps of the cook | store object |
| Planners, `src/solver/`, `src/cpsat/` | none | answer a plan request later, through `deliverPlan` | store object |
| Logs and archives, `src/operation-history/`, `src/lift-delay/`, `src/order-arrival/`, `src/data-platform/`, `src/observe/` | streams | derived lines, no way back | outside |

What makes each part correct:

* **Core.** A kettle slot has one timer and a dish is in the kettles once.
  Timers that may be lifted together are, inside their tolerance. A due timer
  boils, and no other. Kitchen facts (cooking, done, table) outlive whatever
  the POS sends again; the list of items is bounded.
* **Store object.** What is answered from memory is what is stored; an event is
  taken whole or not at all; a running timer always has an alarm; clients see
  the stored state; a timer ends in spite of failing puts, evictions and
  crashes.
* **Registry and Worker.** What a shop is given is the whole of one committed ideal; a
  shop that lacks its newest projection is left to be pushed until it has it (the code
  fails at this when convergence runs or commits overlap, section 5); no code moves away
  from its store; a POS record that was answered 200 is not lost, and none is delivered
  over an older held one.
* **Client.** One socket at a time counts, a boil started offline stays on the
  screen, a reconnected terminal shows the store, nothing rings twice, and only a
  cancel that was meant cancels.
* **Plans.** Only a slice that fits the present state is adopted, the committed
  plan covers every pending bowl once, and a request stands for the state it was
  made for.

Hard behaviours: sequences of commands of several tablets; redelivered and
reordered POS records; an await in the middle of an order post; a put that
fails; a crash between the put and the effects behind it; eviction with open
sockets; alarm retries that run out; a configuration that changes under running
timers; convergence runs that overlap at every await; records held, replayed and
delivered past each other; plans that come late; late events of a socket that was
given up; taps on a card that was drawn before the store changed. `PROJECT.json`
lists each with its line under `hazards`.

## 2. The modules

```
StoreTypes         None, shared by all
  BoilSync         engine/sync.ts                      which timers are lifted together, and when
  OrderItems       domain/order.ts, engine/pending.ts  the set of order items
    StoreEngine    engine/decide.ts, settle.ts, fire.ts and one handler per event
      StoreTimerDO       shell/store-timer-do.ts       storage, memory, alarm, sockets
        StoreTimerProofs (with BoilSyncProofs)
      LiftWindows, PlanScore, PlanRules, PlanAdmission engine/lift.ts, objective.ts, schedule.ts, admit.ts, commit.ts
        PlannedStore     engine/settle.ts, plan.ts, digest.ts; solver/, cpsat/   a store that follows plans
          PlannedProofs
        PlanBaseline, PlanSchedule                     engine/schedule.ts        the store's own plan
    LiftGroups           client/components/liftGroups.ts
      KitchenScreen      client/components, audioCue.ts, assignment.ts           the hand of the cook
        ScreenProofs
  AtomicStore            what StoreTimerDO promises: one state, events whole or not at all
  ClientView             client/connection.ts decideView
    StoreClient          client/connection.ts with a server, a line and the browser's storage
      ClientProofs
  SocketWatch            client/connectivity.ts        the watch over the sockets
    SocketWatchProofs
  RegistryCore           registry/: compose, code-index, policy-conflict, held-record
    StoreConfigs         registry/validate.ts, projection.ts
    StoreRegistryDO      shell/store-registry-do.ts    ideal, ledger, convergence, held records
      PosIngress         worker.ts                     the way of POS records
        RegistryProofs
MC...                    constants of the runs; MCAlgorithms: the algorithms against reference definitions
  AlgorithmProofs        (with BoilSyncProofs)
```

**BoilSync.** `Synchronize(timers, cfg)` gives each running timer its
adjustment: windows around the ends, clusters of overlapping windows, each cut
into sets of at most `arms`, each set that has a common window given one target,
as far from its neighbours as possible and then as near to the window centres as
that allows. What synchronisation reads of a timer is its `Boil`: number, start and
end. The arithmetic is the code's integer arithmetic on 1/100 units; the
pooled means, which the code computes in floating point, are exact on a finer
grain (`Grain`), so the rounding to a unit is the one the code does. The binary
search for the gap runs `Bits` rounds, as many as a number of the code has bits.

**OrderItems.** The items are a set, because the order of the code's list only
decides layout. `firmness` stands for all the attributes the POS resends. Of lines
with one key in an arrival one counts (`Arrived`): the code's first; here any.

**StoreEngine.** One operator per event gives the state the event moves to, and
one `Can...` operator per event is the conjunction of its rejections. `Settle` and
`Decide` are what every event goes through; `NextAlarm` and `Snapshot` are the
effects. The random id of a timer is minted together with its `seq`, so `seq`
stands for both. `serverTime` is left out of the snapshot.

**StoreTimerDO.** One action per entry point: `Construct` (load, then
reconcile), `Start`, `StartItem`, `Cancel`, `Complete`, `Adjust`, `Assign`,
`Connect`, `Disconnect`, `PostBegins`/`PostEnds` (an order post, cut at the
`await` of its body), `ReceiveRecords`, `ApplyProjection`, `AlarmFires`; and of
the platform: `Tick`, `Hibernate`, `Crash`. Each event with a put has three
outcomes (`RunEffects`): nothing changes, the put succeeds, the put fails. After
a put that succeeded, `RunSideEffects` sets or clears the alarm and broadcasts.
It is a step of its own because a crash may come first. No other event may: a
storage operation closes the input gate of a Durable Object.

| Variable | In the code |
|---|---|
| `disk`, `projection` | the values stored at `SNAPSHOT_KEY` and `PROJECTION_KEY` |
| `mem` | `workingCopy` (`None`: the object is not in memory, `loaded` false) |
| `effects` | the rest of the effect list, behind a put that succeeded |
| `alarm` | the platform's alarm: when, which retry, and what set it |
| `invocation` | the alarm handler that is running, to be retried after a crash |
| `view` | the last snapshot sent to one client, whichever; a broadcast goes to all alike |
| `posting` | an order post behind its provision check, before its body is there |
| `faults` | how many puts failed, to bound them |

**AtomicStore.** The abstract specification. It takes the core's operators as
parameters and has three variables: the clock, the state and the projection.
`StoreTimerDO` implements it with `state <- disk`: retries, failed puts, crashes,
evictions, sockets and alarms all become stutters, or the abstract `Fire`.

**PlannedStore** and what it extends. The state gains `accepted`, `shown` and
`requested`; every event ends in `SettlePlan`, which composes the plan (`Committed`),
broadcasts it and may ask for another. The records of the POS (`ReceiveOrder`) and the
commands of the kitchen (`WebSocketMessage`) are one action each, with a set of the
states that every kind of them may lead to. `Reconfigure` is `applyProjection` as the
planning sees it: new settings (`params`) for the events to come, with the same planner
and kettles, and neither a settlement nor a request of its own; the history variable
`reconfigured` says that no event has changed the store since. `Solve` answers a
request: the solver worker plans as the store does (`OwnPlan`, a parameter of
`PlanAdmission` that the run binds to `BaselineSchedule`); CP-SAT is any plan that
keeps its constraints (`CpsatPlans`). A store that plans for itself is given both, so
that its tests meet plans it would not have made. `DropRequest`, `DropPlan` and
`DeliverPlan`, which leaves the plan on its way, lose, repeat and delay them. The clock only ticks while no timer is due,
because the alarm comes first.

**StoreRegistryDO.** An administrator's call (`Provision`), the convergence run it
starts and the alarm's run are processes (`procs`) that interleave at every await:
`Converges` takes the next store, `ApplyProjection` is the push as the store takes
it, `PushFails` its failure, `Replays` the push of held records. `truth` (`ideal`,
`revision`, `history`) is what was committed, `ledger` and `residual` what the
registry believes and still has to do. The residual is a list in the code and a set
here, of which a run takes the first `MaxPushes` in order. It is written by every
commit and by every run after every push, from what each of them knows; the history
variable `forgotten` holds the stores that such a write took off although the writer
did not push them, or pushed them an older reading than the one they were put there
for (`Overwritten`). A crash in the middle of a convergence run leaves stores behind
without an alarm; the registry run therefore has none, the ingress run has.

**PosIngress** adds an upstream that repeats a batch until it is answered 200,
and workers with their memory of resolved codes. A request walks per code
through `resolve`, `deliver`, `unresolved`, `holding` to `delivered`. A request one of
whose calls failed is over, and the upstream may repeat it at once: the deliveries it
has under way may still land, but it resolves and holds nothing more, because its
handler has thrown. Records have arrived at the stream in the order of their sequence
numbers (`PosIngressAssumption`), as a stream that numbers them on arrival gives them.

**ClientView / StoreClient.** `decideView` as operators on the view; the server, the
line in both directions with its losses, the page with its storage, and the cook as
actions. `heardAt`, `rungTwice`, `ended` are history.

**SocketWatch.** One action per callback of `connectivity.ts`, for any socket ever
opened, also those given up.

**KitchenScreen.** The cards with `decideCancelTap` and the drawing effects of
`SlotCard`, the firmness menu, the radial menu, the suggestions, `useAudioCues` and the
order flow, over a store that others change. A card shows the time of its last
drawing, at most a beat ago. `unmeant`, `heard`, `again`, `away` are history.

## 3. The runs

| Run | What it asks | Bounds |
|---|---|---|
| `algorithms` | the gap is the largest, the placement the nearest, the first fit the least; ambiguity does not depend on names; what validation accepts is kept | sets of up to three timers with three starts, three durations, several arms and ratios; four lifts; three policies; portions of two fields |
| `timers` | one timer per slot, memory is durable, the alarm is the earliest running end, clients see the stored timers, a fire leaves nothing due and boils nothing early | two starts on slots {1}, {2}, {1,2}, five time units, one failing put, crashes between events, three projections |
| `orders` | newest record shows, kitchen facts and assigned tables survive; `AtomicStore` is implemented | one terminal, an order of two lines in three versions, alone or paired, in any order and number; a post and a cancellation by post; crashes at every point |
| `boils` | a running timer ends; no dish twice in the kettles | a list limit of one item, two orders; two failing puts with one retry and a re-arming threshold of one |
| `registry` | projections, ledger, codes; a lagging store is left to be pushed unless forgotten, and whoever is not forgotten gets its newest projection | two stores, two processes and the alarm, three revisions, one policy, one push a run, one failing push or put |
| `ingress` | acknowledged records are kept, none overtakes a held one | one store, one code, three records in batches of one or two, the last an instant later than the others and then the only one in the window; room for two held records; two interchangeable workers, one failing call, one crash |
| `sockets` | one socket, evidence, eventually up | seven sockets, three losses |
| `client` | what a terminal shows, hears and rings | two interchangeable slots, two timers, one loss, one reload, one message each way |
| `plans` | each bowl once, the own plan is legal, time takes nothing, requests stand for their state and settings | two orders of one bowl each, of different boil times and spans, one at a table that may change, an ad hoc timer; one request and one plan underway. A store that plans for itself: two slots, one arm or two by its settings, three events, one time unit, any plan that starts within a unit of the first instant. A store that follows CP-SAT: three slots, room for two in the arms' lift, two events, three time units, in which a bowl that waits expires |
| `screen` | cancels are meant, one announcement, plated once | two kettles, two timers, one upset (loss, foreign change, reload, other units), a beat of one |
| `alarm_lost` | expected to fail, see section 5 | crashes between put and effects |
| `store_left_behind` | expected to fail, see section 5: every store gets its newest projection | two stores, one process and the alarm, two revisions, one push a run, no failure |

The bounds suffice because the properties relate at most two timers, two items,
two records or two calls, and the runs hold that many and one actor more. Three
timers are needed for a placement with two gaps, hence `algorithms` apart from the
state machines. One failing put shows every partial failure of safety, because the
put that fails leaves no trace but `faults`; for liveness it must be more than the
platform retries, which `boils` scales down (one retry instead of six, a threshold
of one instead of five). In `timers`, `boils` and `client` the longest boil ends within `MaxTime`; the other runs do
not need every timer to end.
In `plans` orders live three units, the lead of a delivery is one. A plan that is followed
is cut for an uncleared kettle there, and one moved later comes to exceed the arms, so each
exception `TimeTakesNothing` makes is met.
`EPSILON_MS` is one time unit in `timers`, so that the window matters, and the alarm
may come that early. `screen` scales the code's minute, three seconds and half
second to two, two and one, which keeps their order.

Deadlock is checked where the system goes on for ever; the bounded environments of
the others stop.

Crashes are allowed between events only in `timers` and `boils`: a crash between the
put and the alarm breaks `AlarmArmed` and `EventuallyBoils`, which is the finding
below. `orders` and `alarm_lost` allow it there as well.

**Fairness.** `StoreTimerDO.FairSpec`: the clock runs; the effects of an event are
run; a due alarm wakes the object and, when the object is idle while the alarm is due
again and again, the handler runs. The platform delivers alarms at least once, which
justifies the last two. They are written with the conditions that enable the
actions, `AlarmDue` and `Idle`, because TLC evaluates `ENABLED` of those actions
too slowly. `StoreRegistryDO.FairSpec`: running handlers go on, pushes are answered,
the platform fires alarms. `SocketWatch.LiveWatchSpec`: timers fire, a socket opens
or closes after all, and of messages that keep coming one is heard. Nothing is
assumed of clients, of the POS, or of puts and pushes succeeding; the number of
failures is bounded.

## 4. The theorems

Each theorem is for every value of the constants, under the named assumptions of the
modules (`StoreEngineAssumption`, `ParamsAssumption` and so on), which state types,
positive limits and the order of the code's constants, and which TLC evaluates in the
runs. Where a theorem has a hypothesis of its own it is named here.

**The store object** (`StoreTimerProofs`). `Invariance`: `Spec => []StoreInv`;
`TypeCorrect`, `Durable`, `SlotsExclusive`, `ItemsExclusive` are its parts `TypeOK`,
`MemoryIsDurable`, `OneTimerPerSlot`, `OneTimerPerItem`; `Atomicity`:
`Spec => ImplementsAtomicStore`. `OneTimerPerItem` is not inductive: a command finds its
timer by number, so the numbers must be unique and below the next one
(`TimersNumbered`); and what is decided on the working copy must be decided on the
stored state (`MemoryIsDurable`). One lemma per event shows that the state it moves to
is sound: timers removed (`Removal`), renewed one by one (`Renewal`), or one added
(`AddTimerSound`). `Outcome` then covers the three outcomes of a put. For `Atomicity`,
`RunsOnce` and `FiresOnce` show that each handler changes the storage to the abstract
event's result or not at all.

**Items** (`StoreTimerProofs`, second part). `ItemsInv` adds that keys are on the list
once and that a decided table is the kettle's; `Moves` says of every step what it may do
to an item. From it `AssignedTableShared`, and `KitchenFactsKept` under `ListFits`: all
the lines the POS ever sends have a place on the list. Without it the property is false, as
the limit drops the oldest, cooked or not. `NewestRecordShows` holds under `ListFits` and
`PosIsOrderly`: a terminal numbers its records one by one, an order is of one terminal, a
record has every line once, and an order that comes in records is not posted as well. The
code takes all of this for granted and checks none of it. Beside `ItemsInv` it
is inductive, once each event is seen to do what it may to an order: `ReceiveRecords` counts
a record and shows it, and passes by one with a lower number, and every other event leaves
the lines of an order as they are (`Leaves`). `ViewMatches` needs its own invariant: what is
yet to be broadcast is what was put.

**Boiling** (`BoilSyncProofs`, `StoreTimerProofs`, third part). Synchronisation moves a
timer by a whole number of units and its end stays within half a unit of its window
(`AdjustmentIs`). Below it are the loops: the binary search keeps a feasible gap, and
pooling keeps blocks that cover the items in order, each with a value in its
bounds; each is an induction on a natural number over a recursive function. With it
`KettleInv` is inductive, and: `DrainsDueTimers`, a fire leaves nothing due, although
taking the due timers out moves the others (the loop of `fireDueTimers` ends, because
each round takes one out); `BoilsInWindow`; and `AlarmArmed` under
`"effects" \notin CrashPoints`, so exactly without the crash of the finding.

**Algorithms** (`AlgorithmProofs`). What the run `algorithms` compares on small inputs
holds of inputs of any size, for three of them. `GapIsLargest`: the greedy test is right
(`GreedyIs`: it succeeds if and only if every two spans leave room for the gaps between
them), the bisection ends between a gap that fits and one that does not (`BisectedIs`),
and the windows of a cluster come in an order in which every two leave some room
(`ClusterRoom`), which is where the cutting of a cluster by centres is needed. Its
hypothesis `TimesFit` is that one and a half times an end, in hundredths of a millisecond,
is below 2^53, which a clock in milliseconds keeps for the next 1800 years. `FirstFitIsLeast`:
`firstFit` jumps from an overfull window to its end, and no instant it jumps over had
room (`RoomIs`, `SearchIs`); it ends because behind the last lift all windows are empty
(`RoomInTheEnd`). `UnambiguousIgnoresNames`: a field is decided by the first policy that
enforces it or, if none does, by the last that asserts it (`FoldIs`), and by priority alone
that is one policy, if no two assert a field with one priority (`AssertsOnce`).

**Plans** (`PlannedProofs`). `AskedAboutThis`: the digest of the last request is that of the
state at some time since, and the request was made of what was digested (`AskedInv`). The
adoption of a plan settles the store without a request, so the proof needs that a settled
store is settled again to itself (`SynchronizeTwice`): neither bowls nor kettles move. New
settings end this and what follows from it, until an event changes the store and settles
it by them; in between the invariant keeps only that the request is what was digested.

**Registry** (`RegistryProofs`). `ConvergenceInv` carries what a running push still has
in its hand: the ideal it read, composed, under that ideal's revision, and the version
the store echoed. `ProjectionsAreRecomposed`, `LedgerIsHonest`. From both follows
`LaggingIsLeft`, by `LeftInv`. A commit makes only those stores lag that `affectedStores`
gives, because of any other the new ideal makes what the old one made (`Reaches`). A push
brings its store forward, never back (`AppliedIsNewer`). The end of a push takes its store
off when the store answered a version not below that of the run's reading; if that
reading is the newest, the store has what is newest, and if not, the store is
forgotten. `CodesInv` says the index is the one built from the ideal, in which no code has
two holders; with it `CodesStayPut`, over single updates and batches. `ConvergenceHoldsUnderCalls` and
`CodesStayPutUnderCalls` say the same of `SpecIngress`, with held records, crashes of
the object and workers that come and go.

**The way in** (`RegistryProofs`, second half). `AcknowledgedIsKept` and
`NothingOvertakesHeld` for any number of workers, codes, stores and records, any size of
a batch and of the room for held records. Neither is inductive. `IngressInv` says of
every place a record can be in what must be true of the records before it: of held ones
(`HeldOK`), of those a replay or a request carries (`ReplaysOK`, `PostsOK`), of those a
store has counted past (`CountedOK`). All say that an older record is kept or is past
(`Past`): too old for the window, now and ever after, and either safe or brought by no
request that is waited for. The last part is what makes it hold: a request may carry a
record that has become too old on its way. `DirectOK` is the reason for the refusal in
`resolveStoreCode`: while a worker remembers the store of a code, nothing of that code
is held or about to be. `Grows` collects what no step takes back; the lemmas behind it
say that each part of the invariant follows from it for whatever a step leaves alone, so
that the proof of an action is about what it touches. `FilteredHas` and `RetainedHas`
say what the loops over held records return.

**Client** (`SocketWatchProofs`, `ClientProofs`). `WatchInv` ties the phase of each
socket, the timers and the evidence to the socket in use: `OneSocket`, `UpIsEvidence`.
`ClientInv` relates the view, the browser's storage, the two queues of the line and the
server: what is on the line is what the server was, the last of it what it is, and
whatever rang is marked until neither side can show it again. From it `ShowsTheStore`,
`ResyncedIsHeard`, `OnlyRunningContested`, `RingsOnce` and the action property
`LocalBoilStays`.

**Screen** (`ScreenProofs`). `CancelMeant`: an armed card that was not reconciled since
shows, at its last drawing, the timer it was armed for (`Hands`). This is inductive
because a kettle that boils before and after a change of the store boils the same bowl
(`Follows`), because a live and synchronised view is the store (`Views`), and because a
terminal without connection knows that it is behind (`Marked`). `PreAlertOnce`: who was
announced and has been here since is not armed again. `AckedStays` follows step by step.

**Only model-checked, and why.** Liveness (`EventuallyBoils`, `KnownStoresConverge`,
`EventuallyUp`) is beyond the prover. `PlacementIsNearest` compares sums of squares over all
placements with what the pooling of adjacent violators returns; its optimality is an
argument about data that the installed provers do not carry. `AcceptsWhatIsKept` has no
constant but the target it is submitted to: its inputs are the shapes of a value, which the
run goes through. `OwnPlanIsLegal` rests on `PlanSchedule`, which is recursive, and
`EachBowlOnce` and `TimeTakesNothing` on it and on sorted and folded sequences, which the
library defines by choice among permutations and over subsets, out of the provers' reach.

## 5. What was found

`alarm_lost`: a comment in `store-timer-do.ts` (1478) says that a missing alarm
is recovered by the reconcile of the next start, and the comment at `fire.ts:91`
that reconcile sets the alarm anew. A reconcile that changes no timer has no
effects, because `settle` returns an empty list for a no-op, so it does not set the
alarm. In the trace a start is stored, the object crashes before `setAlarm`, the next
start finds nothing due, and the timer runs without an alarm until some other event
changes the state.

`store_left_behind`: the comment of `runConvergence` (1683-1685) claims at least once, with
nothing lost, and requirement 5.4 of `per-store-provisioning` that the alarm goes on until a
push succeeded. But each run folds a copy of the residual, which it read before its
calls, and puts it over `RESIDUAL_KEY` after each of them (1718); and `commitIdeal` puts
there the stores of its own change only (456). So a store that is left to push is
forgotten when another run ends a push, or when a change is committed that does not
affect it, and nothing puts it back before the next change that does. In the trace
nothing fails and nothing crashes: the alarm's run waits for store 2 while a change of
the chain leaves both stores to push and its own run pushes store 1; the alarm's run is
answered, puts its own empty copy, and store 2 keeps the older projection, with no alarm.
What is true beside it is `LaggingIsLeft` and `KnownStoresConverge`: no other way to be
forgotten exists as long as the object lives. The ledger still shows such a store, as
its revision stays behind.

Other things seen while modelling; no document contradicts them, so no run is
expected to fail on them:

* The operation history takes `after` from the working copy behind an await
  (`store-timer-do.ts:516`): of two overlapping events each may log the other's effect.
* A crash in the middle of a convergence run leaves stores behind without an alarm
  until the next change of the ideal.
* The list of codes to replay is overwritten as the residual is: `runReplay` puts what it
  put off (854) over what a request noted while it waited for a store. The records stay
  held, and wait for the next record or update of their store. The `ingress` run has one
  code, with which this cannot happen.
* A policy that becomes ambiguous by its own update is not tested against the stores it
  is assigned to already (`createOrUpdatePolicy`). `UnambiguousIgnoresNames` is about the
  rule where it is applied, not about that sequence.
* Tables of running bowls are read by the planner and are not part of the digest that
  decides whether to ask again (`digest.ts`).
* A followed CP-SAT plan that slides with the clock can come to exceed the arms together
  with a running bowl, and then vanishes by time alone (`CrowdedAt`).
* The firmness menu stays open in the state of its card when the kettle boils under it
  (`SlotCard.tsx:630`), and its cover then takes the tap meant for "Up".
* `slotSuggestions` (`liftGroups.ts:107`) asks only for a connection, not for the
  resynchronisation that the rail waits for (`queueDisplay.ts:157`).
* The guard of a card is kept per slot, not per timer (`SlotCard.tsx:354`): over a
  reconnection the second tap can meet another timer. `CancelMeant` says so.
* A bowl that expires does not make the store ask for another plan, nor do new settings
  (`applyProjection`, `store-timer-do.ts:861`): the request before them stands until the
  next event that changes the store. `AskedAboutThis` is stated so.
* The reason of a disconnection that is classified late can stay on the screen of a
  terminal that is connected again.
* An upstream that gives up and goes on lets held records be overtaken; the model's
  upstream repeats for ever, as the ingress requires.

## 6. Not modelled, and the plan

Not modelled: migration of old snapshots; rendering, notifications and browser APIs;
logs and archives; decoding and validation of requests beyond what they let through;
authorisation; the numeric search of CP-SAT, which is any plan that keeps its
constraints; short names. The await of the plan request, which comes behind every other
effect, is not a step. One client's `view` is followed in `StoreTimerDO`, as a broadcast
goes to all alike. `PlannedStore` has no crashes, which are `StoreTimerDO`'s.

Limits of what is modelled: the planner and the kettles of a store are constant in
`PlannedStore`, the other settings change between requests; the limit of 24 bowls of a
CP-SAT request (`CPSAT_TARGET_LIMIT`) is left out, which the runs never reach; with two orders of one bowl each, `plans` checks that plans are
legal but hardly takes the loop that pins bowls to clear kettles (`schedule.ts:524`) to a
second round; no item leaves or arrives in `KitchenScreen`, so the pruning of
confirmations (`OrderFlow.tsx:52`) always meets the whole list; the history of
operations (`store-timer-do.ts:516`) has no property.

Next:

1. Theorems: `EachBowlOnce` of `PlannedStore`, under what it needs of `OwnPlan`, once the
   folds of `PlanAdmission` are recursive functions.
2. Migration (`migrate.ts`) and the folding of batch outcomes (`ingress/outcome.ts`) as
   operators against reference definitions.
3. The history of operations composed with the awaits of the object.
