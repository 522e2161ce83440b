-------------------------- MODULE StoreRegistryDO --------------------------
(***************************************************************************)
(* The registry's Durable Object (src/src/shell/store-registry-do.ts): the *)
(* ideal, the convergence of the stores to it, and the records held for a  *)
(* store that cannot take them yet.                                        *)
(*                                                                         *)
(* A handler is a process.  Storage operations keep the object's gate shut *)
(* and a call to a store's object opens it, so a process owns the gate     *)
(* (running) from an event to its next call or its end: in between no      *)
(* other process moves, but the object may die.  Input that validation     *)
(* rejects changes nothing and is not enumerated (see StoreConfigs).       *)
(***************************************************************************)
EXTENDS RegistryCore

CONSTANTS
  Stores, Codes,      \* ids of stores, store codes of the POS master
  Chains, Rosters,    \* ids of chains, rosters they may be given
  Policies,           \* for each id, what a request may make of the policy
  NewBodies, Bodies, Batches,   \* what a request may say of a store, of a batch of stores
  Requests,           \* processes that serve a request
  AlarmHandler,       \* the process that serves the alarm
  MaxPushes,          \* CONVERGE_MAX_PUSHES_PER_RUN
  RearmThreshold,     \* ALARM_REARM_THRESHOLD
  MaxRetries,         \* ALARM_MAX_RETRIES
  MaxRevision, MaxFaults, MaxCrashes, MaxTime    \* bounds of the model

ASSUME StoreRegistryAssumption ==
  /\ Stores \subseteq Nat /\ None \notin Stores /\ AlarmHandler \notin Requests
  /\ \A batch \in Batches : IsFiniteSet(DOMAIN batch) /\ DOMAIN batch \subseteq Stores
  /\ MaxPushes \in Nat \ {0} /\ RearmThreshold < MaxRetries
  /\ {RearmThreshold, MaxRetries, MaxRevision, MaxFaults, MaxCrashes, MaxTime} \subseteq Nat

Procs == Requests \cup {AlarmHandler}

VARIABLES
  ideal, revision, codeIndex, reverseIndex,       \* storage: the truth and its indexes
  residual, ledger,                               \* storage: convergence
  held, replayResidual,                           \* storage: held records
  alarm,                                          \* None, or the retry count it will fire with
  procs, running, replaying,                      \* memory
  projection, counted, taken,          \* the stores' objects; projection of those that have one
  now, faults, crashes,
  history, dropped, forgotten    \* history variables; forgotten: stores whose entry in the
                                 \* residual another write of it took away

truth == <<ideal, revision, codeIndex, reverseIndex, history>>
convergence == <<residual, ledger, forgotten>>
keeping == <<held, replayResidual, dropped>>
stores == <<projection, counted, taken>>
world == <<now, crashes>>
vars == <<truth, convergence, keeping, alarm, procs, running, replaying, stores, world, faults>>

\* What a handler carries over its calls.  For the convergence: the stores left of its batch,
\* its copy of the residual, the revision it composes from; for the replay: the codes left, the
\* records sent, the codes put off by the alarm's handler, which writes them back if it found
\* any.  reply is what the last call gave, answer what the request will be told.
Idle == [kind |-> "idle", step |-> "idle", todo |-> <<>>, residual |-> {}, base |-> 0,
         codes |-> <<>>, sent |-> <<>>, remaining |-> <<>>, replays |-> FALSE,
         reply |-> None, answer |-> None, failed |-> FALSE, retry |-> 0]

Init ==
  /\ ideal = EmptyIdeal /\ revision = 0 /\ codeIndex = <<>> /\ reverseIndex = <<>>
  /\ residual = {} /\ ledger = [s \in Stores |-> 0]
  /\ held = [c \in Codes |-> <<>>] /\ replayResidual = <<>>
  /\ alarm = None
  /\ procs = [p \in Procs |-> Idle] /\ running = None /\ replaying = {}
  /\ projection = <<>>
  /\ counted = [s \in Stores |-> 0] /\ taken = [s \in Stores |-> {}]
  /\ now = 0 /\ faults = 0 /\ crashes = 0
  /\ history = <<>> /\ dropped = {} /\ forgotten = {}

\* The process p holds the gate at this step.
At(p, step) == running = p /\ procs[p].step = step

\* The process p goes on with these fields changed, keeping the gate.
Goes(p, q) == procs' = [procs EXCEPT ![p] = q] /\ UNCHANGED running

\* The process p waits for a store: the gate opens.
Waits(p, q) == procs' = [procs EXCEPT ![p] = q] /\ running' = None

Fault == faults < MaxFaults /\ faults' = faults + 1

ArmAlarm == IF alarm = None THEN 0 ELSE alarm

-----------------------------------------------------------------------------
(* Requests that change the ideal: one put, then convergence.              *)

CommitIdeal(p, newIdeal, affected, codes) ==
  /\ running = None /\ procs[p] = Idle /\ revision < MaxRevision
  /\ ideal' = newIdeal /\ revision' = revision + 1
  /\ history' = Append(history, newIdeal)
  /\ residual' = affected
  /\ forgotten' = (forgotten \cup residual) \ affected
  /\ procs' = [procs EXCEPT ![p] = [Idle EXCEPT !.kind = "provision", !.step = "converge",
                                                !.codes = codes]]
  /\ running' = p

Served == UNCHANGED <<ledger, keeping, alarm, replaying, stores, world, faults>>

CreateOrUpdateChain(p, c, roster) ==
  LET chains == With(ideal.chains, c, roster)
  IN  /\ CommitIdeal(p, [ideal EXCEPT !.chains = chains], StoreIdsInChain(ideal.stores, c), <<>>)
      /\ reverseIndex' = BuildReverseIndex(chains, ideal.stores)
      /\ UNCHANGED codeIndex /\ Served

CreateOrUpdatePolicy(p, id, policy) ==
  /\ CommitIdeal(p, [ideal EXCEPT !.policies = With(@, id, policy)],
                 StoresOfPolicy(ideal.stores, id), <<>>)
  /\ UNCHANGED <<reverseIndex, codeIndex>> /\ Served

\* The code a store has once the update is taken; the verdict is Rejects when it may not.
Rejects == <<"rejected">>

\* Mutant: a store may trade its code for another.
MutStoreCodeAfterUpdate(existing, claimed) == IF claimed = None THEN existing ELSE claimed

StoreCodeAfterUpdate(existing, claimed) ==
  CASE claimed = None -> existing
    [] claimed # None /\ existing \in {None, claimed} -> claimed
    [] OTHER -> Rejects

CodesAreFree(stores2, written) ==
  \A code \in DetectDuplicateStoreCodes(stores2) :
    \A s \in written : stores2[s].storeCode # code

\* A body is a partial function of the fields the request gives.
Given(body, field, otherwise) == IF field \in DOMAIN body THEN body[field] ELSE otherwise

NewStore(body) ==
  [chain |-> body.chain, policyIds |-> {}, override |-> Given(body, "override", <<>>),
   storeRoster |-> Given(body, "storeRoster", {}), active |-> TRUE,
   storeCode |-> Given(body, "storeCode", None), createdAt |-> revision + 1]

UpdatedStore(store, body) ==
  [f \in DOMAIN store |->
     CASE f \in {"chain", "createdAt"} -> store[f]
       [] f = "storeCode" -> StoreCodeAfterUpdate(store.storeCode, Given(body, "storeCode", None))
       [] OTHER -> Given(body, f, store[f])]

\* Writes all of the stores, if their codes and assignments allow it, or none.
WriteStores(p, written) ==
  LET newStores == [s \in DOMAIN ideal.stores \cup DOMAIN written |->
                      IF s \in DOMAIN written THEN written[s] ELSE ideal.stores[s]]
      codes == SelectSeq([i \in 1..Cardinality(DOMAIN written) |->
                            written[Ascending(DOMAIN written)[i]].storeCode],
                         LAMBDA code : code # None)
  IN  /\ \A s \in DOMAIN written :
           /\ written[s].storeCode # Rejects
           /\ DetectAmbiguousAssignment(ideal.policies, Assigned(ideal, written[s])) = {}
      /\ CodesAreFree(newStores, DOMAIN written)
      /\ CommitIdeal(p, [ideal EXCEPT !.stores = newStores], DOMAIN written, codes)
      /\ reverseIndex' = BuildReverseIndex(ideal.chains, newStores)
      /\ codeIndex' = BuildCodeIndex(newStores)
      /\ Served

CreateStore(p, s, body) ==
  /\ s \notin DOMAIN ideal.stores
  /\ WriteStores(p, [t \in {s} |-> NewStore(body)])

UpdateStore(p, s, body) ==
  /\ s \in DOMAIN ideal.stores
  /\ WriteStores(p, [t \in {s} |-> UpdatedStore(ideal.stores[t], body)])

\* A new store of a batch may come with policies; what it says of activity is not read.
UpsertStores(p, bodies) ==
  /\ bodies # <<>>
  /\ WriteStores(p, [s \in DOMAIN bodies |->
                       IF s \in DOMAIN ideal.stores THEN UpdatedStore(ideal.stores[s], bodies[s])
                       ELSE [NewStore(bodies[s]) EXCEPT
                               !.policyIds = Given(bodies[s], "policyIds", {})]])

-----------------------------------------------------------------------------
(* Convergence: one projection after the other, of one reading of the ideal. *)
(* The residual, a list in the order of the stores, is a set, of which a run *)
(* takes the first.                                                          *)

RunConvergence(p) ==
  /\ At(p, "converge")
  /\ Goes(p, [procs[p] EXCEPT !.step = IF residual = {} THEN "converged" ELSE "push",
                              !.residual = residual, !.base = revision,
                              !.todo = SubSeq(Ascending(residual), 1,
                                             Min({MaxPushes, Cardinality(residual)}))])
  /\ UNCHANGED <<truth, convergence, keeping, alarm, replaying, stores, world, faults>>

Push(p) ==
  /\ At(p, "push")
  /\ IF procs[p].todo = <<>> THEN Goes(p, [procs[p] EXCEPT !.step = "converged"])
     ELSE Waits(p, [procs[p] EXCEPT !.step = "pushing"])
  /\ UNCHANGED <<truth, convergence, keeping, alarm, replaying, stores, world, faults>>

\* Mutant: the version is read anew for each push, the ideal is not.
MutIncoming(p) ==
  RecomposeProjection(history[procs[p].base], Head(procs[p].todo), revision)

\* The projection a push carries: of the ideal that the run read when it started.
Incoming(p) ==
  RecomposeProjection(history[procs[p].base], Head(procs[p].todo), procs[p].base)

Newer(s, pushed) ==
  IF s \in DOMAIN projection /\ pushed.version < projection[s].version THEN projection[s] ELSE pushed

\* The store's object takes the projection, unless it has a newer one; its answer may get lost.
ApplyProjection(p) ==
  LET s == Head(procs[p].todo)
      kept == Newer(s, Incoming(p))
  IN  /\ procs[p].step = "pushing"
      /\ projection' = With(projection, s, kept)
      /\ \/ /\ procs' = [procs EXCEPT ![p].step = "pushed", ![p].reply = kept.version]
            /\ UNCHANGED faults
         \/ Fault /\ procs' = [procs EXCEPT ![p].step = "pushed", ![p].reply = None]
      /\ UNCHANGED <<truth, convergence, keeping, alarm, running, replaying, counted, taken, world>>

\* The call does not reach the store.
PushFails(p) ==
  /\ procs[p].step = "pushing"
  /\ Fault /\ procs' = [procs EXCEPT ![p].step = "pushed", ![p].reply = None]
  /\ UNCHANGED <<truth, convergence, keeping, alarm, running, replaying, stores, world>>

\* Mutant: the version that was sent is entered, not the one the store echoed.
MutEchoed(p) == revision

Echoed(p) == procs[p].reply

\* What others wrote since the run read the residual, and its own write loses: a store it does
\* not know of, or one that changed after the run read the ideal.
Overwritten(q) == {s \in residual : s \notin q.residual \/ q.base < revision}

\* The ledger and what is left are put before the next push; when the second put fails the
\* run ends with what the storage held.
Pushed(p) ==
  LET q == procs[p]
      s == Head(q.todo)
      left == NextResidual(q.residual, s, q.reply # None)
  IN  /\ running = None /\ q.step = "pushed" /\ running' = p
      /\ ledger' = IF q.reply = None THEN ledger ELSE [ledger EXCEPT ![s] = Echoed(p)]
      /\ \/ /\ residual' = left
            /\ procs' = [procs EXCEPT ![p] = [q EXCEPT !.step = "push", !.reply = None,
                                                      !.residual = left, !.todo = Tail(@)]]
            /\ forgotten' = (forgotten \cup Overwritten(q)) \ left
            /\ UNCHANGED faults
         \/ /\ Fault /\ UNCHANGED <<residual, forgotten>>
            /\ procs' = [procs EXCEPT ![p] = [q EXCEPT !.step = "converged", !.reply = None,
                                                      !.failed = TRUE]]
      /\ UNCHANGED <<truth, keeping, alarm, replaying, stores, world>>

\* converge arms the alarm for what is left; the alarm's handler does so at its end.
Converged(p) ==
  LET q == procs[p]
  IN  /\ At(p, "converged")
      /\ Goes(p, [q EXCEPT !.step = "replay",
                           !.todo = <<>>,
                           !.codes = IF q.kind = "alarm" THEN replayResidual ELSE @,
                           !.replays = q.kind = "alarm" /\ replayResidual # <<>>])
      /\ alarm' = IF q.kind = "provision" /\ (q.failed \/ q.residual # {}) THEN ArmAlarm
                  ELSE alarm
      /\ UNCHANGED <<truth, convergence, keeping, replaying, stores, world, faults>>

-----------------------------------------------------------------------------
(* Held records.                                                           *)

SeqsOf(list) == {list[i].seq : i \in DOMAIN list}

\* Records of one code, in the order they came, are kept before anything is answered.
HoldUnrouted(p, c, records) ==
  LET arriving == [i \in DOMAIN records |-> [seq |-> records[i].seq, arrival |-> records[i].arrival,
                                             heldAt |-> now]]
      kept == RetainHeld(held[c], arriving, now)
  IN  /\ running = None /\ procs[p] = Idle
      /\ \/ /\ held' = [held EXCEPT ![c] = kept.retained]
            /\ dropped' = dropped \cup {<<c, n>> : n \in SeqsOf(held[c] \o arriving)
                                                         \ SeqsOf(kept.retained)}
            /\ IF StoreForCode(codeIndex, c) = None
               THEN Goes(p, [Idle EXCEPT !.kind = "hold", !.step = "done", !.answer = "held"])
               ELSE /\ procs' = [procs EXCEPT ![p] = [Idle EXCEPT !.kind = "hold",
                                                 !.step = "replay", !.codes = <<c>>,
                                                 !.answer = "held"]]
                    /\ running' = p
            /\ UNCHANGED <<faults, replayResidual>>
         \/ /\ Fault /\ UNCHANGED keeping
            /\ Goes(p, [Idle EXCEPT !.kind = "hold", !.step = "done", !.answer = "persist-failed"])
      /\ UNCHANGED <<truth, convergence, alarm, replaying, stores, world>>

\* The answer leaves; the request is over.
Answered(p) ==
  /\ procs[p].step = "done"
  /\ procs' = [procs EXCEPT ![p] = Idle]
  /\ UNCHANGED <<truth, convergence, keeping, alarm, running, replaying, stores, world, faults>>

\* One replay at a time for a code; whoever comes second leaves it to the first.
ReplayUnrouted(p) ==
  LET q == procs[p]
      c == Head(q.codes)
      skipped == c \in replaying \/ StoreForCode(codeIndex, c) = None
  IN  /\ At(p, "replay") /\ q.codes # <<>>
      /\ replaying' = IF skipped THEN replaying ELSE replaying \cup {c}
      /\ Goes(p, IF skipped THEN [q EXCEPT !.codes = Tail(@)] ELSE [q EXCEPT !.step = "drain"])
      /\ UNCHANGED <<truth, convergence, keeping, alarm, stores, world, faults>>

Replayable(c) == Filtered(held[c], {h \in Range(held[c]) : IsHeldReplayable(h, now)})

\* Mutant: as many as were sent are taken from the front.
MutRetainUnsent(c, sent) ==
  LET alive == Replayable(c) IN SubSeq(alive, Min({Len(sent), Len(alive)}) + 1, Len(alive))

\* What is still replayable and newer than the last that was sent.
RetainUnsent(c, sent) ==
  Filtered(Replayable(c), {h \in Range(held[c]) : \A n \in SeqsOf(sent) : h.seq > n})

\* The replay of this code is over, without being put off.
ReplayEnds(p, c) ==
  /\ replaying' = replaying \ {c}
  /\ Goes(p, [procs[p] EXCEPT !.step = "replay", !.codes = Tail(@), !.sent = <<>>])

DrainUnrouted(p) ==
  LET q == procs[p]
      c == Head(q.codes)
      sendable == Replayable(c)
  IN  /\ At(p, "drain")
      /\ IF sendable = <<>>
         THEN /\ held' = [held EXCEPT ![c] = <<>>]
              /\ dropped' = dropped \cup {<<c, n>> : n \in SeqsOf(held[c])}
              /\ ReplayEnds(p, c)
         ELSE /\ Waits(p, [q EXCEPT !.step = "sending", !.sent = sendable])
              /\ UNCHANGED <<held, dropped, replaying>>
      /\ UNCHANGED <<truth, convergence, replayResidual, alarm, stores, world, faults>>

\* What the object of store s says of records, and what it counts of them: those newer than
\* all it has counted so far (StoreTimerDO has the whole of it).
OutcomeAt(s) == CASE s \notin DOMAIN projection -> "unprovisioned"
                  [] s \in DOMAIN projection /\ ~projection[s].active -> "deactivated"
                  [] OTHER -> "settled"

Take(s, seqs) ==
  IF OutcomeAt(s) = "settled"
  THEN /\ taken' = [taken EXCEPT ![s] = @ \cup {n \in seqs : n > counted[s]}]
       /\ counted' = [counted EXCEPT ![s] = Max(seqs \cup {@})]
  ELSE UNCHANGED <<taken, counted>>

ReceiveRecords(p) ==
  LET q == procs[p]
      s == StoreForCode(codeIndex, Head(q.codes))
  IN  /\ q.step = "sending"
      /\ Take(s, SeqsOf(q.sent))
      /\ \/ /\ procs' = [procs EXCEPT ![p].step = "sent", ![p].reply = OutcomeAt(s)]
            /\ UNCHANGED faults
         \/ Fault /\ procs' = [procs EXCEPT ![p].step = "sent", ![p].reply = "failed"]
      /\ UNCHANGED <<truth, convergence, keeping, alarm, running, replaying, projection, world>>

\* The call does not reach the store, or its put fails.
SendFails(p) ==
  /\ procs[p].step = "sending"
  /\ Fault /\ procs' = [procs EXCEPT ![p].step = "sent", ![p].reply = "failed"]
  /\ UNCHANGED <<truth, convergence, keeping, alarm, running, replaying, stores, world>>

Defers(c) ==
  /\ replayResidual' = IF Contains(replayResidual, c) THEN replayResidual
                       ELSE Append(replayResidual, c)
  /\ alarm' = ArmAlarm

\* Put off: a request notes the code and arms the alarm, the alarm's handler keeps it.
PutOff(p, c) ==
  LET q == procs[p]
      on == [q EXCEPT !.step = "replay", !.codes = Tail(@), !.sent = <<>>, !.reply = None]
  IN  /\ replaying' = replaying \ {c}
      /\ running' = p
      /\ CASE q.kind = "alarm" ->
                /\ procs' = [procs EXCEPT ![p] = [on EXCEPT !.remaining = Append(@, c)]]
                /\ UNCHANGED <<replayResidual, alarm>>
           [] q.kind = "hold" ->
                /\ procs' = [procs EXCEPT ![p] = [on EXCEPT !.answer = "replay-deferred"]]
                /\ Defers(c)
           [] OTHER ->
                /\ procs' = [procs EXCEPT ![p] = on]
                /\ Defers(c)

Sent(p) ==
  LET q == procs[p]
      c == Head(q.codes)
      left == RetainUnsent(c, q.sent)
  IN  /\ running = None /\ q.step = "sent"
      /\ CASE q.reply = "settled" ->
                /\ held' = [held EXCEPT ![c] = left]
                /\ dropped' = dropped \cup {<<c, n>> : n \in SeqsOf(held[c]) \ SeqsOf(Replayable(c))}
                /\ procs' = [procs EXCEPT ![p] = [q EXCEPT !.step = "drain", !.sent = <<>>,
                                                           !.reply = None]]
                /\ running' = p
                /\ UNCHANGED <<replaying, replayResidual, alarm>>
           [] q.reply = "deactivated" ->
                /\ replaying' = replaying \ {c}
                /\ procs' = [procs EXCEPT ![p] = [q EXCEPT !.step = "replay", !.codes = Tail(@),
                                                           !.sent = <<>>, !.reply = None]]
                /\ running' = p
                /\ UNCHANGED <<held, dropped, replayResidual, alarm>>
           [] OTHER ->       \* unprovisioned, or failed
                PutOff(p, c) /\ UNCHANGED <<held, dropped>>
      /\ UNCHANGED <<truth, convergence, stores, world, faults>>

-----------------------------------------------------------------------------
(* The end of a handler, the alarm, and the platform.                      *)

FinishRequest(p) ==
  /\ At(p, "replay") /\ procs[p].kind # "alarm" /\ procs[p].codes = <<>>
  /\ running' = None
  /\ procs' = [procs EXCEPT ![p] = IF @.kind = "hold" THEN [@ EXCEPT !.step = "done"] ELSE Idle]
  /\ UNCHANGED <<truth, convergence, keeping, alarm, replaying, stores, world, faults>>

AlarmFires ==
  /\ running = None /\ alarm # None /\ procs[AlarmHandler] = Idle
  /\ procs' = [procs EXCEPT ![AlarmHandler] = [Idle EXCEPT !.kind = "alarm", !.step = "converge",
                                                           !.retry = alarm]]
  /\ running' = AlarmHandler
  /\ alarm' = None
  /\ UNCHANGED <<truth, convergence, keeping, replaying, stores, world, faults>>

\* The platform fires a handler that threw, or died, again, up to MaxRetries times.
Retried(q) == IF alarm # None THEN alarm ELSE IF q.retry < MaxRetries THEN q.retry + 1 ELSE None

AfterFailure(q) == IF q.retry >= RearmThreshold THEN ArmAlarm ELSE Retried(q)

\* Mutant: the alarm goes on for what is put off, not for stores that are left.
MutLeavesWork(q) == q.remaining # <<>>

LeavesWork(q) == q.residual # {} \/ q.remaining # <<>>

\* The handler writes back the codes it put off and arms the alarm for what is left; when its
\* convergence failed it throws instead, or arms a new alarm if few retries are left.
FinishAlarm ==
  LET q == procs[AlarmHandler]
  IN  /\ At(AlarmHandler, "replay") /\ q.kind = "alarm" /\ q.codes = <<>>
      /\ running' = None
      /\ procs' = [procs EXCEPT ![AlarmHandler] = Idle]
      /\ replayResidual' = IF q.replays THEN q.remaining ELSE replayResidual
      /\ alarm' = CASE q.failed -> AfterFailure(q)
                    [] ~q.failed /\ LeavesWork(q) -> ArmAlarm
                    [] OTHER -> alarm
      /\ UNCHANGED <<truth, convergence, held, dropped, replaying, stores, world, faults>>

Tick ==
  /\ running = None /\ now < MaxTime /\ now' = now + 1
  /\ UNCHANGED <<truth, convergence, keeping, alarm, procs, running, replaying, stores, faults, crashes>>

\* The object dies: memory is gone, an alarm that was being handled fires again.
Crash ==
  /\ crashes < MaxCrashes /\ crashes' = crashes + 1
  /\ \E p \in Procs : procs[p] # Idle
  /\ procs' = [p \in Procs |-> Idle] /\ running' = None /\ replaying' = {}
  /\ alarm' = IF procs[AlarmHandler] # Idle THEN Retried(procs[AlarmHandler]) ELSE alarm
  /\ UNCHANGED <<truth, convergence, keeping, stores, now, faults>>

\* The steps of a handler between its calls while it converges, and the store it calls.
Converges(p) ==
  \/ RunConvergence(p) \/ Push(p) \/ Pushed(p) \/ Converged(p)
  \/ ReplayUnrouted(p) \/ DrainUnrouted(p) \/ FinishRequest(p)

Replays(p) == ReceiveRecords(p) \/ SendFails(p) \/ Sent(p)

Provision(p) ==
  \/ \E c \in Chains, roster \in Rosters : CreateOrUpdateChain(p, c, roster)
  \/ \E id \in DOMAIN Policies : \E policy \in Policies[id] : CreateOrUpdatePolicy(p, id, policy)
  \/ \E s \in Stores : \/ \E body \in NewBodies : CreateStore(p, s, body)
                       \/ \E body \in Bodies : UpdateStore(p, s, body)
  \/ \E batch \in Batches : UpsertStores(p, batch)

\* As long as nobody holds records and the object does not die; PosIngress has the rest.
Next ==
  \/ AlarmFires \/ FinishAlarm
  \/ \E p \in Procs : Converges(p) \/ ApplyProjection(p) \/ PushFails(p)
  \/ \E p \in Requests : Provision(p)

Spec == Init /\ [][Next]_vars

-----------------------------------------------------------------------------
(* What the registry promises.                                             *)

Quiet == \A p \in Procs : procs[p] = Idle

\* runConvergence and applyProjection: a store never holds anything but the whole of some ideal
\* that was committed, under that ideal's own revision, however pushes overtake each other.
ProjectionsAreRecomposed ==
  \A s \in DOMAIN projection :
    projection[s] = RecomposeProjection(history[projection[s].version], s, projection[s].version)

\* runConvergence: the ledger never claims a revision that its store does not have yet.
LedgerIsHonest ==
  \A s \in Stores : ledger[s] > 0 =>
    s \in DOMAIN projection /\ ledger[s] <= projection[s].version

\* What a store holds is what every ideal since its revision makes of it.
UpToDate(s) ==
  s \in DOMAIN projection /\
  LET v == projection[s].version
  IN  \A n \in v..revision : RecomposeProjection(history[n], s, v) = RecomposeProjection(ideal, s, v)

Lagging == {s \in DOMAIN ideal.stores : ~UpToDate(s)}

\* affectedStores, nextResidual and commitIdeal: a store that lacks its newest projection is in
\* the stored residual, unless a write made in ignorance of it took it off; no failing call, lost
\* answer, failing put or late push of an older ideal does.
LaggingIsLeft == Lagging \subseteq residual \cup forgotten

\* storeCodeAfterUpdate and buildCodeIndex: no sequence of updates and batches moves a code that
\* POS records are addressed to away from its store.
CodesStayPut ==
  [][\A c \in DOMAIN codeIndex : StoreForCode(codeIndex', c) = codeIndex[c]]_vars

-----------------------------------------------------------------------------
(* Liveness: calls are answered, handlers run on, the platform fires alarms. *)

Fairness ==
  /\ \A p \in Procs : WF_vars(Converges(p)) /\ WF_vars(ApplyProjection(p))
  /\ WF_vars(AlarmFires) /\ WF_vars(FinishAlarm)

FairSpec == Spec /\ Fairness

\* converge and alarm: in spite of lost calls, failing puts, runs cut short by the limit and
\* changes that overlap, every store comes to hold its newest projection, unless another write
\* of the residual takes it off while it is left to push.
KnownStoresConverge == \A s \in Stores : <>[](s \in Lagging => s \in forgotten)

\* What runConvergence says of itself (at least once, and nothing is lost): every store comes
\* to hold its newest projection.
EveryStoreConverges == \A s \in Stores : <>[](s \notin Lagging)
=============================================================================
