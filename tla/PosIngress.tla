----------------------------- MODULE PosIngress -----------------------------
(***************************************************************************)
(* The way of POS records into the system: an upstream that sends the      *)
(* records of a store code one batch after the other and repeats a batch   *)
(* until it is answered 200, the worker (src/src/worker.ts, /pos/records)  *)
(* that delivers a batch to the store or has the registry hold it, and the *)
(* registry of StoreRegistryDO.                                            *)
(*                                                                         *)
(* A request that failed for one code is repeated while its calls for      *)
(* other codes may still be under way: they may reach the stores, but the  *)
(* request is over and does nothing with their answers.  Every worker is   *)
(* an isolate of its own with its own memory of codes already resolved.    *)
(***************************************************************************)
EXTENDS StoreRegistryDO

CONSTANTS
  Workers,
  MaxRecords,   \* records the upstream has for each code, of sequence numbers 1, 2, ...
  BatchSize,    \* POS_RECORDS_LIMIT bounds it; here records of one code in a request
  Arrival       \* when each record arrived at the stream

\* Records have arrived in the order of their sequence numbers.
ASSUME PosIngressAssumption ==
  /\ MaxRecords \in Nat /\ BatchSize \in Nat \ {0} /\ Arrival \in [1..MaxRecords -> Nat]
  /\ \A m, n \in 1..MaxRecords : m <= n => Arrival[m] <= Arrival[n]

VARIABLES
  sent,             \* upstream: the last record of each code in a request answered 200
  posts,            \* the request a worker serves
  resolvedStoreIds, \* the memory of each worker
  quarantine        \* storage of the registry: records that violate the upstream's contract

ingress == <<sent, posts, resolvedStoreIds, quarantine>>
allVars == <<vars, ingress>>
NoPost == [waiting |-> FALSE, thrown |-> FALSE, transient |-> FALSE,
           at |-> <<>>, upTo |-> <<>>, records |-> <<>>, raws |-> <<>>, store |-> <<>>, by |-> <<>>]

InitIngress ==
  /\ Init
  /\ sent = [c \in Codes |-> 0]
  /\ posts = [w \in Workers |-> NoPost]
  /\ resolvedStoreIds = [w \in Workers |-> <<>>]
  /\ quarantine = [c \in Codes |-> <<>>]

CodesOfPost(w) == DOMAIN posts[w].at

\* The phase of code c in the request of w.
Phase(w, c) == IF c \in CodesOfPost(w) THEN posts[w].at[c] ELSE "none"

Moves(w, c, phase) == posts' = [posts EXCEPT ![w].at[c] = phase]

\* A call that fails makes the request answer 500; calls made for other codes may still land.
Throws(w, c) == posts' = [posts EXCEPT ![w].at[c] = "over", ![w].thrown = TRUE,
                                           ![w].waiting = FALSE]

Record(n) == [seq |-> n, arrival |-> Arrival[n]]

\* toRecordOutcome and classifyRecords: outside the window a record is kept apart.
Deliverable(batch) ==
  Filtered(batch, {r \in Range(batch) : IsWithinArrivalWindow(r.arrival, now)})
Violations(batch) ==
  Filtered(batch, {r \in Range(batch) : ~IsWithinArrivalWindow(r.arrival, now)})

NextBatch(c, size) == [i \in 1..Min({size, MaxRecords - sent[c]}) |-> Record(sent[c] + i)]

\* The upstream sends what comes next of some codes it does not wait for; the worker sorts it.
Post(w, codes, size) ==
  /\ posts[w] = NoPost
  /\ \A c \in codes : /\ sent[c] < MaxRecords
                      /\ \A v \in Workers : ~(posts[v].waiting /\ c \in CodesOfPost(v))
  /\ posts' = [posts EXCEPT ![w] =
       [NoPost EXCEPT !.waiting = TRUE,
          !.upTo = [c \in codes |-> sent[c] + Len(NextBatch(c, size))],
          !.records = [c \in codes |-> Deliverable(NextBatch(c, size))],
          !.raws = [c \in codes |-> Violations(NextBatch(c, size))],
          !.at = [c \in codes |-> IF Deliverable(NextBatch(c, size)) = <<>> THEN "delivered"
                                  ELSE "resolve"],
          !.by = [c \in codes |-> None],
          !.store = [c \in codes |-> None]]]
  /\ UNCHANGED <<vars, sent, resolvedStoreIds, quarantine>>

\* Mutant: the registry answers although it still holds older records of the code.
MutResolveStoreCode(c) == StoreForCode(codeIndex, c)

ResolveStoreCode(c) == IF held[c] # <<>> THEN None ELSE StoreForCode(codeIndex, c)

\* resolveStoreId: from memory, else from the registry, which answers when its gate is open.
Resolve(w, c) ==
  /\ Phase(w, c) = "resolve" /\ ~posts[w].thrown
  /\ \/ /\ c \in DOMAIN resolvedStoreIds[w]
        /\ posts' = [posts EXCEPT ![w].at[c] = "deliver", ![w].store[c] = resolvedStoreIds[w][c]]
        /\ UNCHANGED resolvedStoreIds
     \/ /\ c \notin DOMAIN resolvedStoreIds[w] /\ running = None
        /\ LET s == ResolveStoreCode(c)
           IN  IF s = None THEN Moves(w, c, "unresolved") /\ UNCHANGED resolvedStoreIds
               ELSE /\ posts' = [posts EXCEPT ![w].at[c] = "deliver", ![w].store[c] = s]
                    /\ resolvedStoreIds' = [resolvedStoreIds EXCEPT ![w] = With(@, c, s)]
  /\ UNCHANGED <<vars, sent, quarantine>>

\* deliverRecords: the store takes the records, refuses them, or cannot; the call may fail.
Deliver(w, c) ==
  LET s == posts[w].store[c]
      seqs == SeqsOf(posts[w].records[c])
      outcome == OutcomeAt(s)
  IN  /\ Phase(w, c) = "deliver"
      /\ \/ /\ Take(s, seqs)
            /\ dropped' = IF outcome = "deactivated" THEN dropped \cup {<<c, n>> : n \in seqs}
                          ELSE dropped
            /\ posts' = [posts EXCEPT ![w].at[c] = "delivered",
                                      ![w].transient = @ \/ outcome = "unprovisioned"]
            /\ UNCHANGED faults
         \/ Fault /\ Take(s, seqs) /\ Throws(w, c) /\ UNCHANGED dropped
         \/ Fault /\ UNCHANGED <<taken, counted, dropped>> /\ Throws(w, c)
      /\ UNCHANGED <<truth, convergence, held, replayResidual, alarm, procs, running, replaying,
                     projection, world, sent, resolvedStoreIds, quarantine>>

Delivered(w) == /\ CodesOfPost(w) # {} /\ ~posts[w].thrown
                /\ \A c \in CodesOfPost(w) : Phase(w, c) \notin {"resolve", "deliver"}

\* Once every delivery is over the registry is asked to hold what has no store.
HoldUnresolved(w, c, p) ==
  /\ Delivered(w) /\ Phase(w, c) = "unresolved"
  /\ HoldUnrouted(p, c, posts[w].records[c])
  /\ posts' = [posts EXCEPT ![w].at[c] = "holding", ![w].by[c] = p]
  /\ UNCHANGED <<sent, resolvedStoreIds, quarantine>>

IsTransient(answer) == answer \in {"persist-failed", "replay-deferred"}

HoldAnswered(p) ==
  /\ Answered(p)
  /\ posts' = [w \in Workers |->
       [posts[w] EXCEPT
          !.at = [c \in CodesOfPost(w) |-> IF posts[w].by[c] = p /\ posts[w].at[c] = "holding"
                                           THEN "delivered" ELSE posts[w].at[c]],
          !.transient = @ \/ \E c \in CodesOfPost(w) : /\ posts[w].by[c] = p
                                                       /\ posts[w].at[c] = "holding"
                                                       /\ IsTransient(procs[p].answer)]]
  /\ UNCHANGED <<sent, resolvedStoreIds, quarantine>>

\* quarantineContractViolations: kept under the code, apart from what is held; never replayed.
QuarantineContractViolations(w, c) ==
  LET arriving == [i \in DOMAIN posts[w].raws[c] |->
                     [seq |-> posts[w].raws[c][i].seq, arrival |-> now, heldAt |-> now]]
      kept == RetainHeld(quarantine[c], arriving, now)
  IN  /\ Delivered(w) /\ c \in CodesOfPost(w) /\ posts[w].raws[c] # <<>> /\ running = None
      /\ \/ /\ quarantine' = [quarantine EXCEPT ![c] = kept.retained]
            /\ dropped' = dropped \cup {<<c, n>> : n \in SeqsOf(quarantine[c] \o arriving)
                                                         \ SeqsOf(kept.retained)}
            /\ posts' = [posts EXCEPT ![w].raws[c] = <<>>]
            /\ UNCHANGED faults
         \/ /\ Fault /\ UNCHANGED <<quarantine, dropped>>
            /\ posts' = [posts EXCEPT ![w].raws[c] = <<>>, ![w].transient = TRUE]
      /\ UNCHANGED <<truth, convergence, held, replayResidual, alarm, procs, running, replaying,
                     stores, world, sent, resolvedStoreIds>>

\* 500 if a call failed; else, when nothing is left to do, 503 or 200.
Respond(w) ==
  /\ CodesOfPost(w) # {}
  /\ \/ posts[w].thrown /\ UNCHANGED sent
     \/ /\ Delivered(w)
        /\ \A c \in CodesOfPost(w) : Phase(w, c) = "delivered" /\ posts[w].raws[c] = <<>>
        /\ IF posts[w].waiting /\ ~posts[w].transient
           THEN /\ sent' = [c \in Codes |-> IF c \in CodesOfPost(w) THEN posts[w].upTo[c]
                                            ELSE sent[c]]
           ELSE UNCHANGED sent
  /\ posts' = [posts EXCEPT ![w] = NoPost]
  /\ UNCHANGED <<vars, resolvedStoreIds, quarantine>>

\* The worker dies, with its request and its memory.
Evict(w) ==
  /\ Fault /\ posts[w] # NoPost
  /\ posts' = [posts EXCEPT ![w] = NoPost]
  /\ resolvedStoreIds' = [resolvedStoreIds EXCEPT ![w] = <<>>]
  /\ UNCHANGED <<truth, convergence, keeping, alarm, procs, running, replaying, stores, world,
                 sent, quarantine>>

\* The registry's object dies under the calls of workers.
CrashUnderCalls ==
  /\ Crash
  /\ posts' = [w \in Workers |->
                IF \E c \in CodesOfPost(w) : Phase(w, c) = "holding"
                THEN [posts[w] EXCEPT !.thrown = TRUE, !.waiting = FALSE] ELSE posts[w]]
  /\ UNCHANGED <<sent, resolvedStoreIds, quarantine>>

Registry ==
  \/ AlarmFires \/ FinishAlarm \/ Tick
  \/ \E p \in Procs : Converges(p) \/ ApplyProjection(p) \/ PushFails(p) \/ Replays(p)
  \/ \E p \in Requests : Provision(p)

Work(w) ==
  \/ \E c \in CodesOfPost(w) :
       \/ Resolve(w, c) \/ Deliver(w, c) \/ QuarantineContractViolations(w, c)
       \/ \E p \in Requests : HoldUnresolved(w, c, p)
  \/ Respond(w)

PostSomething ==
  \E w \in Workers, codes \in SUBSET Codes \ {{}}, size \in 1..BatchSize : Post(w, codes, size)

NextIngress ==
  \/ Registry /\ UNCHANGED ingress
  \/ CrashUnderCalls
  \/ \E p \in Requests : HoldAnswered(p)
  \/ PostSomething
  \/ \E w \in Workers : Work(w) \/ Evict(w)

SpecIngress == InitIngress /\ [][NextIngress]_allVars

-----------------------------------------------------------------------------
(* What the way in promises.                                               *)

TakenOf(c) == IF StoreForCode(codeIndex, c) = None THEN {} ELSE taken[StoreForCode(codeIndex, c)]
DroppedOf(c) == {d[2] : d \in {e \in dropped : e[1] = c}}

\* What the store took, what was let go, and what is kept apart.
Gone(c) == TakenOf(c) \cup DroppedOf(c) \cup SeqsOf(quarantine[c])

\* worker.ts answers 200 and drainUnrouted deletes: what the upstream will not send again is
\* held, or its store took it, or it was let go for its age, the limit of what is held, or a
\* store that is closed; crashes and lost answers lose none.
AcknowledgedIsKept ==
  \A c \in Codes : \A n \in 1..sent[c] : n \in SeqsOf(held[c]) \cup Gone(c)

\* resolveStoreCode: no record goes to the store past an older one that is held and may still
\* be replayed, which the store would then refuse as old.
NothingOvertakesHeld ==
  \A c \in Codes : \A h \in Range(held[c]) :
    IsHeldReplayable(h, now) /\ StoreForCode(codeIndex, c) # None =>
      h.seq \in Gone(c) \/ h.seq > counted[StoreForCode(codeIndex, c)]

=============================================================================
