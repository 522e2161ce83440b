--------------------------- MODULE RegistryProofs ---------------------------
(***************************************************************************)
(* Proofs about StoreRegistryDO and PosIngress, for any stores, codes,     *)
(* policies, workers, records, number of requests, pushes and faults.      *)
(*                                                                         *)
(* Convergence: a run composes from one reading of the ideal and may be    *)
(* overtaken by others; ConvergenceInv says that what it carries over its  *)
(* calls, the revision it read and the version a store echoed, stays true  *)
(* of the history and of the store.                                        *)
(*                                                                         *)
(* Codes: the index is the one of the ideal, and no code is held by two    *)
(* stores; then no request that is accepted can move one.                  *)
(*                                                                         *)
(* The way in: IngressInv says, wherever a record is, what is true of the  *)
(* older ones of its code: they are kept, or past, too old to be delivered *)
(* and brought by nobody whose answer counts.  Grows is what no step takes *)
(* back; from it each part follows for what a step leaves alone.           *)
(***************************************************************************)
EXTENDS PosIngress, FiniteSetTheorems, SequenceTheorems, WellFoundedInduction, TLAPS

-----------------------------------------------------------------------------
(* Convergence.                                                            *)

\* A run has read the ideal and is between its first push and its last.
Pushing(q) == q.step \in {"push", "pushing", "pushed"}

IsHandler(q) == DOMAIN q = DOMAIN Idle

HandlersOK == DOMAIN procs = Procs /\ \A p \in Procs : IsHandler(procs[p])

HistoryOK ==
  /\ revision \in Nat /\ history \in Seq(Range(history)) /\ Len(history) = revision
  /\ residual # {} => revision > 0

\* A run composes from a revision that was committed.
BasesOK == \A p \in Procs : Pushing(procs[p]) => procs[p].base \in 1..revision

\* What the store echoed is the version it was sent or a newer one, and it has that version, or
\* has left it behind for a newer one.
EchoesOK ==
  \A p \in Procs : procs[p].step = "pushed" /\ procs[p].reply # None =>
    /\ Head(procs[p].todo) \in DOMAIN projection
    /\ procs[p].reply \in Nat /\ procs[p].base <= procs[p].reply
    /\ procs[p].reply <= projection[Head(procs[p].todo)].version

VersionsOK == \A s \in DOMAIN projection : projection[s].version \in 1..revision

LedgerOK == ledger \in [Stores -> Nat]

ConvergenceInv ==
  /\ HandlersOK /\ HistoryOK /\ BasesOK /\ EchoesOK /\ VersionsOK /\ LedgerOK
  /\ ProjectionsAreRecomposed /\ LedgerIsHonest

convergenceVars == <<revision, history, residual, ledger, projection>>

LEMMA InitConvergenceInv == Init => ConvergenceInv
<1> SUFFICES ASSUME Init PROVE ConvergenceInv
  OBVIOUS
<1>1. HandlersOK
  BY DEF Init, HandlersOK, IsHandler
<1>2. HistoryOK
  <2>1. <<>> \in Seq(Range(<<>>)) /\ Len(<<>>) = 0
    BY EmptySeq
  <2> QED
    BY <2>1 DEF Init, HistoryOK
<1>3. \A p \in Procs : procs[p].step = "idle"
  BY DEF Init, Idle
<1>4. BasesOK /\ EchoesOK
  BY <1>3 DEF BasesOK, EchoesOK, Pushing
<1>5. DOMAIN projection = {}
  BY DEF Init
<1>6. LedgerOK /\ LedgerIsHonest
  BY DEF Init, LedgerOK, LedgerIsHonest
<1> QED
  BY <1>1, <1>2, <1>4, <1>5, <1>6 DEF ConvergenceInv, VersionsOK, ProjectionsAreRecomposed

\* A step that leaves the convergence alone and moves no process into or within a run of it.
LEMMA ElsewhereKeepsConvergence ==
  ASSUME ConvergenceInv, UNCHANGED convergenceVars, DOMAIN procs' = Procs,
         \A p \in Procs : \/ procs'[p] = procs[p]
                          \/ IsHandler(procs'[p]) /\ ~Pushing(procs'[p])
  PROVE  ConvergenceInv'
<1> USE DEF convergenceVars
<1>1. HandlersOK'
  BY DEF ConvergenceInv, HandlersOK, IsHandler
<1>2. HistoryOK' /\ VersionsOK' /\ LedgerOK'
  BY DEF ConvergenceInv, HistoryOK, VersionsOK, LedgerOK
<1>3. BasesOK' /\ EchoesOK'
  BY DEF ConvergenceInv, BasesOK, EchoesOK, Pushing
<1>4. ProjectionsAreRecomposed' /\ LedgerIsHonest'
  BY DEF ConvergenceInv, ProjectionsAreRecomposed, LedgerIsHonest
<1> QED
  BY <1>1, <1>2, <1>3, <1>4 DEF ConvergenceInv

\* The history with one more ideal: what was committed stays where it was.
LEMMA HistoryGrows ==
  ASSUME HistoryOK, NEW e, history' = Append(history, e)
  PROVE  /\ history' \in Seq(Range(history')) /\ Len(history') = Len(history) + 1
         /\ \A b \in 1..Len(history) : history'[b] = history[b]
<1> DEFINE S == Range(history) \cup {e}
<1>1. history \in Seq(S)
  BY SeqMonotonic DEF HistoryOK
<1> HIDE DEF S
<1>2. e \in S
  BY DEF S
<1>3. /\ history' \in Seq(S) /\ Len(history') = Len(history) + 1
      /\ \A b \in 1..Len(history) : history'[b] = history[b]
  BY <1>1, <1>2, AppendProperties
<1>4. history' \in Seq(Range(history'))
  BY <1>3, SeqOfRange DEF Range
<1> QED
  BY <1>3, <1>4

\* commitIdeal: the ideal changes under the runs that are under way.
LEMMA CommitKeepsConvergence ==
  ASSUME ConvergenceInv, NEW p \in Procs, NEW newIdeal, NEW affected, NEW codes,
         CommitIdeal(p, newIdeal, affected, codes), Served
  PROVE  ConvergenceInv'
<1> DEFINE q == [Idle EXCEPT !.kind = "provision", !.step = "converge", !.codes = codes]
<1>1. /\ revision' = revision + 1 /\ history' = Append(history, newIdeal)
      /\ procs' = [procs EXCEPT ![p] = q] /\ UNCHANGED <<ledger, projection>>
  BY DEF CommitIdeal, Served, stores
<1>2. IsHandler(q) /\ ~Pushing(q)
  BY DEF IsHandler, Pushing, Idle
<1> HIDE DEF q
<1>3. HandlersOK' /\ \A x \in Procs : procs'[x] = procs[x] \/ procs'[x] = q
  BY <1>1, <1>2 DEF ConvergenceInv, HandlersOK
<1>4. HistoryOK' /\ \A b \in 1..revision : history'[b] = history[b] /\ b \in 1..revision'
  BY <1>1, HistoryGrows DEF ConvergenceInv, HistoryOK
<1>5. BasesOK' /\ EchoesOK'
  BY <1>1, <1>2, <1>3, <1>4 DEF ConvergenceInv, BasesOK, EchoesOK, Pushing
<1>6. VersionsOK' /\ LedgerOK' /\ LedgerIsHonest'
  BY <1>1, <1>4 DEF ConvergenceInv, VersionsOK, LedgerOK, LedgerIsHonest
<1>7. ProjectionsAreRecomposed'
  BY <1>1, <1>4 DEF ConvergenceInv, VersionsOK, ProjectionsAreRecomposed
<1> QED
  BY <1>3, <1>4, <1>5, <1>6, <1>7 DEF ConvergenceInv

\* Every request that changes the ideal commits it and leaves the rest alone.
LEMMA ProvisionCommits ==
  ASSUME NEW p, Provision(p)
  PROVE  \E newIdeal, affected, codes : CommitIdeal(p, newIdeal, affected, codes) /\ Served
<1>1. ASSUME NEW written, WriteStores(p, written)
      PROVE  \E newIdeal, affected, codes : CommitIdeal(p, newIdeal, affected, codes) /\ Served
  BY <1>1, Zenon DEF WriteStores
<1>2. ASSUME NEW c \in Chains, NEW roster \in Rosters, CreateOrUpdateChain(p, c, roster)
      PROVE  \E newIdeal, affected, codes : CommitIdeal(p, newIdeal, affected, codes) /\ Served
  BY <1>2, Zenon DEF CreateOrUpdateChain
<1>3. ASSUME NEW id, NEW policy, CreateOrUpdatePolicy(p, id, policy)
      PROVE  \E newIdeal, affected, codes : CommitIdeal(p, newIdeal, affected, codes) /\ Served
  BY <1>3, Zenon DEF CreateOrUpdatePolicy
<1> QED
  BY <1>1, <1>2, <1>3, Zenon DEF Provision, CreateStore, UpdateStore, UpsertStores

LEMMA RunKeepsConvergence ==
  ASSUME ConvergenceInv, NEW p \in Procs, RunConvergence(p)
  PROVE  ConvergenceInv'
<1> DEFINE q == [procs[p] EXCEPT !.step = IF residual = {} THEN "converged" ELSE "push",
                               !.residual = residual, !.base = revision,
                               !.todo = SubSeq(Ascending(residual), 1, Min({MaxPushes, Cardinality(residual)}))]
<1>1. procs' = [procs EXCEPT ![p] = q] /\ UNCHANGED convergenceVars
  BY DEF RunConvergence, Goes, convergenceVars, truth, convergence, stores
<1>2. IsHandler(q) /\ q.step # "pushed" /\ (Pushing(q) => residual # {} /\ q.base = revision)
  BY DEF ConvergenceInv, HandlersOK, IsHandler, Idle, Pushing
<1> HIDE DEF q
<1>3. HandlersOK' /\ \A x \in Procs : procs'[x] = IF x = p THEN q ELSE procs[x]
  BY <1>1, <1>2 DEF ConvergenceInv, HandlersOK
<1>4. HistoryOK' /\ VersionsOK' /\ LedgerOK' /\ ProjectionsAreRecomposed' /\ LedgerIsHonest'
  BY <1>1 DEF ConvergenceInv, convergenceVars, HistoryOK, VersionsOK, LedgerOK,
              ProjectionsAreRecomposed, LedgerIsHonest
<1>5. BasesOK'
  BY <1>1, <1>2, <1>3 DEF ConvergenceInv, convergenceVars, HistoryOK, BasesOK
<1>6. EchoesOK'
  BY <1>1, <1>2, <1>3 DEF ConvergenceInv, convergenceVars, EchoesOK
<1> QED
  BY <1>3, <1>4, <1>5, <1>6 DEF ConvergenceInv

\* A run goes on without having pushed anything.
LEMMA GoesOnKeepsConvergence ==
  ASSUME ConvergenceInv, NEW p \in Procs, NEW q, IsHandler(q), procs' = [procs EXCEPT ![p] = q],
         UNCHANGED convergenceVars,
         Pushing(q) => Pushing(procs[p]) /\ q.base = procs[p].base,
         q.step = "pushed" => q.reply = None
  PROVE  ConvergenceInv'
<1>3. HandlersOK' /\ \A x \in Procs : procs'[x] = IF x = p THEN q ELSE procs[x]
  BY DEF ConvergenceInv, HandlersOK
<1>4. HistoryOK' /\ VersionsOK' /\ LedgerOK' /\ ProjectionsAreRecomposed' /\ LedgerIsHonest'
  BY DEF ConvergenceInv, convergenceVars, HistoryOK, VersionsOK, LedgerOK,
         ProjectionsAreRecomposed, LedgerIsHonest
<1>5. BasesOK'
  BY <1>3 DEF ConvergenceInv, convergenceVars, BasesOK
<1>6. EchoesOK'
  BY <1>3 DEF ConvergenceInv, convergenceVars, EchoesOK
<1> QED
  BY <1>3, <1>4, <1>5, <1>6 DEF ConvergenceInv

LEMMA PushKeepsConvergence ==
  ASSUME ConvergenceInv, NEW p \in Procs, Push(p) \/ PushFails(p)
  PROVE  ConvergenceInv'
<1>1. UNCHANGED convergenceVars
  BY DEF Push, PushFails, convergenceVars, truth, convergence, stores
<1>2. IsHandler(procs[p])
  BY DEF ConvergenceInv, HandlersOK
<1>3. PICK q : /\ procs' = [procs EXCEPT ![p] = q] /\ IsHandler(q)
               /\ Pushing(q) => Pushing(procs[p]) /\ q.base = procs[p].base
               /\ q.step = "pushed" => q.reply = None
  <2>1. CASE Push(p) /\ procs[p].todo = <<>>
    <3> DEFINE q == [procs[p] EXCEPT !.step = "converged"]
    <3>1. procs' = [procs EXCEPT ![p] = q] /\ IsHandler(q) /\ ~Pushing(q) /\ q.step # "pushed"
      BY <2>1, <1>2 DEF Push, Goes, IsHandler, Idle, Pushing
    <3> QED BY <3>1
  <2>2. CASE Push(p) /\ procs[p].todo # <<>>
    <3> DEFINE q == [procs[p] EXCEPT !.step = "pushing"]
    <3>1. /\ procs' = [procs EXCEPT ![p] = q] /\ IsHandler(q) /\ q.step # "pushed"
          /\ Pushing(procs[p]) /\ q.base = procs[p].base
      BY <2>2, <1>2 DEF Push, At, Waits, IsHandler, Idle, Pushing
    <3> QED BY <3>1
  <2>3. CASE PushFails(p)
    <3> DEFINE q == [procs[p] EXCEPT !.step = "pushed", !.reply = None]
    <3>1. /\ procs' = [procs EXCEPT ![p] = q] /\ IsHandler(q)
          /\ Pushing(procs[p]) /\ q.base = procs[p].base /\ q.reply = None
      BY <2>3, <1>2 DEF PushFails, IsHandler, Idle, Pushing
    <3> QED BY <3>1
  <2> QED BY <2>1, <2>2, <2>3
<1> QED
  BY <1>1, <1>3, GoesOnKeepsConvergence

\* applyProjection: the store keeps the newer of what it has and what came.
LEMMA AppliedIsNewer ==
  ASSUME ConvergenceInv, NEW p \in Procs, ApplyProjection(p)
  PROVE  LET s == Head(procs[p].todo)
             kept == Newer(s, Incoming(p))
         IN  /\ procs[p].step = "pushing" /\ procs[p].base \in 1..revision
             /\ UNCHANGED <<revision, history, residual, ledger>>
             /\ kept.version \in 1..revision /\ procs[p].base <= kept.version
             /\ kept = RecomposeProjection(history[kept.version], s, kept.version)
             /\ s \in DOMAIN projection => projection[s].version <= kept.version
             /\ DOMAIN projection' = DOMAIN projection \cup {s}
             /\ \A t \in DOMAIN projection' :
                  projection'[t] = IF t = s THEN kept ELSE projection[t]
<1> DEFINE s == Head(procs[p].todo)
           kept == Newer(s, Incoming(p))
<1>1. /\ procs[p].step = "pushing" /\ projection' = With(projection, s, kept)
      /\ UNCHANGED <<revision, history, residual, ledger>>
  BY DEF ApplyProjection, truth, convergence
<1>2. procs[p].base \in 1..revision
  BY <1>1 DEF ConvergenceInv, BasesOK, Pushing
<1>3. Incoming(p).version = procs[p].base
  BY DEF Incoming, RecomposeProjection
<1>4. /\ kept.version \in 1..revision /\ procs[p].base <= kept.version
      /\ kept = RecomposeProjection(history[kept.version], s, kept.version)
      /\ s \in DOMAIN projection => projection[s].version <= kept.version
  <2>1. CASE s \in DOMAIN projection /\ Incoming(p).version < projection[s].version
    <3>1. kept = projection[s]
      BY <2>1 DEF Newer
    <3> QED
      BY <2>1, <3>1, <1>2, <1>3 DEF ConvergenceInv, VersionsOK, ProjectionsAreRecomposed, HistoryOK
  <2>2. CASE ~(s \in DOMAIN projection /\ Incoming(p).version < projection[s].version)
    <3>1. kept = Incoming(p)
      BY <2>2, Zenon DEF Newer
    <3> HIDE DEF kept
    <3>2. kept.version = procs[p].base
      BY <3>1, <1>3
    <3>3. kept = RecomposeProjection(history[kept.version], s, kept.version)
      BY <3>1, <3>2 DEF Incoming
    <3>4. s \in DOMAIN projection => projection[s].version <= kept.version
      BY <2>2, <3>2, <1>2, <1>3 DEF ConvergenceInv, VersionsOK, HistoryOK
    <3> QED
      BY <3>2, <3>3, <3>4, <1>2 DEF ConvergenceInv, HistoryOK
  <2> QED
    BY <2>1, <2>2
<1> HIDE DEF kept, s
<1>5. /\ DOMAIN projection' = DOMAIN projection \cup {s}
      /\ \A t \in DOMAIN projection' : projection'[t] = IF t = s THEN kept ELSE projection[t]
  BY <1>1 DEF With
<1> QED
  BY <1>1, <1>2, <1>4, <1>5 DEF kept, s

LEMMA ApplyKeepsConvergence ==
  ASSUME ConvergenceInv, NEW p \in Procs, ApplyProjection(p)
  PROVE  ConvergenceInv'
<1> DEFINE s == Head(procs[p].todo)
           kept == Newer(s, Incoming(p))
<1>1. procs[p].step = "pushing" /\ UNCHANGED <<revision, history, residual, ledger>>
  BY AppliedIsNewer
<1>2. procs[p].base \in 1..revision
  BY AppliedIsNewer
<1>4. /\ kept.version \in 1..revision /\ procs[p].base <= kept.version
      /\ kept = RecomposeProjection(history[kept.version], s, kept.version)
      /\ s \in DOMAIN projection => projection[s].version <= kept.version
  BY AppliedIsNewer
<1>5. /\ DOMAIN projection' = DOMAIN projection \cup {s}
      /\ \A t \in DOMAIN projection' : projection'[t] = IF t = s THEN kept ELSE projection[t]
  BY AppliedIsNewer
<1> HIDE DEF kept, s
<1>6. PICK r \in {None, kept.version} :
        procs' = [procs EXCEPT ![p].step = "pushed", ![p].reply = r]
  BY Zenon DEF ApplyProjection, kept, s
<1>7. HandlersOK' /\ procs'[p].step = "pushed" /\ procs'[p].reply = r
      /\ procs'[p].base = procs[p].base /\ procs'[p].todo = procs[p].todo
      /\ \A x \in Procs \ {p} : procs'[x] = procs[x]
  BY <1>6 DEF ConvergenceInv, HandlersOK, IsHandler, Idle
<1>8. HistoryOK' /\ LedgerOK'
  BY <1>1 DEF ConvergenceInv, HistoryOK, LedgerOK
<1>9. BasesOK'
  BY <1>1, <1>2, <1>7 DEF ConvergenceInv, BasesOK, Pushing
<1>10. \A t \in DOMAIN projection : /\ t \in DOMAIN projection'
                                    /\ projection'[t].version \in Nat
                                    /\ projection[t].version <= projection'[t].version
  BY <1>4, <1>5 DEF ConvergenceInv, VersionsOK, HistoryOK
<1>11. EchoesOK'
  <2> SUFFICES ASSUME NEW x \in Procs, procs'[x].step = "pushed", procs'[x].reply # None
               PROVE  /\ Head(procs'[x].todo) \in DOMAIN projection'
                      /\ procs'[x].reply \in Nat /\ procs'[x].base <= procs'[x].reply
                      /\ procs'[x].reply <= projection'[Head(procs'[x].todo)].version
    BY DEF EchoesOK
  <2>1. CASE x = p
    BY <2>1, <1>4, <1>5, <1>6, <1>7 DEF s
  <2>2. CASE x # p
    <3>1. /\ Head(procs[x].todo) \in DOMAIN projection
          /\ procs[x].reply \in Nat /\ procs[x].base <= procs[x].reply
          /\ procs[x].reply <= projection[Head(procs[x].todo)].version
          /\ procs'[x] = procs[x]
      BY <2>2, <1>7 DEF ConvergenceInv, EchoesOK
    <3>2. projection[Head(procs[x].todo)].version \in Nat
      BY <3>1 DEF ConvergenceInv, VersionsOK
    <3> QED
      BY <3>1, <3>2, <1>10
  <2> QED
    BY <2>1, <2>2
<1>12. VersionsOK'
  BY <1>1, <1>4, <1>5 DEF ConvergenceInv, VersionsOK
<1>13. ProjectionsAreRecomposed'
  BY <1>1, <1>4, <1>5 DEF ConvergenceInv, ProjectionsAreRecomposed
<1>14. LedgerIsHonest'
  <2> SUFFICES ASSUME NEW t \in Stores, ledger[t] > 0
               PROVE  t \in DOMAIN projection' /\ ledger[t] <= projection'[t].version
    BY <1>1 DEF LedgerIsHonest
  <2>1. t \in DOMAIN projection /\ ledger[t] <= projection[t].version /\ ledger[t] \in Nat
    BY DEF ConvergenceInv, LedgerIsHonest, LedgerOK
  <2>2. projection[t].version \in Nat
    BY <2>1 DEF ConvergenceInv, VersionsOK
  <2> QED
    BY <2>1, <2>2, <1>10
<1> QED
  BY <1>7, <1>8, <1>9, <1>11, <1>12, <1>13, <1>14 DEF ConvergenceInv

\* The ledger takes over what the store echoed, whether or not the residual can be put.
LEMMA PushedKeepsConvergence ==
  ASSUME ConvergenceInv, NEW p \in Procs, Pushed(p)
  PROVE  ConvergenceInv'
<1> DEFINE s == Head(procs[p].todo)
<1>1. /\ procs[p].step = "pushed" /\ UNCHANGED <<revision, history, projection>>
      /\ ledger' = IF procs[p].reply = None THEN ledger
                   ELSE [ledger EXCEPT ![s] = procs[p].reply]
  BY DEF Pushed, Echoed, truth, stores
<1>2. procs[p].base \in 1..revision
  BY <1>1 DEF ConvergenceInv, BasesOK, Pushing
<1>3. PICK q : /\ procs' = [procs EXCEPT ![p] = q] /\ IsHandler(q) /\ q.step # "pushed"
               /\ Pushing(q) => q.base = procs[p].base
  <2> DEFINE left == NextResidual(procs[p].residual, s, procs[p].reply # None)
             on == [procs[p] EXCEPT !.step = "push", !.reply = None, !.residual = left,
                                    !.todo = Tail(@)]
             over == [procs[p] EXCEPT !.step = "converged", !.reply = None, !.failed = TRUE]
  <2>1. procs' = [procs EXCEPT ![p] = on] \/ procs' = [procs EXCEPT ![p] = over]
    BY Zenon DEF Pushed
  <2>2. IsHandler(procs[p])
    BY DEF ConvergenceInv, HandlersOK
  <2>3. IsHandler(on) /\ on.step # "pushed" /\ on.base = procs[p].base
    BY <2>2 DEF IsHandler, Idle
  <2>4. IsHandler(over) /\ over.step # "pushed" /\ ~Pushing(over)
    BY <2>2 DEF IsHandler, Idle, Pushing
  <2> HIDE DEF on, over
  <2> QED
    BY <2>1, <2>3, <2>4
<1>4. HandlersOK' /\ \A x \in Procs : procs'[x] = IF x = p THEN q ELSE procs[x]
  BY <1>3 DEF ConvergenceInv, HandlersOK
<1>5. HistoryOK' /\ VersionsOK' /\ ProjectionsAreRecomposed'
  BY <1>1, <1>2 DEF ConvergenceInv, HistoryOK, VersionsOK, ProjectionsAreRecomposed
<1>6. BasesOK'
  BY <1>1, <1>2, <1>3, <1>4 DEF ConvergenceInv, BasesOK
<1>7. EchoesOK'
  BY <1>1, <1>3, <1>4 DEF ConvergenceInv, EchoesOK
<1>8. LedgerOK' /\ LedgerIsHonest'
  <2>1. CASE procs[p].reply = None
    BY <2>1, <1>1 DEF ConvergenceInv, LedgerOK, LedgerIsHonest
  <2>2. CASE procs[p].reply # None
    <3>1. /\ s \in DOMAIN projection /\ procs[p].reply \in Nat
          /\ procs[p].reply <= projection[s].version
      BY <2>2, <1>1 DEF ConvergenceInv, EchoesOK
    <3> HIDE DEF s
    <3> QED
      BY <2>2, <3>1, <1>1 DEF ConvergenceInv, LedgerOK, LedgerIsHonest
  <2> QED
    BY <2>1, <2>2
<1> QED
  BY <1>4, <1>5, <1>6, <1>7, <1>8 DEF ConvergenceInv

\* The steps that only move what a handler carries, outside of a run.
LEMMA ReplayKeepsConvergence ==
  ASSUME ConvergenceInv, NEW p \in Procs,
         \/ Converged(p) \/ ReplayUnrouted(p) \/ DrainUnrouted(p) \/ FinishRequest(p)
         \/ Replays(p) \/ Answered(p)
         \/ \E c, records : HoldUnrouted(p, c, records)
  PROVE  ConvergenceInv'
<1>1. UNCHANGED convergenceVars
  <2> USE DEF convergenceVars, truth, convergence, stores
  <2>1. CASE Converged(p) \/ ReplayUnrouted(p) \/ DrainUnrouted(p) \/ FinishRequest(p) \/ Answered(p)
    BY <2>1, Zenon DEF Converged, ReplayUnrouted, DrainUnrouted, FinishRequest, Answered
  <2>2. CASE Replays(p) \/ \E c, records : HoldUnrouted(p, c, records)
    BY <2>2, Zenon DEF Replays, ReceiveRecords, SendFails, Sent, HoldUnrouted
  <2> QED
    BY <2>1, <2>2
<1> DEFINE q == procs[p]
<1>2. IsHandler(q) /\ IsHandler(Idle)
  BY DEF ConvergenceInv, HandlersOK, IsHandler
<1>3. /\ DOMAIN procs' = Procs /\ \A x \in Procs \ {p} : procs'[x] = procs[x]
      /\ IsHandler(procs'[p]) /\ ~Pushing(procs'[p])
  <2> USE DEF IsHandler, Pushing
  <2>0. DOMAIN procs = Procs
    BY DEF ConvergenceInv, HandlersOK
  <2>1. CASE Converged(p)
    <3> DEFINE r == [q EXCEPT !.step = "replay", !.todo = <<>>,
                              !.codes = IF q.kind = "alarm" THEN replayResidual ELSE @,
                              !.replays = q.kind = "alarm" /\ replayResidual # <<>>]
    <3>1. procs' = [procs EXCEPT ![p] = r]
      BY <2>1, Zenon DEF Converged, Goes
    <3>2. DOMAIN r = DOMAIN Idle
      BY <1>2, Zenon
    <3>3. r.step = "replay"
      BY <1>2 DEF Idle
    <3> HIDE DEF r
    <3> QED BY <3>1, <3>2, <3>3, <2>0
  <2>2. CASE ReplayUnrouted(p)
    BY <2>2, <2>0, <1>2 DEF ReplayUnrouted, At, Goes, Idle
  <2>3. CASE DrainUnrouted(p)
    <3> DEFINE over == [q EXCEPT !.step = "replay", !.codes = Tail(@), !.sent = <<>>]
               sending == [q EXCEPT !.step = "sending", !.sent = Replayable(Head(q.codes))]
    <3>1. procs' = [procs EXCEPT ![p] = over] \/ procs' = [procs EXCEPT ![p] = sending]
      BY <2>3, Zenon DEF DrainUnrouted, ReplayEnds, Goes, Waits
    <3>2. /\ DOMAIN over = DOMAIN Idle /\ over.step = "replay"
          /\ DOMAIN sending = DOMAIN Idle /\ sending.step = "sending"
      BY <1>2 DEF Idle
    <3> HIDE DEF over, sending
    <3> QED BY <3>1, <3>2, <2>0
  <2>4. CASE FinishRequest(p)
    BY <2>4, <2>0, <1>2 DEF FinishRequest, At, Idle
  <2>5. CASE ReceiveRecords(p) \/ SendFails(p)
    <3>1. PICK r : procs' = [procs EXCEPT ![p].step = "sent", ![p].reply = r]
      BY <2>5, Zenon DEF ReceiveRecords, SendFails
    <3> QED BY <3>1, <2>0, <1>2 DEF Idle
  <2>8. CASE Sent(p)
    <3>1. CASE q.reply = "settled"
      <4>1. procs' = [procs EXCEPT ![p] = [q EXCEPT !.step = "drain", !.sent = <<>>,
                                                    !.reply = None]]
        BY <2>8, <3>1, Zenon DEF Sent
      <4> QED BY <4>1, <2>0, <1>2 DEF Idle
    <3>2. CASE q.reply # "settled"
      <4> DEFINE on == [q EXCEPT !.step = "replay", !.codes = Tail(@), !.sent = <<>>,
                                 !.reply = None]
      <4>1. \/ procs' = [procs EXCEPT ![p] = on]
            \/ procs' = [procs EXCEPT ![p] = [on EXCEPT !.remaining = Append(@, Head(q.codes))]]
            \/ procs' = [procs EXCEPT ![p] = [on EXCEPT !.answer = "replay-deferred"]]
        BY <2>8, <3>2 DEF Sent, PutOff
      <4>2. DOMAIN on = DOMAIN Idle /\ on.step = "replay"
        BY <1>2 DEF Idle
      <4> HIDE DEF on
      <4> QED BY <4>1, <4>2, <2>0 DEF Idle
    <3> QED BY <3>1, <3>2
  <2>6. CASE Answered(p)
    BY <2>6, <2>0, <1>2 DEF Answered, Idle
  <2>7. CASE \E c, records : HoldUnrouted(p, c, records)
    <3>1. PICK c, records : HoldUnrouted(p, c, records)
      BY <2>7
    <3> DEFINE done(answer) == [Idle EXCEPT !.kind = "hold", !.step = "done", !.answer = answer]
               replay == [Idle EXCEPT !.kind = "hold", !.step = "replay", !.codes = <<c>>,
                                      !.answer = "held"]
    <3>2. PICK r \in {done("held"), done("persist-failed"), replay} :
            procs' = [procs EXCEPT ![p] = r]
      BY <3>1, Zenon DEF HoldUnrouted, Goes
    <3>3. DOMAIN r = DOMAIN Idle /\ r.step \in {"done", "replay"}
      BY <3>2 DEF Idle
    <3> QED BY <3>2, <3>3, <2>0
  <2> QED
    BY <2>1, <2>2, <2>3, <2>4, <2>5, <2>6, <2>7, <2>8 DEF Replays
<1> QED
  BY <1>1, <1>3, ElsewhereKeepsConvergence

LEMMA AlarmKeepsConvergence ==
  ASSUME ConvergenceInv, AlarmFires \/ FinishAlarm
  PROVE  ConvergenceInv'
<1>1. UNCHANGED convergenceVars
  BY DEF AlarmFires, FinishAlarm, convergenceVars, truth, convergence, stores
<1>2. PICK r : procs' = [procs EXCEPT ![AlarmHandler] = r] /\ IsHandler(r) /\ ~Pushing(r)
  <2> DEFINE firing == [Idle EXCEPT !.kind = "alarm", !.step = "converge", !.retry = alarm]
  <2>1. \/ procs' = [procs EXCEPT ![AlarmHandler] = firing]
        \/ procs' = [procs EXCEPT ![AlarmHandler] = Idle]
    BY Zenon DEF AlarmFires, FinishAlarm
  <2>2. IsHandler(firing) /\ ~Pushing(firing) /\ IsHandler(Idle) /\ ~Pushing(Idle)
    BY DEF IsHandler, Pushing, Idle
  <2> QED
    BY <2>1, <2>2
<1>3. DOMAIN procs' = Procs /\ \A x \in Procs : procs'[x] = procs[x] \/ procs'[x] = r
  BY <1>2 DEF ConvergenceInv, HandlersOK
<1> QED
  BY <1>1, <1>2, <1>3, ElsewhereKeepsConvergence

LEMMA NextKeepsConvergence == ConvergenceInv /\ [Next]_vars => ConvergenceInv'
<1> SUFFICES ASSUME ConvergenceInv, [Next]_vars
             PROVE  ConvergenceInv'
  OBVIOUS
<1> USE DEF Procs
<1>1. CASE AlarmFires \/ FinishAlarm
  BY <1>1, AlarmKeepsConvergence
<1>2. ASSUME NEW p \in Procs, Converges(p)
      PROVE  ConvergenceInv'
  BY <1>2, RunKeepsConvergence, PushKeepsConvergence, PushedKeepsConvergence,
     ReplayKeepsConvergence DEF Converges
<1>3. ASSUME NEW p \in Procs, ApplyProjection(p) \/ PushFails(p)
      PROVE  ConvergenceInv'
  BY <1>3, ApplyKeepsConvergence, PushKeepsConvergence
<1>4. ASSUME NEW p \in Requests, Provision(p)
      PROVE  ConvergenceInv'
  BY <1>4, ProvisionCommits, CommitKeepsConvergence
<1>5. CASE UNCHANGED vars
  <2>1. UNCHANGED convergenceVars /\ UNCHANGED procs
    BY <1>5 DEF vars, convergenceVars, truth, convergence, stores
  <2> QED
    BY <2>1, ElsewhereKeepsConvergence DEF ConvergenceInv, HandlersOK
<1> QED
  BY <1>1, <1>2, <1>3, <1>4, <1>5 DEF Next

\* runConvergence, applyProjection: a store never holds a mixture of two ideals, nor an ideal
\* under a revision that is not its own, whatever runs overlap.
THEOREM ProjectionsAreRecomposedHolds == Spec => []ProjectionsAreRecomposed
<1>1. ConvergenceInv => ProjectionsAreRecomposed
  BY DEF ConvergenceInv
<1> QED
  BY <1>1, InitConvergenceInv, NextKeepsConvergence, PTL DEF Spec

\* runConvergence: what the ledger says of a store, that store has, or has something newer.
THEOREM LedgerIsHonestHolds == Spec => []LedgerIsHonest
<1>1. ConvergenceInv => LedgerIsHonest
  BY DEF ConvergenceInv
<1> QED
  BY <1>1, InitConvergenceInv, NextKeepsConvergence, PTL DEF Spec

-----------------------------------------------------------------------------
(* Codes.                                                                  *)

OneHolderPerCode(table) ==
  \A s, t \in DOMAIN table :
    table[s].storeCode = table[t].storeCode /\ table[s].storeCode # None => s = t

CodesInv ==
  /\ DOMAIN ideal = DOMAIN EmptyIdeal
  /\ IsFiniteSet(DOMAIN ideal.stores)
  /\ \A s \in DOMAIN ideal.stores : "storeCode" \in DOMAIN ideal.stores[s]
  /\ OneHolderPerCode(ideal.stores)
  /\ codeIndex = BuildCodeIndex(ideal.stores)

\* detectDuplicateStoreCodes finds a code that two stores hold.
LEMMA DuplicatesAreDetected ==
  ASSUME NEW table, IsFiniteSet(DOMAIN table), NEW s \in DOMAIN table, NEW t \in DOMAIN table,
         s # t, table[s].storeCode = table[t].storeCode, table[s].storeCode # None
  PROVE  table[s].storeCode \in DetectDuplicateStoreCodes(table)
<1> DEFINE code == table[s].storeCode
           H == HoldersOf(table, code)
<1>1. s \in H /\ t \in H /\ IsFiniteSet(H)
  BY FS_Subset DEF HoldersOf
<1>2. code \in CodesOf(table)
  BY DEF CodesOf
<1> HIDE DEF H, code
<1>3. Cardinality(H) \in Nat /\ Cardinality(H) # 0 /\ Cardinality(H) # 1
  BY <1>1, FS_CardinalityType, FS_EmptySet, FS_Singleton
<1>4. Cardinality(H) >= 2
  BY <1>3
<1> QED
  BY <1>2, <1>4 DEF DetectDuplicateStoreCodes, H, code

\* buildCodeIndex gives a code that one store holds to that store.
LEMMA TheHolderIsIndexed ==
  ASSUME NEW table, OneHolderPerCode(table),
         NEW s \in DOMAIN table, table[s].storeCode # None
  PROVE  StoreForCode(BuildCodeIndex(table), table[s].storeCode) = s
<1> DEFINE code == table[s].storeCode
<1>1. HoldersOf(table, code) = {s}
  BY DEF HoldersOf, OneHolderPerCode
<1>2. code \in CodesOf(table)
  BY DEF CodesOf
<1> HIDE DEF code
<1>3. BuildCodeIndex(table)[code] =
        CHOOSE h \in {s} : \A t \in {s} \ {h} : CreatedBefore(table, h, t)
  BY <1>1, <1>2 DEF BuildCodeIndex
<1>4. BuildCodeIndex(table)[code] = s
  BY <1>3
<1> QED
  BY <1>2, <1>4 DEF StoreForCode, BuildCodeIndex, code

\* What a request may write over the stores there are: a code that a store has, it keeps.
KeepsCodes(written) ==
  /\ IsFiniteSet(DOMAIN written)
  /\ \A s \in DOMAIN written : "storeCode" \in DOMAIN written[s]
  /\ \A s \in DOMAIN written \cap DOMAIN ideal.stores :
       written[s].storeCode # Rejects =>
         ideal.stores[s].storeCode \in {None, written[s].storeCode}

CodesStay == \A c \in DOMAIN codeIndex : StoreForCode(codeIndex', c) = codeIndex[c]

LEMMA WriteKeepsCodes ==
  ASSUME CodesInv, NEW p, NEW written, KeepsCodes(written), WriteStores(p, written)
  PROVE  CodesInv' /\ CodesStay
<1> DEFINE new == [s \in DOMAIN ideal.stores \cup DOMAIN written |->
                     IF s \in DOMAIN written THEN written[s] ELSE ideal.stores[s]]
<1>1. /\ \A s \in DOMAIN written : written[s].storeCode # Rejects
      /\ CodesAreFree(new, DOMAIN written)
      /\ ideal' = [ideal EXCEPT !.stores = new]
      /\ codeIndex' = BuildCodeIndex(new)
  BY Zenon DEF WriteStores, CommitIdeal
<1>2. /\ DOMAIN ideal' = DOMAIN ideal /\ ideal'.stores = new
      /\ DOMAIN new = DOMAIN ideal.stores \cup DOMAIN written
  BY <1>1 DEF CodesInv, EmptyIdeal
<1>3. \A s \in DOMAIN new : /\ "storeCode" \in DOMAIN new[s]
                            /\ s \in DOMAIN written => new[s] = written[s]
                            /\ s \notin DOMAIN written => new[s] = ideal.stores[s]
  BY DEF CodesInv, KeepsCodes
<1>4. IsFiniteSet(DOMAIN new)
  BY <1>2, FS_Union DEF CodesInv, KeepsCodes
<1> HIDE DEF new
<1>5. OneHolderPerCode(new)
  <2> SUFFICES ASSUME NEW s \in DOMAIN new, NEW t \in DOMAIN new, s # t,
                      new[s].storeCode = new[t].storeCode, new[s].storeCode # None
               PROVE  FALSE
    BY DEF OneHolderPerCode
  <2>1. new[s].storeCode \in DetectDuplicateStoreCodes(new)
    BY <1>4, DuplicatesAreDetected
  <2>2. s \notin DOMAIN written /\ t \notin DOMAIN written
    BY <1>1, <2>1 DEF CodesAreFree
  <2> QED
    BY <1>2, <1>3, <2>2 DEF CodesInv, OneHolderPerCode
<1>6. CodesInv'
  BY <1>1, <1>2, <1>3, <1>4, <1>5 DEF CodesInv
<1>7. CodesStay
  <2> SUFFICES ASSUME NEW c \in CodesOf(ideal.stores)
               PROVE  StoreForCode(codeIndex', c) = codeIndex[c]
    BY DEF CodesStay, CodesInv, BuildCodeIndex
  <2>1. PICK s \in DOMAIN ideal.stores : ideal.stores[s].storeCode = c /\ c # None
    BY DEF CodesOf
  <2>2. codeIndex[c] = s
    BY <2>1, TheHolderIsIndexed DEF CodesInv, StoreForCode, BuildCodeIndex
  <2>3. s \in DOMAIN new /\ new[s].storeCode = c
    BY <1>1, <1>2, <1>3, <2>1 DEF KeepsCodes
  <2> QED
    BY <1>1, <1>5, <2>1, <2>2, <2>3, TheHolderIsIndexed
<1> QED
  BY <1>6, <1>7

\* What the requests write keeps the codes: storeCodeAfterUpdate.
LEMMA UpdateKeepsCode ==
  ASSUME NEW store, "storeCode" \in DOMAIN store, NEW body
  PROVE  /\ "storeCode" \in DOMAIN UpdatedStore(store, body)
         /\ UpdatedStore(store, body).storeCode # Rejects =>
              store.storeCode \in {None, UpdatedStore(store, body).storeCode}
<1>1. /\ "storeCode" \in DOMAIN UpdatedStore(store, body)
      /\ UpdatedStore(store, body).storeCode =
           StoreCodeAfterUpdate(store.storeCode, Given(body, "storeCode", None))
  BY DEF UpdatedStore
<1> QED
  BY <1>1 DEF StoreCodeAfterUpdate

\* A step that leaves the stores of the ideal as they are.
LEMMA ElsewhereKeepsCodes ==
  ASSUME CodesInv, DOMAIN ideal' = DOMAIN ideal, ideal'.stores = ideal.stores, UNCHANGED codeIndex
  PROVE  CodesInv' /\ CodesStay
BY DEF CodesInv, CodesStay, StoreForCode

LEMMA ProvisionKeepsCodes ==
  ASSUME CodesInv, NEW p, Provision(p)
  PROVE  CodesInv' /\ CodesStay
<1>1. ASSUME NEW c \in Chains, NEW roster \in Rosters, CreateOrUpdateChain(p, c, roster)
      PROVE  CodesInv' /\ CodesStay
  BY <1>1, ElsewhereKeepsCodes DEF CreateOrUpdateChain, CommitIdeal, CodesInv, EmptyIdeal
<1>2. ASSUME NEW id, NEW policy, CreateOrUpdatePolicy(p, id, policy)
      PROVE  CodesInv' /\ CodesStay
  BY <1>2, ElsewhereKeepsCodes DEF CreateOrUpdatePolicy, CommitIdeal, CodesInv, EmptyIdeal
<1>3. ASSUME NEW s, NEW body, CreateStore(p, s, body)
      PROVE  CodesInv' /\ CodesStay
  <2> DEFINE written == [t \in {s} |-> NewStore(body)]
  <2>1. DOMAIN written = {s} /\ written[s] = NewStore(body)
    OBVIOUS
  <2>2. "storeCode" \in DOMAIN NewStore(body)
    BY DEF NewStore
  <2>3. s \notin DOMAIN ideal.stores /\ WriteStores(p, written)
    BY <1>3 DEF CreateStore
  <2> HIDE DEF written
  <2>4. KeepsCodes(written)
    BY <2>1, <2>2, <2>3, FS_Singleton DEF KeepsCodes
  <2> QED
    BY <2>3, <2>4, WriteKeepsCodes
<1>4. ASSUME NEW s, NEW body, UpdateStore(p, s, body)
      PROVE  CodesInv' /\ CodesStay
  <2> DEFINE written == [t \in {s} |-> UpdatedStore(ideal.stores[t], body)]
  <2>1. DOMAIN written = {s} /\ written[s] = UpdatedStore(ideal.stores[s], body)
    OBVIOUS
  <2>2. s \in DOMAIN ideal.stores /\ WriteStores(p, written)
    BY <1>4 DEF UpdateStore
  <2> HIDE DEF written
  <2>3. KeepsCodes(written)
    <3>1. "storeCode" \in DOMAIN ideal.stores[s]
      BY <2>2 DEF CodesInv
    <3>2. /\ "storeCode" \in DOMAIN written[s]
          /\ written[s].storeCode # Rejects =>
               ideal.stores[s].storeCode \in {None, written[s].storeCode}
      BY <2>1, <3>1, UpdateKeepsCode
    <3> QED
      BY <2>1, <3>2, FS_Singleton DEF KeepsCodes
  <2> QED
    BY <2>2, <2>3, WriteKeepsCodes
<1>5. ASSUME NEW bodies \in Batches, UpsertStores(p, bodies)
      PROVE  CodesInv' /\ CodesStay
  <2> DEFINE New(s) == [NewStore(bodies[s]) EXCEPT
                          !.policyIds = Given(bodies[s], "policyIds", {})]
             written == [s \in DOMAIN bodies |->
                           IF s \in DOMAIN ideal.stores
                           THEN UpdatedStore(ideal.stores[s], bodies[s]) ELSE New(s)]
  <2>1. WriteStores(p, written)
    BY <1>5, Zenon DEF UpsertStores
  <2>2. \A s : "storeCode" \in DOMAIN New(s)
    BY DEF NewStore
  <2> HIDE DEF New
  <2>3. KeepsCodes(written)
    BY <2>2, UpdateKeepsCode, StoreRegistryAssumption DEF KeepsCodes, CodesInv
  <2> QED
    BY <2>1, <2>3, WriteKeepsCodes
<1> QED
  BY <1>1, <1>2, <1>3, <1>4, <1>5, Zenon DEF Provision

LEMMA NextKeepsCodes == CodesInv /\ [Next]_vars => CodesInv' /\ CodesStay
<1> SUFFICES ASSUME CodesInv, [Next]_vars
             PROVE  CodesInv' /\ CodesStay
  OBVIOUS
<1>1. ASSUME NEW p \in Requests, Provision(p)
      PROVE  CodesInv' /\ CodesStay
  BY <1>1, ProvisionKeepsCodes
<1>2. CASE UNCHANGED truth
  BY <1>2, ElsewhereKeepsCodes DEF truth
<1>3. ASSUME NEW p \in Procs, Converges(p) \/ ApplyProjection(p) \/ PushFails(p)
      PROVE  UNCHANGED truth
  BY <1>3, Zenon DEF Converges, RunConvergence, Push, Pushed, Converged, ReplayUnrouted,
                     DrainUnrouted, FinishRequest, ApplyProjection, PushFails
<1>4. ASSUME AlarmFires \/ FinishAlarm
      PROVE  UNCHANGED truth
  BY <1>4, Zenon DEF AlarmFires, FinishAlarm
<1>5. CASE UNCHANGED vars
  BY <1>2, <1>5 DEF vars
<1> QED
  BY <1>1, <1>2, <1>3, <1>4, <1>5 DEF Next

LEMMA InitCodesInv == Init => CodesInv
<1> SUFFICES ASSUME Init PROVE CodesInv
  OBVIOUS
<1>1. DOMAIN ideal.stores = {} /\ DOMAIN ideal = DOMAIN EmptyIdeal
  BY DEF Init, EmptyIdeal
<1>2. CodesOf(ideal.stores) = {}
  BY <1>1 DEF CodesOf
<1>3. codeIndex = BuildCodeIndex(ideal.stores)
  BY <1>2 DEF Init, BuildCodeIndex
<1> QED
  BY <1>1, <1>3, FS_EmptySet DEF CodesInv, OneHolderPerCode

\* storeCodeAfterUpdate, detectDuplicateStoreCodes and buildCodeIndex together: once records
\* that bear a code go to a store, no request moves them to another.
THEOREM CodesStayPutHolds == Spec => CodesStayPut
<1>1. CodesInv /\ [Next]_vars => [CodesStay]_vars
  BY NextKeepsCodes
<1>2. CodesInv /\ [Next]_vars => CodesInv'
  BY NextKeepsCodes
<1>3. Spec => [][CodesStay]_vars
  BY <1>1, <1>2, InitCodesInv, PTL DEF Spec
<1> QED
  BY <1>3 DEF CodesStayPut, CodesStay

-----------------------------------------------------------------------------
(* What convergence leaves behind.  Only a commit, a push and the end of a  *)
(* push move a store in or out of what LaggingIsLeft speaks of; the version *)
(* of what a store holds tells since when it is up to date.                 *)

HistoryIsIdeal == revision > 0 => history[revision] = ideal

LeftInv == ConvergenceInv /\ CodesInv /\ HistoryIsIdeal /\ LaggingIsLeft

leftVars == <<ideal, revision, history, residual, forgotten, projection>>

LEMMA InitLeftInv == Init => LeftInv
<1> SUFFICES ASSUME Init PROVE LeftInv
  OBVIOUS
<1>1. revision = 0 /\ DOMAIN ideal.stores = {}
  BY DEF Init, EmptyIdeal
<1>2. HistoryIsIdeal /\ LaggingIsLeft
  BY <1>1 DEF HistoryIsIdeal, LaggingIsLeft, Lagging
<1> QED
  BY <1>2, InitConvergenceInv, InitCodesInv DEF LeftInv

LEMMA ElsewhereKeepsLeft ==
  ASSUME HistoryIsIdeal, LaggingIsLeft, UNCHANGED leftVars
  PROVE  HistoryIsIdeal' /\ LaggingIsLeft'
BY DEF leftVars, HistoryIsIdeal, LaggingIsLeft, Lagging, UpToDate

\* Two ideals make the same of a store under every revision or under none.
LEMMA RecomposedAlike ==
  ASSUME NEW a, NEW b, NEW s, NEW v, NEW w,
         RecomposeProjection(a, s, v) = RecomposeProjection(b, s, v)
  PROVE  RecomposeProjection(a, s, w) = RecomposeProjection(b, s, w)
<1> DEFINE A(n) == RecomposeProjection(a, s, n)
           B(n) == RecomposeProjection(b, s, n)
<1>1. /\ A(w) = [config |-> A(v).config, roster |-> A(v).roster, active |-> A(v).active,
                 version |-> w]
      /\ B(w) = [config |-> B(v).config, roster |-> B(v).roster, active |-> B(v).active,
                 version |-> w]
  BY DEF RecomposeProjection
<1> QED
  BY <1>1

\* What newIdeal says of the stores that are not among those affected, the ideal said before.
Reaches(newIdeal, affected) ==
  \A s \in DOMAIN newIdeal.stores \ affected :
    /\ s \in DOMAIN ideal.stores
    /\ \A v : RecomposeProjection(newIdeal, s, v) = RecomposeProjection(ideal, s, v)

\* affectedStores names every store that a request concerns.
LEMMA ChainReaches ==
  ASSUME DOMAIN ideal = DOMAIN EmptyIdeal, NEW c, NEW roster
  PROVE  Reaches([ideal EXCEPT !.chains = With(ideal.chains, c, roster)],
                 StoreIdsInChain(ideal.stores, c))
<1> DEFINE new == [ideal EXCEPT !.chains = With(ideal.chains, c, roster)]
<1>1. /\ new.stores = ideal.stores /\ new.policies = ideal.policies
      /\ new.chains = With(ideal.chains, c, roster)
  BY DEF EmptyIdeal
<1> HIDE DEF new
<1> SUFFICES ASSUME NEW s \in DOMAIN ideal.stores, ideal.stores[s].chain # c, NEW v
             PROVE  RecomposeProjection(new, s, v) = RecomposeProjection(ideal, s, v)
  BY <1>1 DEF Reaches, StoreIdsInChain, new
<1>2. EffectiveRoster(new.chains, ideal.stores[s]) = EffectiveRoster(ideal.chains, ideal.stores[s])
  BY <1>1 DEF EffectiveRoster, With
<1>3. Assigned(new, ideal.stores[s]) = Assigned(ideal, ideal.stores[s])
  BY <1>1 DEF Assigned
<1> QED
  BY <1>1, <1>2, <1>3 DEF RecomposeProjection

LEMMA PolicyReaches ==
  ASSUME DOMAIN ideal = DOMAIN EmptyIdeal, NEW id, NEW policy
  PROVE  Reaches([ideal EXCEPT !.policies = With(ideal.policies, id, policy)],
                 StoresOfPolicy(ideal.stores, id))
<1> DEFINE new == [ideal EXCEPT !.policies = With(ideal.policies, id, policy)]
<1>1. /\ new.stores = ideal.stores /\ new.chains = ideal.chains
      /\ new.policies = With(ideal.policies, id, policy)
  BY DEF EmptyIdeal
<1> HIDE DEF new
<1> SUFFICES ASSUME NEW s \in DOMAIN ideal.stores, id \notin ideal.stores[s].policyIds, NEW v
             PROVE  RecomposeProjection(new, s, v) = RecomposeProjection(ideal, s, v)
  BY <1>1 DEF Reaches, StoresOfPolicy, new
<1> DEFINE ids == Assigned(ideal, ideal.stores[s])
<1>2. Assigned(new, ideal.stores[s]) = ids
  BY <1>1 DEF Assigned, With
<1>3. Restrict(new.policies, ids) = Restrict(ideal.policies, ids)
  BY <1>1 DEF Assigned, With, Restrict
<1> HIDE DEF ids
<1> QED
  BY <1>1, <1>2, <1>3 DEF RecomposeProjection, ids

LEMMA WriteReaches ==
  ASSUME DOMAIN ideal = DOMAIN EmptyIdeal, NEW written
  PROVE  Reaches([ideal EXCEPT !.stores =
                    [s \in DOMAIN ideal.stores \cup DOMAIN written |->
                       IF s \in DOMAIN written THEN written[s] ELSE ideal.stores[s]]],
                 DOMAIN written)
<1> DEFINE table == [s \in DOMAIN ideal.stores \cup DOMAIN written |->
                       IF s \in DOMAIN written THEN written[s] ELSE ideal.stores[s]]
           new == [ideal EXCEPT !.stores = table]
<1>1. new.stores = table /\ new.chains = ideal.chains /\ new.policies = ideal.policies
  BY DEF EmptyIdeal
<1>2. \A s \in DOMAIN table \ DOMAIN written : s \in DOMAIN ideal.stores /\ table[s] = ideal.stores[s]
  OBVIOUS
<1> HIDE DEF new, table
<1> SUFFICES ASSUME NEW s \in DOMAIN table \ DOMAIN written, NEW v
             PROVE  RecomposeProjection(new, s, v) = RecomposeProjection(ideal, s, v)
  BY <1>1, <1>2 DEF Reaches, new, table
<1>3. Assigned(new, ideal.stores[s]) = Assigned(ideal, ideal.stores[s])
  BY <1>1 DEF Assigned
<1> QED
  BY <1>1, <1>2, <1>3 DEF RecomposeProjection

LEMMA ProvisionReaches ==
  ASSUME CodesInv, NEW p, Provision(p)
  PROVE  \E newIdeal, affected, codes :
           CommitIdeal(p, newIdeal, affected, codes) /\ Served /\ Reaches(newIdeal, affected)
<1> DEFINE Claim == \E newIdeal, affected, codes :
                      /\ CommitIdeal(p, newIdeal, affected, codes) /\ Served
                      /\ Reaches(newIdeal, affected)
<1>0. DOMAIN ideal = DOMAIN EmptyIdeal
  BY DEF CodesInv
<1>1. ASSUME NEW c \in Chains, NEW roster \in Rosters, CreateOrUpdateChain(p, c, roster)
      PROVE  Claim
  BY <1>0, <1>1, ChainReaches, Zenon DEF CreateOrUpdateChain
<1>2. ASSUME NEW id, NEW policy, CreateOrUpdatePolicy(p, id, policy)
      PROVE  Claim
  BY <1>0, <1>2, PolicyReaches, Zenon DEF CreateOrUpdatePolicy
<1>3. ASSUME NEW written, WriteStores(p, written)
      PROVE  Claim
  BY <1>0, <1>3, WriteReaches, Zenon DEF WriteStores
<1> QED
  BY <1>1, <1>2, <1>3, Zenon DEF Provision, CreateStore, UpdateStore, UpsertStores

\* A commit makes the stores it affects the residual, and forgets those of the residual before.
LEMMA CommitKeepsLeft ==
  ASSUME LeftInv, NEW p, NEW newIdeal, NEW affected, NEW codes,
         CommitIdeal(p, newIdeal, affected, codes), Served, Reaches(newIdeal, affected)
  PROVE  HistoryIsIdeal' /\ LaggingIsLeft'
<1>1. /\ ideal' = newIdeal /\ revision' = revision + 1 /\ history' = Append(history, newIdeal)
      /\ residual' = affected /\ forgotten' = (forgotten \cup residual) \ affected
      /\ UNCHANGED projection
  BY DEF CommitIdeal, Served, stores
<1>2. /\ revision \in Nat /\ Len(history) = revision
      /\ \A n \in 1..revision : history'[n] = history[n]
      /\ history'[revision + 1] = newIdeal
  <2>1. history \in Seq(Range(history) \cup {newIdeal})
    BY SeqMonotonic DEF LeftInv, ConvergenceInv, HistoryOK
  <2> QED
    BY <1>1, <2>1, AppendProperties DEF LeftInv, ConvergenceInv, HistoryOK
<1>3. HistoryIsIdeal'
  BY <1>1, <1>2 DEF HistoryIsIdeal
<1>4. ASSUME NEW s \in DOMAIN newIdeal.stores, s \notin affected, s \notin forgotten'
      PROVE  UpToDate(s)'
  <2>1. s \in DOMAIN ideal.stores /\ UpToDate(s)
    BY <1>1, <1>4 DEF Reaches, LeftInv, LaggingIsLeft, Lagging
  <2> DEFINE v == projection[s].version
  <2>2. s \in DOMAIN projection /\ v \in 1..revision
    BY <2>1 DEF UpToDate, LeftInv, ConvergenceInv, VersionsOK
  <2>3. RecomposeProjection(newIdeal, s, v) = RecomposeProjection(ideal, s, v)
    BY <1>4 DEF Reaches
  <2>4. \A n \in v..revision :
          RecomposeProjection(history[n], s, v) = RecomposeProjection(ideal, s, v)
    BY <2>1 DEF UpToDate
  <2> HIDE DEF v
  <2>5. \A n \in v..revision + 1 :
          RecomposeProjection(history'[n], s, v) = RecomposeProjection(newIdeal, s, v)
    <3> TAKE n \in v..revision + 1
    <3>1. CASE n = revision + 1
      BY <1>2, <3>1
    <3>2. CASE n # revision + 1
      <4>1. n \in v..revision /\ n \in 1..revision
        BY <1>2, <2>2, <3>2
      <4> QED
        BY <1>2, <2>3, <2>4, <4>1
    <3> QED
      BY <3>1, <3>2
  <2> QED
    BY <1>1, <2>2, <2>5 DEF UpToDate, v
<1>5. LaggingIsLeft'
  BY <1>1, <1>4 DEF LaggingIsLeft, Lagging
<1> QED
  BY <1>3, <1>5

\* A push brings its store forward, never back: up to date it stays so.
LEMMA ApplyKeepsLeft ==
  ASSUME LeftInv, NEW p \in Procs, ApplyProjection(p)
  PROVE  HistoryIsIdeal' /\ LaggingIsLeft'
<1> DEFINE s == Head(procs[p].todo)
           kept == Newer(s, Incoming(p))
<1>1. UNCHANGED <<ideal, revision, history, residual, forgotten>>
  BY DEF ApplyProjection, truth, convergence
<1>2. /\ kept.version \in 1..revision
      /\ s \in DOMAIN projection => projection[s].version <= kept.version
      /\ DOMAIN projection' = DOMAIN projection \cup {s}
      /\ \A t \in DOMAIN projection' : projection'[t] = IF t = s THEN kept ELSE projection[t]
  BY AppliedIsNewer DEF LeftInv
<1>3. HistoryIsIdeal'
  BY <1>1 DEF LeftInv, HistoryIsIdeal
<1> HIDE DEF kept, s
<1>4. ASSUME NEW t, UpToDate(t)
      PROVE  UpToDate(t)'
  <2>1. CASE t # s
    BY <1>1, <1>2, <1>4, <2>1 DEF UpToDate
  <2>2. CASE t = s
    <3> DEFINE v == projection[s].version
               w == kept.version
    <3>1. s \in DOMAIN projection /\ v \in 1..revision /\ v <= w /\ w \in 1..revision
      BY <1>2, <1>4, <2>2 DEF UpToDate, LeftInv, ConvergenceInv, VersionsOK
    <3>2. revision \in Nat
      BY DEF LeftInv, ConvergenceInv, HistoryOK
    <3>3. \A n \in v..revision :
            RecomposeProjection(history[n], s, v) = RecomposeProjection(ideal, s, v)
      BY <1>4, <2>2 DEF UpToDate
    <3>4. projection'[s].version = w /\ s \in DOMAIN projection'
      BY <1>2
    <3> HIDE DEF v, w
    <3>5. \A n \in w..revision :
            RecomposeProjection(history[n], s, w) = RecomposeProjection(ideal, s, w)
      <4> TAKE n \in w..revision
      <4>1. n \in v..revision
        BY <3>1, <3>2
      <4> QED
        BY <3>3, <4>1, RecomposedAlike
    <3> QED
      BY <1>1, <2>2, <3>4, <3>5 DEF UpToDate
  <2> QED
    BY <2>1, <2>2
<1>5. LaggingIsLeft'
  BY <1>1, <1>4 DEF LeftInv, LaggingIsLeft, Lagging
<1> QED
  BY <1>3, <1>5

\* The end of a push takes its store off the residual only if the store has what the ideal of
\* now makes of it; what else it takes off, it forgets.
LEMMA PushedKeepsLeft ==
  ASSUME LeftInv, NEW p \in Procs, Pushed(p)
  PROVE  HistoryIsIdeal' /\ LaggingIsLeft'
<1> DEFINE q == procs[p]
           s == Head(q.todo)
           left == NextResidual(q.residual, s, q.reply # None)
<1>1. q.step = "pushed" /\ UNCHANGED <<ideal, revision, history, projection>>
  BY DEF Pushed, truth, stores
<1>2. \/ residual' = left /\ forgotten' = (forgotten \cup Overwritten(q)) \ left
      \/ UNCHANGED <<residual, forgotten>>
  BY Zenon DEF Pushed
<1>3. HistoryIsIdeal' /\ \A t : UpToDate(t)' <=> UpToDate(t)
  BY <1>1 DEF LeftInv, HistoryIsIdeal, UpToDate
<1>4. Lagging' = Lagging
  BY <1>1, <1>3 DEF Lagging
<1>5. ASSUME NEW t \in residual, t \notin Overwritten(q), t \notin left
      PROVE  UpToDate(t)
  <2>1. revision \in Nat /\ q.base \in 1..revision
    BY <1>1 DEF LeftInv, ConvergenceInv, HistoryOK, BasesOK, Pushing
  <2>2. t \in q.residual /\ q.base = revision
    BY <1>5, <2>1 DEF Overwritten
  <2>3. t = s /\ q.reply # None
    BY <1>5, <2>2 DEF NextResidual
  <2>4. /\ s \in DOMAIN projection /\ q.reply \in Nat /\ q.base <= q.reply
        /\ q.reply <= projection[s].version
    BY <1>1, <2>3 DEF LeftInv, ConvergenceInv, EchoesOK
  <2>5. projection[s].version = revision
    BY <2>1, <2>2, <2>4 DEF LeftInv, ConvergenceInv, VersionsOK
  <2>6. history[revision] = ideal
    BY <2>1 DEF LeftInv, HistoryIsIdeal
  <2>7. \A n \in revision..revision : n = revision
    BY <2>1
  <2> HIDE DEF s, q
  <2> QED
    BY <2>3, <2>4, <2>5, <2>6, <2>7 DEF UpToDate
<1> HIDE DEF left, q, s
<1>6. LaggingIsLeft'
  BY <1>2, <1>4, <1>5 DEF LeftInv, LaggingIsLeft, Lagging
<1> QED
  BY <1>3, <1>6

LEMMA NextKeepsLeft == LeftInv /\ [Next]_vars => LeftInv'
<1> SUFFICES ASSUME LeftInv, [Next]_vars
             PROVE  HistoryIsIdeal' /\ LaggingIsLeft'
  BY NextKeepsConvergence, NextKeepsCodes DEF LeftInv
<1> USE DEF Procs
<1>1. CASE UNCHANGED leftVars
  BY <1>1, ElsewhereKeepsLeft DEF LeftInv
<1>2. ASSUME NEW p \in Procs,
             \/ RunConvergence(p) \/ Push(p) \/ Converged(p) \/ ReplayUnrouted(p)
             \/ DrainUnrouted(p) \/ FinishRequest(p) \/ PushFails(p)
      PROVE  UNCHANGED leftVars
  BY <1>2, Zenon DEF RunConvergence, Push, Converged, ReplayUnrouted, DrainUnrouted,
                     FinishRequest, PushFails, leftVars, truth, convergence, stores
<1>3. ASSUME AlarmFires \/ FinishAlarm \/ UNCHANGED vars
      PROVE  UNCHANGED leftVars
  BY <1>3, Zenon DEF AlarmFires, FinishAlarm, vars, leftVars, truth, convergence, stores
<1>4. ASSUME NEW p \in Requests, Provision(p)
      PROVE  HistoryIsIdeal' /\ LaggingIsLeft'
  BY <1>4, ProvisionReaches, CommitKeepsLeft DEF LeftInv
<1>5. ASSUME NEW p \in Procs, Converges(p) \/ ApplyProjection(p) \/ PushFails(p)
      PROVE  HistoryIsIdeal' /\ LaggingIsLeft'
  BY <1>1, <1>2, <1>5, ApplyKeepsLeft, PushedKeepsLeft DEF Converges
<1> QED
  BY <1>1, <1>3, <1>4, <1>5 DEF Next

\* affectedStores, nextResidual, commitIdeal and runConvergence: only a write of the residual
\* made in ignorance of it takes a store that lacks its newest projection off.
THEOREM LaggingIsLeftHolds == Spec => []LaggingIsLeft
<1>1. LeftInv => LaggingIsLeft
  BY DEF LeftInv
<1> QED
  BY <1>1, InitLeftInv, NextKeepsLeft, PTL DEF Spec

-----------------------------------------------------------------------------
(* Lists of records.                                                       *)

LEMMA LeastNumber ==
  ASSUME NEW T, T \subseteq Nat, T # {}
  PROVE  \E m \in T : \A n \in T : m <= n
<1>1. PICK m \in T : \A n \in T : <<n, m>> \notin OpToRel(<, Nat)
  BY NatLessThanWellFounded, WFMin
<1>2. \A n \in T : ~(n < m)
  BY <1>1 DEF OpToRel
<1> QED
  BY <1>2

\* What holds at the start of a loop and is kept by its rounds holds throughout.
LEMMA UpTo ==
  ASSUME NEW n \in Nat, NEW T, 0 \in T, \A k \in 1..n : k - 1 \in T => k \in T
  PROVE  n \in T
<1> DEFINE F == (0..n) \ T
<1>1. F \subseteq Nat
  OBVIOUS
<1>2. SUFFICES ASSUME F # {} PROVE FALSE
  OBVIOUS
<1>3. PICK m \in F : \A k \in F : m <= k
  <2> HIDE DEF F
  <2> QED
    BY <1>1, <1>2, LeastNumber
<1>4. m \in 1..n /\ m - 1 \in 0..n /\ m - 1 \notin F
  BY <1>3
<1> QED
  BY <1>3, <1>4

IsList(list) == list \in Seq(Range(list))

\* One round of Filtered.
FilterStep(acc, list, k, keep) == IF list[k] \in keep THEN Append(acc, list[k]) ELSE acc

\* f filters the first n of list.
IsFilter(f, list, keep, n) ==
  f = [k \in 0..n |-> IF k = 0 THEN <<>> ELSE FilterStep(f[k - 1], list, k, keep)]

LEMMA FilterExists ==
  ASSUME NEW list, NEW keep, NEW n \in Nat
  PROVE  \E f : IsFilter(f, list, keep, n)
<1> DEFINE T == {m \in 0..n : \E f : IsFilter(f, list, keep, m)}
<1>1. 0 \in T
  <2> DEFINE f == [k \in 0..0 |-> <<>>]
  <2>1. IsFilter(f, list, keep, 0)
    BY DEF IsFilter
  <2> QED
    BY <2>1
<1>2. \A m \in 1..n : m - 1 \in T => m \in T
  <2> SUFFICES ASSUME NEW m \in 1..n, NEW f, IsFilter(f, list, keep, m - 1)
               PROVE  \E h : IsFilter(h, list, keep, m)
    OBVIOUS
  <2> DEFINE h == [k \in 0..m |-> IF k = m THEN FilterStep(f[m - 1], list, m, keep) ELSE f[k]]
  <2>2. \A k \in 0..(m - 1) : f[k] = IF k = 0 THEN <<>> ELSE FilterStep(f[k - 1], list, k, keep)
    BY DEF IsFilter
  <2>3. /\ h[m] = FilterStep(f[m - 1], list, m, keep)
        /\ \A k \in 0..m : k # m => h[k] = f[k]
    OBVIOUS
  <2>4. DOMAIN h = 0..m /\ h = [k \in 0..m |-> h[k]]
    OBVIOUS
  <2> HIDE DEF h
  <2>5. \A k \in 0..m : h[k] = IF k = 0 THEN <<>> ELSE FilterStep(h[k - 1], list, k, keep)
    BY <2>2, <2>3
  <2>6. IsFilter(h, list, keep, m)
    BY <2>4, <2>5 DEF IsFilter
  <2> QED
    BY <2>6
<1> HIDE DEF T
<1>3. n \in T
  BY <1>1, <1>2, UpTo, Zenon
<1> QED
  BY <1>3 DEF T

\* A filtered list has what the list and the filter have in common.
LEMMA FilteredHas ==
  ASSUME NEW list, IsList(list), NEW keep
  PROVE  /\ IsList(Filtered(list, keep))
         /\ Range(Filtered(list, keep)) = Range(list) \cap keep
<1> DEFINE n == Len(list)
           Upto(k) == {list[i] : i \in 1..k} \cap keep
<1>0. n \in Nat /\ DOMAIN list = 1..n
  BY DEF IsList
<1>1. PICK f : IsFilter(f, list, keep, n) /\ Filtered(list, keep) = f[n]
  <2>1. \E f : IsFilter(f, list, keep, n)
    BY <1>0, FilterExists
  <2> QED
    BY <2>1, Zenon DEF IsFilter, Filtered, FilterStep
<1> DEFINE Good(k) == f[k] \in Seq(Upto(k)) /\ Range(f[k]) = Upto(k)
           T == {k \in 0..n : Good(k)}
<1>2. f[0] = <<>> /\ \A k \in 1..n : f[k] = FilterStep(f[k - 1], list, k, keep)
  <2> HIDE DEF n
  <2> QED
    BY <1>0, <1>1 DEF IsFilter
<1>3. 0 \in T
  <2>1. Upto(0) = {} /\ Range(<<>>) = {} /\ <<>> \in Seq({})
    BY EmptySeq DEF Range
  <2>2. Good(0)
    BY <1>2, <2>1
  <2> HIDE DEF Good, n
  <2> QED
    BY <1>0, <2>2
<1>4. \A k \in 1..n : k - 1 \in T => k \in T
  <2> SUFFICES ASSUME NEW k \in 1..n, Good(k - 1) PROVE Good(k)
    <3> HIDE DEF Good, n
    <3> QED
      BY <1>0
  <2> DEFINE S == Upto(k)
  <2>1. \A i : i \in 1..k <=> i \in 1..(k - 1) \/ i = k
    BY <1>0
  <2>2. S = Upto(k - 1) \cup ({list[k]} \cap keep)
    BY <2>1
  <2>3. f[k - 1] \in Seq(S)
    BY <2>2, SeqMonotonic
  <2>4. CASE list[k] \in keep
    <3>1. f[k] = Append(f[k - 1], list[k]) /\ list[k] \in S
      BY <1>2, <2>2, <2>4 DEF FilterStep
    <3> HIDE DEF S
    <3>0. f[k - 1] \in Seq(S)
      BY <2>3
    <3>2. f[k] \in Seq(S) /\ Range(f[k]) = Range(f[k - 1]) \cup {list[k]}
      <4>1. /\ f[k] \in Seq(S) /\ Len(f[k]) = Len(f[k - 1]) + 1
            /\ \A i \in 1..Len(f[k - 1]) : f[k][i] = f[k - 1][i]
            /\ f[k][Len(f[k - 1]) + 1] = list[k]
        BY <3>0, <3>1, AppendProperties
      <4>2. /\ DOMAIN f[k] = 1..(Len(f[k - 1]) + 1) /\ DOMAIN f[k - 1] = 1..Len(f[k - 1])
            /\ Len(f[k - 1]) \in Nat
        BY <3>0, <4>1
      <4> QED
        <5>1. \A i : i \in DOMAIN f[k] <=> i \in DOMAIN f[k - 1] \/ i = Len(f[k - 1]) + 1
          BY <4>2
        <5>2. \A i \in DOMAIN f[k - 1] : f[k][i] = f[k - 1][i]
          BY <4>1, <4>2
        <5>3. \A x : x \in Range(f[k]) <=> x \in Range(f[k - 1]) \/ x = list[k]
          BY <4>1, <5>1, <5>2 DEF Range
        <5> QED
          BY <4>1, <5>3
    <3> QED
      BY <2>2, <2>4, <3>2 DEF S
  <2>5. CASE list[k] \notin keep
    BY <1>2, <2>2, <2>3, <2>5 DEF FilterStep
  <2> QED
    BY <2>4, <2>5
<1> HIDE DEF T
<1>5. n \in T
  BY <1>0, <1>3, <1>4, UpTo, Zenon
<1>6. Good(n)
  BY <1>5 DEF T
<1>7. Upto(n) = Range(list) \cap keep
  BY <1>0 DEF Range
<1> QED
  BY <1>1, <1>6, <1>7 DEF IsList

\* The largest number of a bounded set.
LEMMA MaxIsLargest ==
  ASSUME NEW N \in Nat, NEW S, S \subseteq 0..N, S # {}
  PROVE  Max(S) \in S /\ \A y \in S : y <= Max(S)
<1> DEFINE T == {N - x : x \in S}
<1>1. T \subseteq Nat /\ T # {}
  OBVIOUS
<1>2. PICK m \in T : \A n \in T : m <= n
  <2> HIDE DEF T
  <2> QED
    BY <1>1, LeastNumber
<1>3. PICK x \in S : m = N - x
  BY <1>2
<1>4. \A y \in S : y <= x
  BY <1>2, <1>3
<1>5. \E z \in S : \A y \in S : y <= z
  BY <1>4
<1> QED
  BY <1>5 DEF Max

LEMMA SeqsOfRange ==
  ASSUME NEW list
  PROVE  SeqsOf(list) = {h.seq : h \in Range(list)}
BY DEF SeqsOf, Range

\* What is held after a put was held or arrives.
LEMMA RetainedHas ==
  ASSUME NEW existing, IsList(existing), NEW arriving, IsList(arriving), NEW at
  PROVE  LET retained == RetainHeld(existing, arriving, at).retained
         IN  IsList(retained) /\ Range(retained) \subseteq Range(existing) \cup Range(arriving)
<1> DEFINE fresh == {h \in Range(existing) : ~IsHeldExpired(h, at)}
           alive == Filtered(existing, fresh)
           merged == alive \o arriving
           over == IF Len(merged) > HeldLimit THEN Len(merged) - HeldLimit ELSE 0
           retained == SubSeq(merged, over + 1, Len(merged))
           S == Range(existing) \cup Range(arriving)
<1>1. RetainHeld(existing, arriving, at).retained = retained
  BY DEF RetainHeld
<1>2. alive \in Seq(S) /\ arriving \in Seq(S)
  <2> HIDE DEF fresh
  <2>1. IsList(alive) /\ Range(alive) \subseteq S
    BY FilteredHas
  <2> HIDE DEF alive
  <2> QED
    BY <2>1, SeqMonotonic DEF IsList
<1> HIDE DEF alive, S
<1>3. merged \in Seq(S)
  BY <1>2, ConcatProperties
<1> HIDE DEF merged
<1>4. over \in Nat /\ over <= Len(merged) /\ Len(merged) \in Nat
  BY <1>3, RegistryCoreAssumption
<1> HIDE DEF over
<1>5. retained \in Seq(S)
  BY <1>3, <1>4, SubSeqProperties
<1>6. IsList(retained) /\ Range(retained) \subseteq S
  <2> HIDE DEF retained
  <2> QED
    BY <1>5, SeqOfRange DEF Range, IsList
<1> QED
  BY <1>1, <1>6 DEF S

-----------------------------------------------------------------------------
(* The way in: what is true between any two steps.                         *)

StoreOf(c) == StoreForCode(codeIndex, c)
Kept(c) == SeqsOf(held[c]) \cup Gone(c)

\* The record n is too old to be delivered or replayed, now and ever after.
Expired(n) == Arrival[n] < now - ArrivalWindow

\* The record n of c is too old and safe, or no request that is waited for will bring it.
Past(c, n) ==
  /\ Expired(n)
  /\ n \in Kept(c) \/ \A w \in Workers : posts[w].waiting /\ c \in DOMAIN posts[w].at =>
                        n \notin SeqsOf(posts[w].records[c])

IsPost(r) ==
  /\ DOMAIN r = DOMAIN NoPost /\ DOMAIN r.at \subseteq Codes
  /\ \A f \in {"upTo", "records", "raws", "store", "by"} : DOMAIN r[f] = DOMAIN r.at
  /\ \A c \in DOMAIN r.at : IsList(r.records[c]) /\ IsList(r.raws[c])

ShapesOK ==
  /\ now \in Nat /\ HandlersOK
  /\ DOMAIN held = Codes /\ DOMAIN quarantine = Codes /\ DOMAIN sent = Codes
  /\ DOMAIN counted = Stores /\ DOMAIN taken = Stores
  /\ DOMAIN posts = Workers /\ DOMAIN resolvedStoreIds = Workers
  /\ \A c \in Codes : IsList(held[c]) /\ IsList(quarantine[c])
  /\ \A w \in Workers : IsPost(posts[w])

\* A store has at most one code, and keeps it.
StoresKnown == CodesInv /\ DOMAIN ideal.stores \subseteq Stores

SentOK == \A c \in Codes : sent[c] \in 0..MaxRecords

\* What comes before a held record is held too, or need not be.
HeldOK ==
  \A c \in Codes : \A h \in Range(held[c]) :
    /\ h.seq \in 1..MaxRecords /\ h.arrival = Arrival[h.seq]
    /\ h.heldAt \in Nat /\ h.arrival <= h.heldAt /\ h.heldAt <= now
    /\ \A m \in 1..h.seq : m \in Kept(c) \/ Past(c, m)

\* The store has counted past a record only if that is gone, or will not come again.
CountedOK ==
  /\ \A s \in Stores : counted[s] # 0 => \E d \in DOMAIN codeIndex : codeIndex[d] = s
  /\ \A c \in Codes : StoreOf(c) # None =>
       /\ counted[StoreOf(c)] \in 0..MaxRecords
       /\ \A m \in 1..counted[StoreOf(c)] : m \in Gone(c) \/ Past(c, m)

\* Records that may be sent to the store of c together.
Prepared(c, seqs) ==
  /\ seqs \subseteq 1..MaxRecords
  /\ \A k \in seqs : \A m \in 1..k : m \in seqs \cup Gone(c) \/ Past(c, m)

\* A replay sends what may be sent, and the store has counted what it was told.
ReplayOK(q) ==
  LET c == Head(q.codes)
  IN  q.step \in {"drain", "sending", "sent"} =>
        /\ StoreOf(c) # None
        /\ c \in Codes =>
             /\ q.step = "sending" => Prepared(c, SeqsOf(q.sent))
             /\ q.step = "sent" /\ q.reply = "settled" =>
                  \A k \in SeqsOf(q.sent) : k \in 1..counted[StoreOf(c)]

ReplaysOK == \A p \in Procs : ReplayOK(procs[p])

\* The records of a request begin where the acknowledged ones end, but for what will not come.
RecordsOK(r, c) ==
  \A x \in Range(r.records[c]) :
    /\ x.seq \in 1..MaxRecords /\ x.arrival = Arrival[x.seq] /\ x.arrival <= now
    /\ \A m \in 1..x.seq : m \in SeqsOf(r.records[c]) \/ m <= sent[c] \/ Past(c, m)

\* What a request that may be answered 200 has still to bring to safety.
OwedOK(r, c) ==
  r.waiting /\ ~r.transient =>
    /\ r.upTo[c] \in sent[c]..MaxRecords
    /\ \A n \in 1..r.upTo[c] :
         n <= sent[c] \/ n \in SeqsOf(r.records[c]) \cup SeqsOf(r.raws[c]) \cup Kept(c)
    /\ r.at[c] = "delivered" => SeqsOf(r.records[c]) \subseteq Kept(c)

HoldAnswers == {"held", "persist-failed", "replay-deferred"}

\* The process that holds records for a request has not forgotten them.
HoldingOK(r, c) ==
  r.waiting /\ r.at[c] = "holding" =>
    /\ r.by[c] \in Requests /\ procs[r.by[c]].kind = "hold"
    /\ procs[r.by[c]].answer \in HoldAnswers
    /\ procs[r.by[c]].answer = "held" => SeqsOf(r.records[c]) \subseteq Kept(c)

PostOK(r, c) == RecordsOK(r, c) /\ OwedOK(r, c) /\ HoldingOK(r, c)

PostsOK == \A w \in Workers : \A c \in DOMAIN posts[w].at : PostOK(posts[w], c)

\* A request that is not over is one that the upstream waits for, the only one for its codes.
WaitingOK ==
  /\ \A w \in Workers : DOMAIN posts[w].at # {} /\ ~posts[w].thrown => posts[w].waiting
  /\ \A v, w \in Workers : posts[v].waiting /\ posts[w].waiting /\ v # w =>
       DOMAIN posts[v].at \cap DOMAIN posts[w].at = {}

Unresolved(c) ==
  \E v \in Workers : posts[v].waiting /\ c \in DOMAIN posts[v].at /\ posts[v].at[c] = "unresolved"

\* Records of c may go to s directly: nothing is held, and nothing is about to be.
Direct(c, s) == s = StoreOf(c) /\ s # None /\ held[c] = <<>> /\ ~Unresolved(c)

DirectOK ==
  \A w \in Workers :
    /\ \A c \in DOMAIN posts[w].at : posts[w].at[c] = "deliver" => Direct(c, posts[w].store[c])
    /\ \A c \in DOMAIN resolvedStoreIds[w] : c \in Codes /\ Direct(c, resolvedStoreIds[w][c])

IngressInv ==
  /\ ShapesOK /\ StoresKnown /\ SentOK /\ HeldOK /\ CountedOK /\ ReplaysOK
  /\ PostsOK /\ WaitingOK /\ DirectOK /\ AcknowledgedIsKept

\* What no step takes back.
Grows ==
  /\ now <= now' /\ CodesStay
  /\ \A c \in Codes : Kept(c) \subseteq Kept(c)' /\ Gone(c) \subseteq Gone(c)'
  /\ \A c \in Codes : \A n \in 1..MaxRecords : Past(c, n) => Past(c, n)'
  /\ \A c \in Codes : StoreOf(c) # None => counted[StoreOf(c)] <= counted'[StoreOf(c)]

-----------------------------------------------------------------------------
(* What follows when nothing is taken back.                                *)

LEMMA StaysExpired ==
  ASSUME ShapesOK, ShapesOK', now <= now', NEW n \in 1..MaxRecords, Expired(n)
  PROVE  Expired(n)'
BY PosIngressAssumption, RegistryCoreAssumption DEF Expired, ShapesOK

LEMMA StoreStays ==
  ASSUME CodesStay, NEW c, StoreOf(c) # None
  PROVE  StoreOf(c)' = StoreOf(c)
BY DEF CodesStay, StoreOf, StoreForCode

\* The codes in the index and the stores they belong to.
OneToOne ==
  \A c \in DOMAIN codeIndex :
    /\ codeIndex[c] \in Stores /\ codeIndex[c] # None /\ StoreOf(c) = codeIndex[c]
    /\ \A d \in DOMAIN codeIndex : codeIndex[d] = codeIndex[c] => d = c

LEMMA IndexIsOneToOne == StoresKnown => OneToOne
<1> SUFFICES ASSUME StoresKnown PROVE OneToOne
  OBVIOUS
<1>1. ASSUME NEW d \in DOMAIN codeIndex
      PROVE  codeIndex[d] \in DOMAIN ideal.stores /\ ideal.stores[codeIndex[d]].storeCode = d
  <2>1. PICK s \in DOMAIN ideal.stores : ideal.stores[s].storeCode = d /\ d # None
    BY <1>1 DEF StoresKnown, CodesInv, BuildCodeIndex, CodesOf
  <2>2. StoreForCode(codeIndex, d) = s
    BY <2>1, TheHolderIsIndexed DEF StoresKnown, CodesInv
  <2> QED
    BY <1>1, <2>1, <2>2 DEF StoreForCode
<1> QED
  BY <1>1, StoreRegistryAssumption DEF StoresKnown, OneToOne, StoreOf, StoreForCode

\* A request goes on: it brings nothing that it did not bring before, and owes no less.
OnlyOld(w) ==
  posts'[w].waiting => \A c \in DOMAIN posts'[w].at :
    \/ /\ posts[w].waiting /\ c \in DOMAIN posts[w].at
       /\ posts'[w].records[c] = posts[w].records[c]
    \/ \A n \in SeqsOf(posts'[w].records[c]) : ~Expired(n)

LEMMA PastStays ==
  ASSUME ShapesOK, ShapesOK', now <= now', \A c \in Codes : Kept(c) \subseteq Kept(c)',
         \A w \in Workers : OnlyOld(w)
  PROVE  \A c \in Codes : \A n \in 1..MaxRecords : Past(c, n) => Past(c, n)'
<1> SUFFICES ASSUME NEW c \in Codes, NEW n \in 1..MaxRecords, Past(c, n)
             PROVE  Past(c, n)'
  OBVIOUS
<1>1. Expired(n) /\ Expired(n)'
  BY StaysExpired DEF Past
<1>2. CASE n \in Kept(c)
  BY <1>1, <1>2 DEF Past
<1>3. CASE n \notin Kept(c)
  <2>1. ASSUME NEW w \in Workers, posts'[w].waiting, c \in DOMAIN posts'[w].at
        PROVE  n \notin SeqsOf(posts'[w].records[c])
    BY <1>1, <1>3, <2>1 DEF OnlyOld, Past
  <2> QED
    BY <1>1, <2>1 DEF Past
<1> QED
  BY <1>2, <1>3

\* Nothing new is held: what precedes a held record stays in its place.
LEMMA HeldStays ==
  ASSUME ShapesOK, ShapesOK', HeldOK, Grows,
         \A c \in Codes : Range(held'[c]) \subseteq Range(held[c])
  PROVE  HeldOK'
<1> SUFFICES ASSUME NEW c \in Codes, NEW h \in Range(held'[c])
             PROVE  /\ h.seq \in 1..MaxRecords /\ h.arrival = Arrival[h.seq]
                    /\ h.heldAt \in Nat /\ h.arrival <= h.heldAt /\ h.heldAt <= now'
                    /\ \A m \in 1..h.seq : m \in Kept(c)' \/ Past(c, m)'
  BY DEF HeldOK
<1>1. /\ h.seq \in 1..MaxRecords /\ h.arrival = Arrival[h.seq]
      /\ h.heldAt \in Nat /\ h.arrival <= h.heldAt /\ h.heldAt <= now
      /\ \A m \in 1..h.seq : m \in Kept(c) \/ Past(c, m)
  BY DEF HeldOK
<1>2. h.heldAt <= now'
  BY <1>1 DEF ShapesOK, Grows
<1>3. ASSUME NEW m \in 1..h.seq
      PROVE  m \in Kept(c)' \/ Past(c, m)'
  <2>1. m \in 1..MaxRecords
    BY <1>1, PosIngressAssumption
  <2> QED
    BY <1>1, <2>1 DEF Grows
<1> QED
  BY <1>1, <1>2, <1>3

\* Nothing is counted: a store that gets a code has not counted yet.
LEMMA CountedStays ==
  ASSUME StoresKnown, StoresKnown', CountedOK, Grows, UNCHANGED counted
  PROVE  CountedOK'
<1>0. OneToOne'
  <2>1. StoresKnown' => OneToOne'
    BY IndexIsOneToOne, PTL
  <2> QED
    BY <2>1
<1>1. ASSUME NEW s \in Stores, counted[s] # 0
      PROVE  \E d \in DOMAIN codeIndex : codeIndex[d] = s /\ d \in DOMAIN codeIndex'
                                         /\ codeIndex'[d] = s
  <2>1. PICK d \in DOMAIN codeIndex : codeIndex[d] = s
    BY <1>1 DEF CountedOK
  <2>2. s # None /\ StoreForCode(codeIndex', d) = s
    BY <2>1, IndexIsOneToOne DEF OneToOne, Grows, CodesStay
  <2> QED
    BY <2>1, <2>2 DEF StoreForCode
<1>2. ASSUME NEW c \in Codes, StoreOf(c)' # None
      PROVE  /\ counted[StoreOf(c)'] \in 0..MaxRecords
             /\ \A m \in 1..counted[StoreOf(c)'] : m \in Gone(c)' \/ Past(c, m)'
  <2>1. c \in DOMAIN codeIndex' /\ StoreOf(c)' = codeIndex'[c]
    BY <1>2 DEF StoreOf, StoreForCode
  <2>2. codeIndex'[c] \in Stores /\ \A d \in DOMAIN codeIndex' : codeIndex'[d] = codeIndex'[c] => d = c
    BY <1>0, <2>1 DEF OneToOne
  <2>3. CASE counted[StoreOf(c)'] = 0
    BY <2>3, PosIngressAssumption
  <2>4. CASE counted[StoreOf(c)'] # 0
    <3>1. c \in DOMAIN codeIndex /\ codeIndex[c] = StoreOf(c)'
      BY <1>1, <2>1, <2>2, <2>4
    <3>2. StoreOf(c) = StoreOf(c)' /\ StoreOf(c) # None
      BY <1>2, <3>1 DEF StoreOf, StoreForCode
    <3>3. /\ counted[StoreOf(c)] \in 0..MaxRecords
          /\ \A m \in 1..counted[StoreOf(c)] : m \in Gone(c) \/ Past(c, m)
      BY <3>2 DEF CountedOK
    <3>4. \A m \in 1..counted[StoreOf(c)] : m \in 1..MaxRecords
      BY <3>3, PosIngressAssumption
    <3> QED
      BY <3>2, <3>3, <3>4 DEF Grows
  <2> QED
    BY <2>3, <2>4
<1> QED
  BY <1>1, <1>2 DEF CountedOK

LEMMA SentStays ==
  ASSUME SentOK, AcknowledgedIsKept, Grows, UNCHANGED sent
  PROVE  SentOK' /\ AcknowledgedIsKept'
<1>1. \A c \in Codes : Kept(c) \subseteq Kept(c)'
  BY DEF Grows
<1>2. \A c \in Codes : \A n \in 1..sent[c] : n \in Kept(c)
  BY DEF AcknowledgedIsKept, Kept
<1>3. \A c \in Codes : \A n \in 1..sent'[c] : n \in Kept(c)'
  BY <1>1, <1>2
<1> QED
  BY <1>3 DEF SentOK, AcknowledgedIsKept, Kept

\* The replays that go on, while nothing is taken back.
LEMMA ReplaysStay ==
  ASSUME IngressInv, ShapesOK', CountedOK', Grows,
         \A p \in Procs : procs'[p] = procs[p] \/ ReplayOK(procs[p])'
  PROVE  ReplaysOK'
<1> SUFFICES ASSUME NEW p \in Procs, procs'[p] = procs[p]
             PROVE  ReplayOK(procs[p])'
  BY DEF ReplaysOK
<1>0. PICK q, c : q = procs[p] /\ q = procs'[p] /\ c = Head(q.codes)
  OBVIOUS
<1>1. ReplayOK(q)
  BY <1>0 DEF IngressInv, ReplaysOK
<1>2. CASE q.step \in {"drain", "sending", "sent"}
  <2>1. StoreOf(c) # None /\ StoreOf(c)' = StoreOf(c)
    BY <1>0, <1>1, <1>2, StoreStays DEF ReplayOK, Grows
  <2>2. CASE c \notin Codes
    BY <1>0, <2>1, <2>2 DEF ReplayOK
  <2>3. CASE c \in Codes
    <3>1. /\ q.step = "sending" => Prepared(c, SeqsOf(q.sent))
          /\ q.step = "sent" /\ q.reply = "settled" =>
               \A k \in SeqsOf(q.sent) : k \in 1..counted[StoreOf(c)]
      BY <1>0, <1>1, <1>2, <2>3 DEF ReplayOK
    <3>2. Prepared(c, SeqsOf(q.sent)) => Prepared(c, SeqsOf(q.sent))'
      <4> SUFFICES ASSUME Prepared(c, SeqsOf(q.sent))
                   PROVE  /\ SeqsOf(q.sent) \subseteq 1..MaxRecords
                          /\ \A k \in SeqsOf(q.sent) : \A m \in 1..k :
                               m \in SeqsOf(q.sent) \cup Gone(c)' \/ Past(c, m)'
        BY DEF Prepared
      <4>1. /\ SeqsOf(q.sent) \subseteq 1..MaxRecords
            /\ \A k \in SeqsOf(q.sent) : \A m \in 1..k :
                 m \in SeqsOf(q.sent) \cup Gone(c) \/ Past(c, m)
        BY DEF Prepared
      <4>2. \A k \in SeqsOf(q.sent) : \A m \in 1..k : m \in 1..MaxRecords
        BY <4>1, PosIngressAssumption
      <4> QED
        BY <2>3, <4>1, <4>2 DEF Grows
    <3>3. /\ counted[StoreOf(c)] <= counted'[StoreOf(c)] /\ counted[StoreOf(c)] \in Int
          /\ counted'[StoreOf(c)] \in Int
      BY <2>1, <2>3 DEF Grows, IngressInv, CountedOK
    <3>4. \A k \in 1..counted[StoreOf(c)] : k \in 1..counted'[StoreOf(c)]
      BY <3>3
    <3> QED
      BY <1>0, <2>1, <3>1, <3>2, <3>4 DEF ReplayOK
  <2> QED
    BY <2>2, <2>3
<1> QED
  BY <1>0, <1>2 DEF ReplayOK

\* The process that holds the records of c for a request goes on with that.
HoldsOn(w, c) ==
  LET p == posts[w].by[c]
  IN  /\ posts[w].at[c] = "holding" /\ posts'[w].by[c] = p
      /\ procs'[p].kind = procs[p].kind
      /\ procs'[p].answer \in {procs[p].answer, "replay-deferred"}

\* The request of w goes on, as far as c is concerned, or it is over.
Continues(w, c) ==
  /\ c \in DOMAIN posts[w].at
  /\ posts'[w].records[c] = posts[w].records[c] /\ posts'[w].upTo[c] = posts[w].upTo[c]
  /\ sent[c] <= sent'[c]
  /\ posts'[w].waiting =>
       /\ posts[w].waiting /\ sent'[c] = sent[c]
       /\ ~posts'[w].transient =>
            /\ ~posts[w].transient
            /\ SeqsOf(posts[w].raws[c]) \subseteq SeqsOf(posts'[w].raws[c]) \cup Kept(c)'
            /\ posts'[w].at[c] = "delivered" /\ posts[w].at[c] # "delivered" =>
                 SeqsOf(posts[w].records[c]) \subseteq Kept(c)'
       /\ posts'[w].at[c] = "holding" => HoldsOn(w, c) \/ HoldingOK(posts[w], c)'

LEMMA PostStays ==
  ASSUME IngressInv, ShapesOK', SentOK', Grows, NEW w \in Workers, NEW c \in Codes, Continues(w, c)
  PROVE  PostOK(posts[w], c)'
<1>1. PostOK(posts[w], c)
  BY DEF Continues, IngressInv, PostsOK
<1>2. /\ Kept(c) \subseteq Kept(c)' /\ now <= now' /\ now \in Nat /\ now' \in Nat
      /\ \A n \in 1..MaxRecords : Past(c, n) => Past(c, n)'
      /\ sent[c] \in 0..MaxRecords /\ sent'[c] \in 0..MaxRecords /\ MaxRecords \in Nat
  BY PosIngressAssumption DEF Grows, IngressInv, SentOK, ShapesOK
<1>3. RecordsOK(posts[w], c)'
  <2> SUFFICES ASSUME NEW x \in Range(posts[w].records[c])
               PROVE  /\ x.seq \in 1..MaxRecords /\ x.arrival = Arrival[x.seq] /\ x.arrival <= now'
                      /\ \A m \in 1..x.seq : \/ m \in SeqsOf(posts[w].records[c])
                                             \/ m <= sent'[c] \/ Past(c, m)'
    BY DEF RecordsOK, Continues
  <2>1. /\ x.seq \in 1..MaxRecords /\ x.arrival = Arrival[x.seq] /\ x.arrival <= now
        /\ \A m \in 1..x.seq : m \in SeqsOf(posts[w].records[c]) \/ m <= sent[c] \/ Past(c, m)
    BY <1>1 DEF PostOK, RecordsOK
  <2>2. x.arrival \in Nat
    BY <2>1, PosIngressAssumption
  <2>3. \A m \in 1..x.seq : m \in 1..MaxRecords
    BY <1>2, <2>1
  <2>4. sent[c] <= sent'[c]
    BY DEF Continues
  <2> QED
    BY <1>2, <2>1, <2>2, <2>3, <2>4
<1>4. OwedOK(posts[w], c)'
  <2> SUFFICES ASSUME posts'[w].waiting, ~posts'[w].transient
               PROVE  /\ posts'[w].upTo[c] \in sent'[c]..MaxRecords
                      /\ \A n \in 1..posts'[w].upTo[c] :
                           \/ n <= sent'[c]
                           \/ n \in SeqsOf(posts'[w].records[c]) \cup SeqsOf(posts'[w].raws[c])
                                      \cup Kept(c)'
                      /\ posts'[w].at[c] = "delivered" =>
                           SeqsOf(posts'[w].records[c]) \subseteq Kept(c)'
    BY Zenon DEF OwedOK
  <2>1. /\ posts[w].waiting /\ ~posts[w].transient /\ sent'[c] = sent[c]
        /\ posts'[w].records[c] = posts[w].records[c] /\ posts'[w].upTo[c] = posts[w].upTo[c]
        /\ SeqsOf(posts[w].raws[c]) \subseteq SeqsOf(posts'[w].raws[c]) \cup Kept(c)'
        /\ posts'[w].at[c] = "delivered" /\ posts[w].at[c] # "delivered" =>
             SeqsOf(posts[w].records[c]) \subseteq Kept(c)'
    BY Zenon DEF Continues
  <2>2. /\ posts[w].upTo[c] \in sent[c]..MaxRecords
        /\ \A n \in 1..posts[w].upTo[c] :
             \/ n <= sent[c]
             \/ n \in SeqsOf(posts[w].records[c]) \cup SeqsOf(posts[w].raws[c]) \cup Kept(c)
        /\ posts[w].at[c] = "delivered" => SeqsOf(posts[w].records[c]) \subseteq Kept(c)
    BY <1>1, <2>1, Zenon DEF PostOK, OwedOK
  <2> QED
    BY <1>2, <2>1, <2>2
<1>5. HoldingOK(posts[w], c)'
  <2> SUFFICES ASSUME posts'[w].waiting, posts'[w].at[c] = "holding", HoldsOn(w, c)
               PROVE  /\ posts'[w].by[c] \in Requests /\ procs'[posts'[w].by[c]].kind = "hold"
                      /\ procs'[posts'[w].by[c]].answer \in HoldAnswers
                      /\ procs'[posts'[w].by[c]].answer = "held" =>
                           SeqsOf(posts'[w].records[c]) \subseteq Kept(c)'
    BY Zenon DEF HoldingOK, Continues
  <2>1. posts[w].waiting /\ posts'[w].records[c] = posts[w].records[c]
    BY Zenon DEF Continues
  <2>2. /\ posts[w].by[c] \in Requests /\ procs[posts[w].by[c]].kind = "hold"
        /\ procs[posts[w].by[c]].answer \in HoldAnswers
        /\ procs[posts[w].by[c]].answer = "held" => SeqsOf(posts[w].records[c]) \subseteq Kept(c)
    BY <1>1, <2>1, Zenon DEF PostOK, HoldingOK, HoldsOn
  <2>3. /\ posts'[w].by[c] = posts[w].by[c]
        /\ procs'[posts[w].by[c]].kind = procs[posts[w].by[c]].kind
        /\ procs'[posts[w].by[c]].answer \in {procs[posts[w].by[c]].answer, "replay-deferred"}
    BY DEF HoldsOn
  <2> QED
    BY <1>2, <2>1, <2>2, <2>3 DEF HoldAnswers
<1> QED
  BY <1>3, <1>4, <1>5 DEF PostOK

\* What may go to a store directly may still go there.
LEMMA DirectStays ==
  ASSUME CodesStay, NEW c, NEW s, Direct(c, s), held'[c] = <<>>, ~Unresolved(c)'
  PROVE  Direct(c, s)'
BY StoreStays DEF Direct

LEMMA DroppedAfter ==
  ASSUME NEW c, NEW n, <<c, n>> \in dropped'
  PROVE  n \in DroppedOf(c)'
<1>1. <<c, n>>[1] = c /\ <<c, n>>[2] = n
  OBVIOUS
<1> QED
  BY <1>1 DEF DroppedOf

\* What is gone stays gone.
LEMMA GoneStays ==
  ASSUME ShapesOK, StoresKnown, CodesStay, dropped \subseteq dropped',
         \A s \in Stores : taken[s] \subseteq taken'[s], NEW c,
         SeqsOf(quarantine[c]) \subseteq SeqsOf(quarantine'[c]) \cup DroppedOf(c)'
  PROVE  Gone(c) \subseteq Gone(c)'
<1>1. TakenOf(c) \subseteq TakenOf(c)'
  <2>1. CASE StoreOf(c) = None
    BY <2>1 DEF TakenOf, StoreOf
  <2>2. CASE StoreOf(c) # None
    <3>1. StoreOf(c)' = StoreOf(c)
      BY <2>2, StoreStays
    <3>2. StoreOf(c) \in Stores
      BY <2>2, IndexIsOneToOne DEF OneToOne, StoreOf, StoreForCode
    <3> QED
      BY <2>2, <3>1, <3>2 DEF TakenOf, StoreOf
  <2> QED
    BY <2>1, <2>2
<1>2. DroppedOf(c) \subseteq DroppedOf(c)'
  BY DEF DroppedOf
<1> QED
  BY <1>1, <1>2 DEF Gone

\* The steps of the registry, as far as the requests of the workers see them.
LEMMA RegistryKeepsIngress ==
  ASSUME IngressInv, ShapesOK', StoresKnown', CountedOK', Grows, UNCHANGED ingress,
         \A c \in Codes : Range(held'[c]) \subseteq Range(held[c]),
         \A p \in Procs : \/ procs'[p] = procs[p]
                          \/ /\ ReplayOK(procs[p])'
                             /\ procs[p].kind = "hold" =>
                                  /\ procs'[p].kind = "hold"
                                  /\ procs'[p].answer \in {procs[p].answer, "replay-deferred"}
  PROVE  IngressInv'
<1>1. UNCHANGED <<sent, posts, resolvedStoreIds>>
  BY DEF ingress
<1>2. SentOK' /\ AcknowledgedIsKept' /\ HeldOK' /\ ReplaysOK'
  BY <1>1, SentStays, HeldStays, ReplaysStay DEF IngressInv
<1>3. PostsOK'
  <2> SUFFICES ASSUME NEW w \in Workers, NEW c \in DOMAIN posts[w].at
               PROVE  PostOK(posts[w], c)'
    BY <1>1 DEF PostsOK
  <2>1. c \in Codes
    BY DEF IngressInv, ShapesOK, IsPost
  <2>2. PostOK(posts[w], c)
    BY DEF IngressInv, PostsOK
  <2>3. posts[w].waiting /\ posts[w].at[c] = "holding" => HoldsOn(w, c)
    <3> SUFFICES ASSUME posts[w].waiting, posts[w].at[c] = "holding"
                 PROVE  HoldsOn(w, c)
      OBVIOUS
    <3>1. posts[w].by[c] \in Procs /\ procs[posts[w].by[c]].kind = "hold"
      BY <2>2 DEF PostOK, HoldingOK, Procs
    <3> QED
      BY <1>1, <3>1 DEF HoldsOn
  <2>4. Continues(w, c)
    <3>1. sent[c] <= sent'[c]
      BY <1>1, <2>1, PosIngressAssumption DEF IngressInv, SentOK
    <3>2. Kept(c) \subseteq Kept(c)'
      BY <2>1 DEF Grows
    <3> QED
      BY <1>1, <2>3, <3>1, <3>2, Zenon DEF Continues
  <2> QED
    BY <1>2, <2>1, <2>4, PostStays
<1>4. WaitingOK'
  BY <1>1, Zenon DEF IngressInv, WaitingOK
<1>5. DirectOK'
  <2>1. ASSUME NEW c \in Codes, NEW s, Direct(c, s)
        PROVE  Direct(c, s)'
    <3>1. held[c] = <<>> /\ ~Unresolved(c)
      BY <2>1 DEF Direct
    <3>2. Range(held'[c]) = {} /\ IsList(held'[c])
      BY <3>1 DEF Range, ShapesOK
    <3>3. held'[c] = <<>>
      BY <3>2 DEF IsList
    <3>4. ~Unresolved(c)'
      BY <1>1, <3>1, Zenon DEF Unresolved
    <3> QED
      BY <2>1, <3>3, <3>4, DirectStays DEF Grows
  <2>2. \A w \in Workers : \A c \in DOMAIN posts[w].at : c \in Codes
    BY DEF IngressInv, ShapesOK, IsPost
  <2> QED
    BY <1>1, <2>1, <2>2 DEF IngressInv, DirectOK
<1> QED
  BY <1>2, <1>3, <1>4, <1>5 DEF IngressInv

\* The steps that neither hold, count nor drop anything.
LEMMA QuietKeepsIngress ==
  ASSUME IngressInv, HandlersOK', StoresKnown', CodesStay, now <= now', now' \in Nat,
         UNCHANGED <<held, dropped, counted, taken, ingress>>,
         \A p \in Procs : \/ procs'[p] = procs[p]
                          \/ /\ ReplayOK(procs[p])'
                             /\ procs[p].kind = "hold" =>
                                  /\ procs'[p].kind = "hold"
                                  /\ procs'[p].answer \in {procs[p].answer, "replay-deferred"}
  PROVE  IngressInv'
<1>1. ShapesOK'
  BY DEF IngressInv, ShapesOK, ingress
<1>2. \A c \in Codes : Gone(c) \subseteq Gone(c)' /\ Kept(c) \subseteq Kept(c)'
  BY GoneStays DEF IngressInv, Kept, ingress
<1>3. \A w \in Workers : OnlyOld(w)
  BY Zenon DEF OnlyOld, ingress
<1>4. Grows
  <2>1. \A c \in Codes : \A n \in 1..MaxRecords : Past(c, n) => Past(c, n)'
    BY <1>1, <1>2, <1>3, PastStays DEF IngressInv
  <2>2. \A c \in Codes : StoreOf(c) # None => counted[StoreOf(c)] <= counted'[StoreOf(c)]
    BY PosIngressAssumption DEF IngressInv, CountedOK
  <2> QED
    BY <1>2, <2>1, <2>2 DEF Grows
<1>5. CountedOK'
  BY <1>4, CountedStays DEF IngressInv
<1> QED
  BY <1>1, <1>4, <1>5, RegistryKeepsIngress

replayVars == <<codeIndex, held, dropped, counted, taken, now, posts, quarantine>>

LEMMA ReplayOKStays ==
  ASSUME NEW r, ReplayOK(r), UNCHANGED replayVars
  PROVE  ReplayOK(r)'
<1> USE DEF replayVars
<1>1. \A c : StoreOf(c)' = StoreOf(c) /\ TakenOf(c)' = TakenOf(c) /\ DroppedOf(c)' = DroppedOf(c)
  BY DEF StoreOf, TakenOf, DroppedOf
<1>2. \A c : Gone(c)' = Gone(c) /\ Kept(c)' = Kept(c)
  BY <1>1 DEF Gone, Kept
<1>3. \A c, n : Past(c, n)' <=> Past(c, n)
  BY <1>2, Zenon DEF Past, Expired
<1>4. \A c, seqs : Prepared(c, seqs)' <=> Prepared(c, seqs)
  BY <1>2, <1>3 DEF Prepared
<1> QED
  BY <1>1, <1>4 DEF ReplayOK

\* A process of the registry moves on, and nothing else.
LEMMA OneMoves ==
  ASSUME IngressInv, HandlersOK', NEW p \in Procs, NEW r,
         UNCHANGED <<truth, held, dropped, counted, taken, now, ingress>>,
         procs' = [procs EXCEPT ![p] = r], ReplayOK(r),
         procs[p].kind = "hold" =>
           r.kind = "hold" /\ r.answer \in {procs[p].answer, "replay-deferred"}
  PROVE  IngressInv'
<1>1. StoresKnown' /\ CodesStay
  BY ElsewhereKeepsCodes DEF IngressInv, StoresKnown, truth
<1>2. ReplayOK(r)'
  BY ReplayOKStays DEF replayVars, truth, ingress
<1>3. procs'[p] = r /\ \A x \in Procs \ {p} : procs'[x] = procs[x]
  BY DEF IngressInv, ShapesOK, HandlersOK
<1>4. ReplayOK(procs[p])'
  BY <1>2, <1>3 DEF ReplayOK
<1>5. now <= now' /\ now' \in Nat
  BY DEF IngressInv, ShapesOK
<1>6. ASSUME NEW x \in Procs
      PROVE  \/ procs'[x] = procs[x]
             \/ /\ ReplayOK(procs[x])'
                /\ procs[x].kind = "hold" =>
                     /\ procs'[x].kind = "hold"
                     /\ procs'[x].answer \in {procs[x].answer, "replay-deferred"}
  <2>1. CASE x # p
    BY <1>3, <2>1
  <2>2. CASE x = p
    BY <1>3, <1>4, <2>2
  <2> QED
    BY <2>1, <2>2
<1> QED
  BY <1>1, <1>5, <1>6, QuietKeepsIngress

LEMMA AlarmKeepsIngress ==
  ASSUME IngressInv, HandlersOK', UNCHANGED ingress, AlarmFires \/ FinishAlarm
  PROVE  IngressInv'
<1>1. UNCHANGED <<truth, held, dropped, counted, taken, now, ingress>>
  BY DEF AlarmFires, FinishAlarm, keeping, stores, world
<1>2. PICK r : /\ procs' = [procs EXCEPT ![AlarmHandler] = r]
               /\ r.step \in {"converge", "idle"}
  <2> DEFINE firing == [Idle EXCEPT !.kind = "alarm", !.step = "converge", !.retry = alarm]
  <2>1. \/ procs' = [procs EXCEPT ![AlarmHandler] = firing]
        \/ procs' = [procs EXCEPT ![AlarmHandler] = Idle]
    BY Zenon DEF AlarmFires, FinishAlarm
  <2>2. firing.step = "converge" /\ Idle.step = "idle"
    BY DEF Idle
  <2> QED
    BY <2>1, <2>2
<1>3. procs[AlarmHandler].kind # "hold"
  BY DEF AlarmFires, FinishAlarm, Idle
<1>4. ReplayOK(r)
  BY <1>2 DEF ReplayOK
<1>5. AlarmHandler \in Procs
  BY DEF Procs
<1> QED
  BY <1>1, <1>2, <1>3, <1>4, <1>5, OneMoves

LEMMA TickKeepsIngress ==
  ASSUME IngressInv, HandlersOK', UNCHANGED ingress, Tick
  PROVE  IngressInv'
<1>1. StoresKnown' /\ CodesStay
  BY ElsewhereKeepsCodes DEF IngressInv, StoresKnown, truth, Tick
<1>2. now <= now' /\ now' \in Nat
  BY DEF IngressInv, ShapesOK, Tick
<1>3. UNCHANGED <<held, dropped, counted, taken, procs>>
  BY DEF Tick, keeping, stores
<1> QED
  BY <1>1, <1>2, <1>3, QuietKeepsIngress

\* A process that goes from q to r forgets nothing of what it holds.
Remembers(q, r) == q.kind = "hold" => r.kind = "hold" /\ r.answer \in {q.answer, "replay-deferred"}

LEMMA ConvergesKeepsIngress ==
  ASSUME IngressInv, HandlersOK', UNCHANGED ingress, NEW p \in Procs,
         \/ RunConvergence(p) \/ Push(p) \/ Pushed(p) \/ Converged(p)
         \/ ApplyProjection(p) \/ PushFails(p)
  PROVE  IngressInv'
<1>1. UNCHANGED <<truth, held, dropped, counted, taken, now, ingress>>
  <2>1. CASE RunConvergence(p) \/ Push(p) \/ Converged(p) \/ PushFails(p)
    BY <2>1 DEF RunConvergence, Push, Converged, PushFails, keeping, stores, world
  <2>2. CASE Pushed(p) \/ ApplyProjection(p)
    BY <2>2, Zenon DEF Pushed, ApplyProjection, keeping, stores, world
  <2> QED
    BY <2>1, <2>2
<1> DEFINE q == procs[p]
<1>2. IsHandler(q)
  BY DEF IngressInv, ShapesOK, HandlersOK
<1>3. PICK r : /\ procs' = [procs EXCEPT ![p] = r]
               /\ r.step \notin {"drain", "sending", "sent"}
               /\ r.kind = q.kind /\ r.answer = q.answer
  <2> USE <1>2 DEF IsHandler, Idle
  <2>1. CASE RunConvergence(p)
    <3> DEFINE r == [q EXCEPT !.step = IF residual = {} THEN "converged" ELSE "push",
                              !.residual = residual, !.base = revision,
                              !.todo = SubSeq(Ascending(residual), 1, Min({MaxPushes, Cardinality(residual)}))]
    <3>1. procs' = [procs EXCEPT ![p] = r]
      BY <2>1, Zenon DEF RunConvergence, Goes
    <3>2. r.step \in {"converged", "push"} /\ r.kind = q.kind /\ r.answer = q.answer
      OBVIOUS
    <3> QED BY <3>1, <3>2
  <2>2. CASE Push(p)
    <3>1. PICK step \in {"converged", "pushing"} :
            procs' = [procs EXCEPT ![p] = [q EXCEPT !.step = step]]
      BY <2>2, Zenon DEF Push, Goes, Waits
    <3> DEFINE r == [q EXCEPT !.step = step]
    <3>2. r.step = step /\ r.kind = q.kind /\ r.answer = q.answer
      OBVIOUS
    <3> QED BY <3>1, <3>2
  <2>3. CASE Pushed(p)
    <3> DEFINE left == NextResidual(q.residual, Head(q.todo), q.reply # None)
               on == [q EXCEPT !.step = "push", !.reply = None, !.residual = left,
                               !.todo = Tail(@)]
               over == [q EXCEPT !.step = "converged", !.reply = None, !.failed = TRUE]
    <3>1. procs' = [procs EXCEPT ![p] = on] \/ procs' = [procs EXCEPT ![p] = over]
      BY <2>3, Zenon DEF Pushed
    <3>2. on.step = "push" /\ on.kind = q.kind /\ on.answer = q.answer
      OBVIOUS
    <3>3. over.step = "converged" /\ over.kind = q.kind /\ over.answer = q.answer
      OBVIOUS
    <3> HIDE DEF on, over
    <3> QED BY <3>1, <3>2, <3>3
  <2>4. CASE Converged(p)
    <3> DEFINE r == [q EXCEPT !.step = "replay", !.todo = <<>>,
                              !.codes = IF q.kind = "alarm" THEN replayResidual ELSE @,
                              !.replays = q.kind = "alarm" /\ replayResidual # <<>>]
    <3>1. procs' = [procs EXCEPT ![p] = r]
      BY <2>4, Zenon DEF Converged, Goes
    <3>2. r.step = "replay" /\ r.kind = q.kind /\ r.answer = q.answer
      OBVIOUS
    <3> HIDE DEF r
    <3> QED BY <3>1, <3>2
  <2>5. CASE ApplyProjection(p) \/ PushFails(p)
    <3>0. PICK reply : procs' = [procs EXCEPT ![p].step = "pushed", ![p].reply = reply]
      BY <2>5, Zenon DEF ApplyProjection, PushFails
    <3> DEFINE r == [q EXCEPT !.step = "pushed", !.reply = reply]
    <3>1. procs' = [procs EXCEPT ![p] = r]
      BY <3>0 DEF IngressInv, ShapesOK, HandlersOK
    <3>2. r.step = "pushed" /\ r.kind = q.kind /\ r.answer = q.answer
      OBVIOUS
    <3> QED BY <3>1, <3>2
  <2> QED
    BY <2>1, <2>2, <2>3, <2>4, <2>5
<1>4. ReplayOK(r)
  BY <1>3 DEF ReplayOK
<1> QED
  BY <1>1, <1>3, <1>4, OneMoves

LEMMA ReplayKeepsIngress ==
  ASSUME IngressInv, HandlersOK', UNCHANGED ingress, NEW p \in Procs,
         ReplayUnrouted(p) \/ FinishRequest(p) \/ SendFails(p)
  PROVE  IngressInv'
<1>1. UNCHANGED <<truth, held, dropped, counted, taken, now, ingress>>
  BY DEF ReplayUnrouted, FinishRequest, SendFails, keeping, stores, world
<1> DEFINE q == procs[p]
<1>2. IsHandler(q) /\ ReplayOK(q)
  BY DEF IngressInv, ShapesOK, HandlersOK, ReplaysOK
<1>3. PICK r : /\ procs' = [procs EXCEPT ![p] = r] /\ ReplayOK(r) /\ Remembers(q, r)
  <2> USE <1>2 DEF IsHandler, Idle
  <2>1. CASE ReplayUnrouted(p)
    <3>1. CASE \/ Head(q.codes) \in replaying
               \/ StoreForCode(codeIndex, Head(q.codes)) = None
      <4> DEFINE r == [q EXCEPT !.codes = Tail(@)]
      <4>1. procs' = [procs EXCEPT ![p] = r]
        BY <2>1, <3>1 DEF ReplayUnrouted, Goes
      <4>2. r.step = "replay" /\ r.kind = q.kind /\ r.answer = q.answer
        BY <2>1 DEF ReplayUnrouted, At
      <4> QED BY <4>1, <4>2 DEF ReplayOK, Remembers
    <3>2. CASE ~ \/ Head(q.codes) \in replaying
                 \/ StoreForCode(codeIndex, Head(q.codes)) = None
      <4> DEFINE r == [q EXCEPT !.step = "drain"]
      <4>1. procs' = [procs EXCEPT ![p] = r]
        BY <2>1, <3>2 DEF ReplayUnrouted, Goes
      <4>2. /\ r.step = "drain" /\ r.kind = q.kind /\ r.answer = q.answer /\ r.codes = q.codes
        OBVIOUS
      <4>3. StoreOf(Head(r.codes)) # None
        BY <3>2, <4>2 DEF StoreOf
      <4> HIDE DEF r
      <4>4. ReplayOK(r) /\ Remembers(q, r)
        BY <4>2, <4>3 DEF ReplayOK, Remembers
      <4> QED BY <4>1, <4>4
    <3> QED BY <3>1, <3>2
  <2>2. CASE FinishRequest(p)
    <3> DEFINE done == [q EXCEPT !.step = "done"]
    <3>1. procs' = [procs EXCEPT ![p] = IF q.kind = "hold" THEN done ELSE Idle]
      BY <2>2 DEF FinishRequest
    <3>2. done.step = "done" /\ done.kind = q.kind /\ done.answer = q.answer
          /\ Idle.step = "idle"
      OBVIOUS
    <3> HIDE DEF done, Idle
    <3>3. CASE q.kind = "hold"
      <4>1. procs' = [procs EXCEPT ![p] = done] /\ ReplayOK(done) /\ Remembers(q, done)
        BY <3>1, <3>2, <3>3 DEF ReplayOK, Remembers
      <4> QED BY <4>1
    <3>4. CASE q.kind # "hold"
      <4>1. procs' = [procs EXCEPT ![p] = Idle] /\ ReplayOK(Idle) /\ Remembers(q, Idle)
        BY <3>1, <3>2, <3>4 DEF ReplayOK, Remembers
      <4> QED BY <4>1
    <3> QED BY <3>3, <3>4
  <2>3. CASE SendFails(p)
    <3> DEFINE r == [q EXCEPT !.step = "sent", !.reply = "failed"]
    <3>1. procs' = [procs EXCEPT ![p] = r]
      BY <2>3 DEF SendFails, IngressInv, ShapesOK, HandlersOK
    <3>2. /\ r.step = "sent" /\ r.kind = q.kind /\ r.answer = q.answer /\ r.codes = q.codes
          /\ r.reply = "failed"
      OBVIOUS
    <3>3. q.step = "sending"
      BY <2>3 DEF SendFails
    <3> HIDE DEF r
    <3>4. ReplayOK(r) /\ Remembers(q, r)
      BY <1>2, <3>2, <3>3 DEF ReplayOK, Remembers
    <3> QED BY <3>1, <3>4
  <2> QED
    BY <2>1, <2>2, <2>3
<1> QED
  BY <1>1, <1>3, OneMoves DEF Remembers

\* A request that changes the ideal: stores get codes, none loses one.
LEMMA ProvisionKeepsIngress ==
  ASSUME IngressInv, HandlersOK', UNCHANGED ingress, NEW p \in Requests, Provision(p)
  PROVE  IngressInv'
<1>1. CodesInv' /\ CodesStay
  BY ProvisionKeepsCodes DEF IngressInv, StoresKnown
<1>2. PICK newIdeal, affected, codes : CommitIdeal(p, newIdeal, affected, codes) /\ Served
  BY ProvisionCommits
<1>3. DOMAIN ideal'.stores \subseteq Stores
  <2> DEFINE Within == DOMAIN ideal'.stores \subseteq Stores
  <2>0. DOMAIN ideal.stores \subseteq Stores /\ DOMAIN ideal = DOMAIN EmptyIdeal
    BY DEF IngressInv, StoresKnown, CodesInv
  <2>1. ASSUME NEW written, DOMAIN written \subseteq Stores, WriteStores(p, written)
        PROVE  Within
    <3> DEFINE new == [s \in DOMAIN ideal.stores \cup DOMAIN written |->
                         IF s \in DOMAIN written THEN written[s] ELSE ideal.stores[s]]
    <3>1. ideal' = [ideal EXCEPT !.stores = new]
      BY <2>1, Zenon DEF WriteStores, CommitIdeal
    <3> QED
      BY <2>0, <2>1, <3>1 DEF EmptyIdeal
  <2>2. ASSUME NEW c \in Chains, NEW roster \in Rosters, CreateOrUpdateChain(p, c, roster)
        PROVE  Within
    BY <2>0, <2>2 DEF CreateOrUpdateChain, CommitIdeal, EmptyIdeal
  <2>3. ASSUME NEW id, NEW policy, CreateOrUpdatePolicy(p, id, policy)
        PROVE  Within
    BY <2>0, <2>3 DEF CreateOrUpdatePolicy, CommitIdeal, EmptyIdeal
  <2>4. ASSUME NEW s \in Stores, NEW body, CreateStore(p, s, body) \/ UpdateStore(p, s, body)
        PROVE  Within
    <3>1. PICK store : WriteStores(p, [t \in {s} |-> store])
      <4>1. [t \in {s} |-> UpdatedStore(ideal.stores[t], body)] =
              [t \in {s} |-> UpdatedStore(ideal.stores[s], body)]
        OBVIOUS
      <4> QED
        BY <2>4, <4>1 DEF CreateStore, UpdateStore
    <3> QED
      BY <2>1, <3>1
  <2>5. ASSUME NEW batch \in Batches, UpsertStores(p, batch)
        PROVE  Within
    <3>1. PICK written : DOMAIN written = DOMAIN batch /\ WriteStores(p, written)
      <4> DEFINE w == [s \in DOMAIN batch |->
                         IF s \in DOMAIN ideal.stores THEN UpdatedStore(ideal.stores[s], batch[s])
                         ELSE [NewStore(batch[s]) EXCEPT
                                 !.policyIds = Given(batch[s], "policyIds", {})]]
      <4>1. DOMAIN w = DOMAIN batch /\ WriteStores(p, w)
        BY <2>5, Zenon DEF UpsertStores
      <4> QED
        BY <4>1
    <3> QED
      BY <2>1, <3>1, StoreRegistryAssumption
  <2> HIDE DEF Within
  <2> QED
    BY <2>2, <2>3, <2>4, <2>5, Zenon DEF Provision, Within
<1>4. /\ UNCHANGED <<held, dropped, counted, taken, now, ingress>>
      /\ procs[p] = Idle
      /\ procs' = [procs EXCEPT ![p] = [Idle EXCEPT !.kind = "provision", !.step = "converge",
                                                    !.codes = codes]]
  BY <1>2 DEF CommitIdeal, Served, keeping, stores, world
<1>5. procs'[p].step = "converge" /\ \A x \in Procs \ {p} : procs'[x] = procs[x]
  BY <1>4 DEF Procs, IngressInv, ShapesOK, HandlersOK, Idle
<1>6. ReplayOK(procs[p])' /\ procs[p].kind # "hold"
  BY <1>4, <1>5 DEF ReplayOK, Idle
<1>7. ASSUME NEW x \in Procs
      PROVE  \/ procs'[x] = procs[x]
             \/ /\ ReplayOK(procs[x])'
                /\ procs[x].kind = "hold" =>
                     /\ procs'[x].kind = "hold"
                     /\ procs'[x].answer \in {procs[x].answer, "replay-deferred"}
  <2>1. CASE x # p
    BY <1>5, <2>1
  <2>2. CASE x = p
    BY <1>6, <2>2
  <2> QED
    BY <2>1, <2>2
<1>8. StoresKnown' /\ now <= now' /\ now' \in Nat
  BY <1>1, <1>3, <1>4 DEF StoresKnown, IngressInv, ShapesOK
<1> QED
  BY <1>1, <1>4, <1>7, <1>8, QuietKeepsIngress

\* A held record that may not be replayed any more is too old.
LEMMA NotReplayable ==
  ASSUME IngressInv, NEW c \in Codes, NEW h \in Range(held[c]), ~IsHeldReplayable(h, now)
  PROVE  Expired(h.seq) /\ Past(c, h.seq)
<1>1. /\ h.seq \in 1..MaxRecords /\ h.arrival = Arrival[h.seq] /\ h.heldAt \in Nat
      /\ h.arrival <= h.heldAt /\ h.heldAt <= now
  BY DEF IngressInv, HeldOK
<1>2. h.arrival \in Nat /\ now \in Nat /\ ArrivalWindow \in Nat
  BY <1>1, PosIngressAssumption, RegistryCoreAssumption DEF IngressInv, ShapesOK
<1>3. Expired(h.seq)
  BY <1>1, <1>2 DEF Expired, IsHeldReplayable, IsHeldExpired, IsWithinArrivalWindow
<1>4. h.seq \in Kept(c)
  BY SeqsOfRange DEF Kept
<1> QED
  BY <1>3, <1>4 DEF Past

LEMMA ReplayableHas ==
  ASSUME IngressInv, NEW c \in Codes
  PROVE  /\ IsList(Replayable(c))
         /\ Range(Replayable(c)) = {h \in Range(held[c]) : IsHeldReplayable(h, now)}
<1> DEFINE keep == {h \in Range(held[c]) : IsHeldReplayable(h, now)}
<1>1. IsList(held[c])
  BY DEF IngressInv, ShapesOK
<1>2. /\ IsList(Filtered(held[c], keep))
      /\ Range(Filtered(held[c], keep)) = Range(held[c]) \cap keep
  <2> HIDE DEF keep
  <2> QED
    BY <1>1, FilteredHas
<1> QED
  BY <1>2 DEF Replayable

\* retainReplayable and its send: with a record goes all that precedes it and may still be sent.
LEMMA ReplayableIsPrepared ==
  ASSUME IngressInv, NEW c \in Codes
  PROVE  Prepared(c, SeqsOf(Replayable(c)))
<1> DEFINE seqs == SeqsOf(Replayable(c))
<1>1. seqs = {h.seq : h \in {x \in Range(held[c]) : IsHeldReplayable(x, now)}}
  BY ReplayableHas, SeqsOfRange
<1> HIDE DEF seqs
<1>2. seqs \subseteq 1..MaxRecords
  BY <1>1 DEF IngressInv, HeldOK
<1>3. ASSUME NEW k \in seqs, NEW m \in 1..k, m \notin seqs, m \notin Gone(c)
      PROVE  Past(c, m)
  <2>1. PICK h \in Range(held[c]) : h.seq = k
    BY <1>1
  <2>2. m \in Kept(c) \/ Past(c, m)
    BY <2>1 DEF IngressInv, HeldOK
  <2>3. CASE m \in SeqsOf(held[c])
    <3>1. PICK x \in Range(held[c]) : x.seq = m
      BY <2>3, SeqsOfRange
    <3>2. ~IsHeldReplayable(x, now)
      BY <1>1, <1>3, <3>1
    <3> QED
      BY <3>1, <3>2, NotReplayable
  <2> QED
    BY <1>3, <2>2, <2>3 DEF Kept
<1> QED
  BY <1>2, <1>3 DEF Prepared, seqs

\* Held records are let go because they are gone, or noted as dropped.
LEMMA HeldShrinks ==
  ASSUME IngressInv, HandlersOK', UNCHANGED <<truth, counted, taken, now, ingress>>,
         DOMAIN held' = Codes, dropped \subseteq dropped',
         \A c \in Codes : /\ IsList(held'[c]) /\ Range(held'[c]) \subseteq Range(held[c])
                          /\ SeqsOf(held[c]) \subseteq SeqsOf(held'[c]) \cup Gone(c)',
         \A p \in Procs : \/ procs'[p] = procs[p]
                          \/ /\ ReplayOK(procs[p])'
                             /\ procs[p].kind = "hold" =>
                                  /\ procs'[p].kind = "hold"
                                  /\ procs'[p].answer \in {procs[p].answer, "replay-deferred"}
  PROVE  IngressInv'
<1>0. StoresKnown' /\ CodesStay
  BY ElsewhereKeepsCodes DEF IngressInv, StoresKnown, truth
<1>1. ShapesOK'
  BY DEF IngressInv, ShapesOK, ingress
<1>2. \A c \in Codes : Gone(c) \subseteq Gone(c)' /\ Kept(c) \subseteq Kept(c)'
  <2>1. \A c \in Codes : Gone(c) \subseteq Gone(c)'
    BY <1>0, GoneStays DEF IngressInv, ingress
  <2> QED
    BY <2>1 DEF Kept
<1>3. \A w \in Workers : OnlyOld(w)
  BY Zenon DEF OnlyOld, ingress
<1>4. now <= now'
  BY DEF IngressInv, ShapesOK
<1>5. Grows
  <2>1. \A c \in Codes : \A n \in 1..MaxRecords : Past(c, n) => Past(c, n)'
    BY <1>1, <1>2, <1>3, <1>4, PastStays DEF IngressInv
  <2>2. \A c \in Codes : StoreOf(c) # None => counted[StoreOf(c)] <= counted'[StoreOf(c)]
    BY PosIngressAssumption DEF IngressInv, CountedOK
  <2> QED
    BY <1>0, <1>2, <1>4, <2>1, <2>2 DEF Grows
<1>6. CountedOK'
  BY <1>0, <1>5, CountedStays DEF IngressInv
<1> QED
  BY <1>0, <1>1, <1>5, <1>6, RegistryKeepsIngress

LEMMA DrainKeepsIngress ==
  ASSUME IngressInv, HandlersOK', UNCHANGED ingress, NEW p \in Procs, DrainUnrouted(p)
  PROVE  IngressInv'
<1>0. PICK q, c : q = procs[p] /\ c = Head(q.codes)
  OBVIOUS
<1>1. /\ UNCHANGED <<truth, counted, taken, now, ingress>> /\ q.step = "drain"
      /\ IF Replayable(c) = <<>>
         THEN /\ held' = [held EXCEPT ![c] = <<>>]
              /\ dropped' = dropped \cup {<<c, n>> : n \in SeqsOf(held[c])}
              /\ procs' = [procs EXCEPT ![p] = [procs[p] EXCEPT !.step = "replay",
                                                        !.codes = Tail(@), !.sent = <<>>]]
         ELSE /\ procs' = [procs EXCEPT ![p] = [q EXCEPT !.step = "sending",
                                                         !.sent = Replayable(c)]]
              /\ UNCHANGED <<held, dropped>>
  BY <1>0, Zenon DEF DrainUnrouted, ReplayEnds, Goes, Waits, At, stores, world
<1>2. IsHandler(q) /\ ReplayOK(q)
  BY <1>0 DEF IngressInv, ShapesOK, HandlersOK, ReplaysOK
<1>3. CASE Replayable(c) = <<>>
  <2>1. PICK r : /\ procs' = [procs EXCEPT ![p] = r] /\ r.step = "replay"
                 /\ r.kind = q.kind /\ r.answer = q.answer
    <3> DEFINE r == [q EXCEPT !.step = "replay", !.codes = Tail(@), !.sent = <<>>]
    <3>1. procs' = [procs EXCEPT ![p] = r]
      BY <1>0, <1>1, <1>3
    <3>2. r.step = "replay" /\ r.kind = q.kind /\ r.answer = q.answer
      BY <1>2 DEF IsHandler, Idle
    <3> QED
      BY <3>1, <3>2
  <2>2. procs'[p] = r /\ \A x \in Procs \ {p} : procs'[x] = procs[x]
    BY <2>1 DEF IngressInv, ShapesOK, HandlersOK
  <2>3. ReplayOK(procs[p])'
    BY <2>1, <2>2 DEF ReplayOK
  <2>4. ASSUME NEW x \in Procs
        PROVE  \/ procs'[x] = procs[x]
               \/ /\ ReplayOK(procs[x])'
                  /\ procs[x].kind = "hold" =>
                       /\ procs'[x].kind = "hold"
                       /\ procs'[x].answer \in {procs[x].answer, "replay-deferred"}
    <3>1. CASE x # p
      BY <2>2, <3>1
    <3>2. CASE x = p
      BY <1>0, <2>1, <2>2, <2>3, <3>2
    <3> QED
      BY <3>1, <3>2
  <2>5. DOMAIN held' = Codes /\ dropped \subseteq dropped'
    BY <1>1, <1>3 DEF IngressInv, ShapesOK
  <2>6. ASSUME NEW d \in Codes
        PROVE  /\ IsList(held'[d]) /\ Range(held'[d]) \subseteq Range(held[d])
               /\ SeqsOf(held[d]) \subseteq SeqsOf(held'[d]) \cup Gone(d)'
    <3>1. CASE d # c
      BY <1>1, <1>3, <3>1 DEF IngressInv, ShapesOK
    <3>2. CASE d = c
      <4>1. held'[d] = <<>>
        BY <1>1, <1>3, <3>2 DEF IngressInv, ShapesOK
      <4>2. IsList(held'[d]) /\ Range(held'[d]) = {}
        BY <4>1, EmptySeq DEF IsList, Range
      <4>3. \A n \in SeqsOf(held[d]) : <<d, n>> \in dropped'
        BY <1>1, <1>3, <3>2
      <4>4. SeqsOf(held[d]) \subseteq DroppedOf(d)'
        BY <4>3, DroppedAfter
      <4> QED
        BY <4>2, <4>4 DEF Gone
    <3> QED
      BY <3>1, <3>2
  <2> QED
    BY <1>1, <2>4, <2>5, <2>6, HeldShrinks
<1>4. CASE Replayable(c) # <<>>
  <2> DEFINE r == [q EXCEPT !.step = "sending", !.sent = Replayable(c)]
  <2>1. procs' = [procs EXCEPT ![p] = r] /\ UNCHANGED <<held, dropped>>
    BY <1>1, <1>4
  <2>2. /\ r.step = "sending" /\ r.kind = q.kind /\ r.answer = q.answer /\ r.codes = q.codes
        /\ r.sent = Replayable(c)
    BY <1>2 DEF IsHandler, Idle
  <2> HIDE DEF r
  <2>3. StoreOf(c) # None
    BY <1>0, <1>1, <1>2 DEF ReplayOK
  <2>4. ReplayOK(r)
    BY <1>0, <2>2, <2>3, ReplayableIsPrepared DEF ReplayOK
  <2> QED
    BY <1>0, <1>1, <2>1, <2>2, <2>4, OneMoves
<1> QED
  BY <1>3, <1>4

LEMMA UnsentHas ==
  ASSUME IngressInv, NEW c \in Codes, NEW sentList
  PROVE  /\ IsList(RetainUnsent(c, sentList))
         /\ Range(RetainUnsent(c, sentList)) =
              {h \in Range(held[c]) : /\ IsHeldReplayable(h, now)
                                      /\ \A n \in SeqsOf(sentList) : h.seq > n}
<1> DEFINE keep == {h \in Range(held[c]) : \A n \in SeqsOf(sentList) : h.seq > n}
           alive == Replayable(c)
<1>1. IsList(alive) /\ Range(alive) = {h \in Range(held[c]) : IsHeldReplayable(h, now)}
  BY ReplayableHas
<1> HIDE DEF alive
<1>2. IsList(Filtered(alive, keep)) /\ Range(Filtered(alive, keep)) = Range(alive) \cap keep
  <2> HIDE DEF keep
  <2> QED
    BY <1>1, FilteredHas
<1>3. Range(alive) \cap keep = {h \in Range(held[c]) : /\ IsHeldReplayable(h, now)
                                                        /\ \A n \in SeqsOf(sentList) : h.seq > n}
  BY <1>1
<1> QED
  BY <1>2, <1>3 DEF RetainUnsent, alive

\* drainUnrouted, when the store has settled what was sent: what goes was sent, and taken then
\* or before, or is too old.
LEMMA SettledKeepsIngress ==
  ASSUME IngressInv, HandlersOK', UNCHANGED ingress, NEW p \in Procs, Sent(p),
         procs[p].reply = "settled"
  PROVE  IngressInv'
<1>0. PICK q, c : q = procs[p] /\ c = Head(q.codes)
  OBVIOUS
<1>1. /\ UNCHANGED <<truth, counted, taken, now, ingress>> /\ q.step = "sent"
      /\ held' = [held EXCEPT ![c] = RetainUnsent(c, q.sent)]
      /\ dropped' = dropped \cup {<<c, n>> : n \in SeqsOf(held[c]) \ SeqsOf(Replayable(c))}
      /\ procs' = [procs EXCEPT ![p] = [procs[p] EXCEPT !.step = "drain", !.sent = <<>>,
                                                        !.reply = None]]
  BY <1>0, Zenon DEF Sent, stores, world
<1>2. IsHandler(q) /\ ReplayOK(q)
  BY <1>0 DEF IngressInv, ShapesOK, HandlersOK, ReplaysOK
<1>3. PICK r : /\ procs' = [procs EXCEPT ![p] = r] /\ r.step = "drain"
               /\ r.kind = q.kind /\ r.answer = q.answer /\ r.codes = q.codes
  <2> DEFINE r == [q EXCEPT !.step = "drain", !.sent = <<>>, !.reply = None]
  <2>1. procs' = [procs EXCEPT ![p] = r]
    BY <1>0, <1>1
  <2>2. r.step = "drain" /\ r.kind = q.kind /\ r.answer = q.answer /\ r.codes = q.codes
    BY <1>2 DEF IsHandler, Idle
  <2> QED
    BY <2>1, <2>2
<1>4. procs'[p] = r /\ \A x \in Procs \ {p} : procs'[x] = procs[x]
  BY <1>3 DEF IngressInv, ShapesOK, HandlersOK
<1>5. StoreOf(c) # None
  BY <1>0, <1>1, <1>2 DEF ReplayOK
<1>6. ReplayOK(procs[p])'
  <2>1. StoreOf(c)' = StoreOf(c)
    BY <1>1 DEF StoreOf, truth
  <2> QED
    BY <1>0, <1>3, <1>4, <1>5, <2>1 DEF ReplayOK
<1>7. ASSUME NEW x \in Procs
      PROVE  \/ procs'[x] = procs[x]
             \/ /\ ReplayOK(procs[x])'
                /\ procs[x].kind = "hold" =>
                     /\ procs'[x].kind = "hold"
                     /\ procs'[x].answer \in {procs[x].answer, "replay-deferred"}
  <2>1. CASE x # p
    BY <1>4, <2>1
  <2>2. CASE x = p
    BY <1>0, <1>3, <1>4, <1>6, <2>2
  <2> QED
    BY <2>1, <2>2
<1>8. DOMAIN held' = Codes /\ dropped \subseteq dropped'
  BY <1>1 DEF IngressInv, ShapesOK
<1>9. ASSUME NEW d \in Codes
      PROVE  /\ IsList(held'[d]) /\ Range(held'[d]) \subseteq Range(held[d])
             /\ SeqsOf(held[d]) \subseteq SeqsOf(held'[d]) \cup Gone(d)'
  <2>1. CASE d # c
    BY <1>1, <2>1 DEF IngressInv, ShapesOK
  <2>2. CASE d = c
    <3>1. held'[d] = RetainUnsent(d, q.sent)
      BY <1>1, <2>2 DEF IngressInv, ShapesOK
    <3>2. /\ IsList(held'[d])
          /\ Range(held'[d]) = {h \in Range(held[d]) : /\ IsHeldReplayable(h, now)
                                                       /\ \A n \in SeqsOf(q.sent) : h.seq > n}
      BY <3>1, UnsentHas
    <3>3. ASSUME NEW h \in Range(held[d]), h.seq \notin SeqsOf(held'[d])
          PROVE  h.seq \in Gone(d)'
      <4>1. CASE h.seq \notin SeqsOf(Replayable(d))
        <5>1. h.seq \in SeqsOf(held[d])
          BY SeqsOfRange
        <5>2. <<d, h.seq>> \in dropped'
          BY <1>1, <2>2, <4>1, <5>1
        <5> QED
          BY <5>2, DroppedAfter DEF Gone
      <4>2. CASE h.seq \in SeqsOf(Replayable(d))
        <5>1. PICK x \in Range(held[d]) : x.seq = h.seq /\ IsHeldReplayable(x, now)
          BY <4>2, ReplayableHas, SeqsOfRange
        <5>2. x \notin Range(held'[d])
          BY <3>3, <5>1, SeqsOfRange
        <5>3. PICK n \in SeqsOf(q.sent) : ~(x.seq > n)
          BY <3>2, <5>1, <5>2
        <5>4. n \in 1..counted[StoreOf(d)] /\ counted[StoreOf(d)] \in 0..MaxRecords
          BY <1>0, <1>1, <1>2, <1>5, <2>2 DEF ReplayOK, IngressInv, CountedOK
        <5>5. /\ x.seq \in 1..MaxRecords /\ x.arrival = Arrival[x.seq] /\ now \in Nat
              /\ MaxRecords \in Nat /\ x.arrival \in Nat
          BY PosIngressAssumption DEF IngressInv, HeldOK, ShapesOK
        <5>6. x.seq \in 1..counted[StoreOf(d)]
          BY <5>3, <5>4, <5>5
        <5>7. ~Expired(x.seq)
          BY <5>1, <5>5, RegistryCoreAssumption
             DEF Expired, IsHeldReplayable, IsWithinArrivalWindow
        <5>8. x.seq \in Gone(d)
          BY <1>5, <2>2, <5>6, <5>7 DEF IngressInv, CountedOK, Past
        <5>9. Gone(d) \subseteq Gone(d)'
          BY <1>1, <1>8, GoneStays, ElsewhereKeepsCodes DEF IngressInv, StoresKnown, truth, ingress
        <5> QED
          BY <5>1, <5>8, <5>9
      <4> QED
        BY <4>1, <4>2
    <3>4. Range(held'[d]) \subseteq Range(held[d])
      BY <3>2
    <3>5. SeqsOf(held[d]) \subseteq SeqsOf(held'[d]) \cup Gone(d)'
      BY <3>3, SeqsOfRange
    <3> QED
      BY <3>2, <3>4, <3>5
  <2> QED
    BY <2>1, <2>2
<1> QED
  BY <1>1, <1>7, <1>8, <1>9, HeldShrinks

\* Otherwise the replay ends, or is put off; a request is told so.
LEMMA SentKeepsIngress ==
  ASSUME IngressInv, HandlersOK', UNCHANGED ingress, NEW p \in Procs, Sent(p)
  PROVE  IngressInv'
<1> SUFFICES ASSUME procs[p].reply # "settled" PROVE IngressInv'
  BY SettledKeepsIngress
<1> DEFINE q == procs[p]
           on == [q EXCEPT !.step = "replay", !.codes = Tail(@), !.sent = <<>>, !.reply = None]
<1>1. UNCHANGED <<truth, held, dropped, counted, taken, now, ingress>>
  BY Zenon DEF Sent, stores, world
<1>2. \/ procs' = [procs EXCEPT ![p] = on]
      \/ procs' = [procs EXCEPT ![p] = [on EXCEPT !.remaining = Append(@, Head(q.codes))]]
      \/ procs' = [procs EXCEPT ![p] = [on EXCEPT !.answer = "replay-deferred"]]
  BY DEF Sent, PutOff
<1>3. IsHandler(q)
  BY DEF IngressInv, ShapesOK, HandlersOK
<1>4. IsHandler(on) /\ on.step = "replay" /\ on.kind = q.kind /\ on.answer = q.answer
  BY <1>3 DEF IsHandler, Idle
<1> HIDE DEF on
<1>5. PICK r : /\ procs' = [procs EXCEPT ![p] = r] /\ r.step = "replay" /\ r.kind = q.kind
               /\ r.answer \in {q.answer, "replay-deferred"}
  <2> DEFINE put == [on EXCEPT !.remaining = Append(@, Head(q.codes))]
             told == [on EXCEPT !.answer = "replay-deferred"]
  <2>1. put.step = "replay" /\ put.kind = q.kind /\ put.answer = q.answer
    BY <1>4 DEF IsHandler, Idle
  <2>2. told.step = "replay" /\ told.kind = q.kind /\ told.answer = "replay-deferred"
    BY <1>4 DEF IsHandler, Idle
  <2> HIDE DEF put, told
  <2> QED
    BY <1>2, <1>4, <2>1, <2>2 DEF put, told
<1>6. ReplayOK(r)
  BY <1>5 DEF ReplayOK
<1> QED
  BY <1>1, <1>5, <1>6, OneMoves

\* What a store takes of records sent together, none of them unknown.
LEMMA TakeTakes ==
  ASSUME IngressInv, NEW s \in Stores, counted[s] \in 0..MaxRecords,
         NEW seqs, seqs \subseteq 1..MaxRecords, Take(s, seqs)
  PROVE  /\ DOMAIN counted' = Stores /\ DOMAIN taken' = Stores
         /\ \A t \in Stores : taken[t] \subseteq taken'[t] /\ (t # s => counted'[t] = counted[t])
         /\ counted[s] <= counted'[s] /\ counted'[s] \in 0..MaxRecords
         /\ counted'[s] # counted[s] => counted'[s] \in seqs
         /\ \A n \in seqs : n <= counted'[s] /\ n > counted[s] => n \in taken'[s]
         /\ OutcomeAt(s) = "settled" => \A n \in seqs : n <= counted'[s]
<1>0. DOMAIN counted = Stores /\ DOMAIN taken = Stores /\ MaxRecords \in Nat
  BY PosIngressAssumption DEF IngressInv, ShapesOK
<1>1. CASE OutcomeAt(s) # "settled"
  <2>1. UNCHANGED <<taken, counted>>
    BY <1>1 DEF Take
  <2> QED
    BY <1>0, <1>1, <2>1
<1>2. CASE OutcomeAt(s) = "settled"
  <2> DEFINE S == seqs \cup {counted[s]}
  <2>1. /\ taken' = [taken EXCEPT ![s] = @ \cup {n \in seqs : n > counted[s]}]
        /\ counted' = [counted EXCEPT ![s] = Max(S)]
    BY <1>2 DEF Take
  <2>2. S \subseteq 0..MaxRecords /\ S # {}
    <3>1. \A x : x \in 1..MaxRecords => x \in 0..MaxRecords
      BY <1>0
    <3> QED
      BY <3>1
  <2>3. Max(S) \in S /\ \A y \in S : y <= Max(S)
    <3> HIDE DEF S
    <3> QED
      BY <1>0, <2>2, MaxIsLargest
  <2>4. counted[s] <= Max(S) /\ (\A n \in seqs : n <= Max(S)) /\ Max(S) \in 0..MaxRecords
        /\ (Max(S) # counted[s] => Max(S) \in seqs)
    BY <2>2, <2>3
  <2>5. counted'[s] = Max(S) /\ \A t \in Stores : t # s => counted'[t] = counted[t]
    BY <1>0, <2>1
  <2>6. /\ \A t \in Stores : taken[t] \subseteq taken'[t]
        /\ \A n \in seqs : n > counted[s] => n \in taken'[s]
    BY <1>0, <2>1
  <2>7. DOMAIN counted' = Stores /\ DOMAIN taken' = Stores
    BY <1>0, <2>1
  <2> HIDE DEF S
  <2> QED
    BY <2>4, <2>5, <2>6, <2>7
<1> QED
  BY <1>1, <1>2

\* What a store has counted after it took records that may be sent together.
LEMMA TakeCounts ==
  ASSUME IngressInv, Grows, UNCHANGED codeIndex, ShapesOK',
         NEW c \in Codes, NEW s, s = StoreOf(c), s # None,
         NEW seqs, Prepared(c, seqs), Take(s, seqs)
  PROVE  /\ CountedOK'
         /\ \A n \in seqs : n <= counted'[s] => n \in Gone(c)' \/ Past(c, n)'
<1>1. /\ c \in DOMAIN codeIndex /\ codeIndex[c] = s /\ s \in Stores
      /\ \A d \in DOMAIN codeIndex : codeIndex[d] = s => d = c
  BY IndexIsOneToOne DEF IngressInv, OneToOne, StoreOf, StoreForCode
<1>2. /\ counted[s] \in 0..MaxRecords
      /\ \A m \in 1..counted[s] : m \in Gone(c) \/ Past(c, m)
  BY DEF IngressInv, CountedOK
<1>3. seqs \subseteq 1..MaxRecords
  BY DEF Prepared
<1>4. /\ \A t \in Stores : t # s => counted'[t] = counted[t]
      /\ counted[s] <= counted'[s] /\ counted'[s] \in 0..MaxRecords
      /\ counted'[s] # counted[s] => counted'[s] \in seqs
      /\ \A n \in seqs : n <= counted'[s] /\ n > counted[s] => n \in taken'[s]
  BY <1>1, <1>2, <1>3, TakeTakes
<1>5. \A d : StoreOf(d)' = StoreOf(d)
  BY DEF StoreOf
<1>6. /\ Gone(c) \subseteq Gone(c)' /\ taken'[s] \subseteq Gone(c)'
      /\ \A n \in 1..MaxRecords : Past(c, n) => Past(c, n)'
  BY <1>5 DEF Grows, Gone, TakenOf, StoreOf
<1>7. ASSUME NEW n \in seqs, n <= counted'[s]
      PROVE  n \in Gone(c)' \/ Past(c, n)'
  <2>1. CASE n > counted[s]
    BY <1>4, <1>6, <1>7, <2>1
  <2>2. CASE ~(n > counted[s])
    <3>1. n \in 1..counted[s] /\ n \in 1..MaxRecords
      BY <1>2, <1>3, <2>2
    <3> QED
      BY <1>2, <1>6, <3>1
  <2> QED
    BY <2>1, <2>2
<1>8. ASSUME NEW m \in 1..counted'[s]
      PROVE  m \in Gone(c)' \/ Past(c, m)'
  <2>0. m \in 1..MaxRecords /\ MaxRecords \in Nat
    BY <1>4, <1>8, PosIngressAssumption
  <2>1. CASE counted'[s] = counted[s]
    BY <1>2, <1>6, <1>8, <2>0, <2>1
  <2>2. CASE counted'[s] # counted[s]
    <3>1. m \in seqs \cup Gone(c) \/ Past(c, m)
      BY <1>4, <1>8, <2>2 DEF Prepared
    <3>2. m <= counted'[s]
      BY <1>4, <1>8
    <3> QED
      BY <1>6, <1>7, <2>0, <3>1, <3>2
  <2> QED
    BY <2>1, <2>2
<1>9. ASSUME NEW t \in Stores, counted'[t] # 0
      PROVE  \E d \in DOMAIN codeIndex' : codeIndex'[d] = t
  BY <1>1, <1>4, <1>9 DEF IngressInv, CountedOK
<1>10. ASSUME NEW d \in Codes, StoreOf(d)' # None
       PROVE  /\ counted'[StoreOf(d)'] \in 0..MaxRecords
              /\ \A m \in 1..counted'[StoreOf(d)'] : m \in Gone(d)' \/ Past(d, m)'
  <2>1. CASE d = c
    BY <1>4, <1>5, <1>8, <2>1
  <2>2. CASE d # c
    <3>1. StoreOf(d) # None /\ StoreOf(d) = StoreOf(d)'
      BY <1>5, <1>10
    <3>2. StoreOf(d) \in Stores /\ StoreOf(d) # s
      BY <1>1, <2>2, <3>1, IndexIsOneToOne DEF IngressInv, OneToOne, StoreOf, StoreForCode
    <3>3. /\ counted[StoreOf(d)] \in 0..MaxRecords
          /\ \A m \in 1..counted[StoreOf(d)] : m \in Gone(d) \/ Past(d, m)
      BY <3>1 DEF IngressInv, CountedOK
    <3>4. \A m \in 1..counted[StoreOf(d)] : m \in 1..MaxRecords
      BY <3>3, PosIngressAssumption
    <3> QED
      BY <1>4, <3>1, <3>2, <3>3, <3>4 DEF Grows
  <2> QED
    BY <2>1, <2>2
<1> QED
  BY <1>7, <1>9, <1>10 DEF CountedOK

\* While a store takes records nothing is taken back.
LEMMA TakeGrows ==
  ASSUME IngressInv, ShapesOK', UNCHANGED <<codeIndex, held, quarantine, now>>,
         dropped \subseteq dropped', \A t \in Stores : taken[t] \subseteq taken'[t],
         \A c \in Codes : StoreOf(c) # None => counted[StoreOf(c)] <= counted'[StoreOf(c)],
         \A w \in Workers : OnlyOld(w)
  PROVE  Grows
<1>1. CodesStay
  BY DEF CodesStay, StoreForCode
<1>2. \A c \in Codes : Gone(c) \subseteq Gone(c)' /\ Kept(c) \subseteq Kept(c)'
  <2>1. \A c \in Codes : Gone(c) \subseteq Gone(c)'
    BY <1>1, GoneStays DEF IngressInv
  <2> QED
    BY <2>1 DEF Kept
<1>3. now <= now'
  BY DEF IngressInv, ShapesOK
<1>4. \A c \in Codes : \A n \in 1..MaxRecords : Past(c, n) => Past(c, n)'
  BY <1>2, <1>3, PastStays DEF IngressInv
<1> QED
  BY <1>1, <1>2, <1>3, <1>4 DEF Grows

\* A replay reaches its store.
LEMMA ReceiveKeepsIngress ==
  ASSUME IngressInv, HandlersOK', UNCHANGED ingress, NEW p \in Procs, ReceiveRecords(p)
  PROVE  IngressInv'
<1>0. PICK q, c, s, seqs : /\ q = procs[p] /\ c = Head(q.codes) /\ s = StoreOf(c)
                           /\ seqs = SeqsOf(q.sent)
  OBVIOUS
<1>1. PICK reply :
        /\ UNCHANGED <<truth, held, dropped, now>> /\ q.step = "sending" /\ Take(s, seqs)
        /\ reply \in {OutcomeAt(s), "failed"}
        /\ procs' = [procs EXCEPT ![p].step = "sent", ![p].reply = reply]
  BY <1>0, Zenon DEF ReceiveRecords, StoreOf, keeping, world
<1>2. IsHandler(q) /\ ReplayOK(q)
  BY <1>0 DEF IngressInv, ShapesOK, HandlersOK, ReplaysOK
<1>3. PICK r :
        /\ procs' = [procs EXCEPT ![p] = r] /\ r.step = "sent" /\ r.reply = reply
        /\ r.kind = q.kind /\ r.answer = q.answer /\ r.codes = q.codes /\ r.sent = q.sent
  <2> DEFINE r == [q EXCEPT !.step = "sent", !.reply = reply]
  <2>1. procs' = [procs EXCEPT ![p] = r]
    BY <1>0, <1>1 DEF IngressInv, ShapesOK, HandlersOK
  <2>2. /\ r.step = "sent" /\ r.reply = reply
        /\ r.kind = q.kind /\ r.answer = q.answer /\ r.codes = q.codes /\ r.sent = q.sent
    BY <1>2 DEF IsHandler, Idle
  <2> QED
    BY <2>1, <2>2
<1>4. procs'[p] = r /\ \A x \in Procs \ {p} : procs'[x] = procs[x]
  BY <1>3 DEF IngressInv, ShapesOK, HandlersOK
<1>5. /\ s # None /\ c \in DOMAIN codeIndex /\ codeIndex[c] = s /\ s \in Stores
      /\ \A d \in DOMAIN codeIndex : codeIndex[d] = s => d = c
      /\ c \in Codes => Prepared(c, seqs)
  BY <1>0, <1>1, <1>2, IndexIsOneToOne
     DEF ReplayOK, IngressInv, OneToOne, StoreOf, StoreForCode
<1>6. StoresKnown' /\ \A w \in Workers : OnlyOld(w)
  BY <1>1, ElsewhereKeepsCodes, Zenon DEF IngressInv, StoresKnown, truth, ingress, OnlyOld
<1>7. /\ DOMAIN counted' = Stores /\ DOMAIN taken' = Stores
      /\ \A t \in Stores : taken[t] \subseteq taken'[t] /\ (t # s => counted'[t] = counted[t])
      /\ c \in Codes => /\ counted[s] <= counted'[s]
                        /\ OutcomeAt(s) = "settled" => \A n \in seqs : n <= counted'[s]
  <2>1. CASE c \in Codes
    <3>1. counted[s] \in 0..MaxRecords /\ seqs \subseteq 1..MaxRecords
      BY <1>0, <1>5, <2>1 DEF IngressInv, CountedOK, Prepared
    <3> QED
      BY <1>1, <1>5, <2>1, <3>1, TakeTakes
  <2>2. CASE c \notin Codes
    <3>1. DOMAIN counted = Stores /\ DOMAIN taken = Stores
      BY DEF IngressInv, ShapesOK
    <3>2. CASE OutcomeAt(s) = "settled"
      <4>1. /\ taken' = [taken EXCEPT ![s] = @ \cup {n \in seqs : n > counted[s]}]
            /\ counted' = [counted EXCEPT ![s] = Max(seqs \cup {@})]
        BY <1>1, <3>2 DEF Take
      <4> QED
        BY <2>2, <3>1, <4>1
    <3>3. CASE OutcomeAt(s) # "settled"
      BY <1>1, <2>2, <3>1, <3>3 DEF Take
    <3> QED
      BY <3>2, <3>3
  <2> QED
    BY <2>1, <2>2
<1>8. ShapesOK'
  BY <1>1, <1>7 DEF IngressInv, ShapesOK, ingress
<1>9. \A d \in Codes : StoreOf(d) # None =>
        /\ StoreOf(d) \in Stores /\ counted[StoreOf(d)] \in 0..MaxRecords
        /\ StoreOf(d) = s => d = c
  BY <1>5, IndexIsOneToOne DEF IngressInv, OneToOne, CountedOK, StoreOf, StoreForCode
<1>10. Grows
  <2>1. ASSUME NEW d \in Codes, StoreOf(d) # None
        PROVE  counted[StoreOf(d)] <= counted'[StoreOf(d)]
    <3>1. CASE StoreOf(d) = s
      BY <1>7, <1>9, <2>1, <3>1
    <3>2. CASE StoreOf(d) # s
      BY <1>7, <1>9, <2>1, <3>2, PosIngressAssumption
    <3> QED
      BY <3>1, <3>2
  <2> QED
    BY <1>1, <1>6, <1>7, <1>8, <2>1, TakeGrows DEF truth, ingress
<1>11. CountedOK'
  <2>1. CASE c \in Codes
    BY <1>0, <1>1, <1>5, <1>8, <1>10, <2>1, TakeCounts DEF truth
  <2>2. CASE c \notin Codes
    <3>1. ASSUME NEW t \in Stores, counted'[t] # 0
          PROVE  \E d \in DOMAIN codeIndex' : codeIndex'[d] = t
      BY <1>1, <1>5, <1>7, <3>1 DEF IngressInv, CountedOK, truth
    <3>2. ASSUME NEW d \in Codes, StoreOf(d)' # None
          PROVE  /\ counted'[StoreOf(d)'] \in 0..MaxRecords
                 /\ \A m \in 1..counted'[StoreOf(d)'] : m \in Gone(d)' \/ Past(d, m)'
      <4>1. StoreOf(d) = StoreOf(d)' /\ StoreOf(d) # None
        BY <1>1, <3>2 DEF StoreOf, truth
      <4>2. counted'[StoreOf(d)] = counted[StoreOf(d)]
        BY <1>7, <1>9, <2>2, <4>1
      <4>3. /\ counted[StoreOf(d)] \in 0..MaxRecords
            /\ \A m \in 1..counted[StoreOf(d)] : m \in Gone(d) \/ Past(d, m)
        BY <4>1 DEF IngressInv, CountedOK
      <4>4. \A m \in 1..counted[StoreOf(d)] : m \in 1..MaxRecords
        BY <4>3, PosIngressAssumption
      <4> QED
        BY <1>10, <4>1, <4>2, <4>3, <4>4 DEF Grows
    <3> QED
      BY <3>1, <3>2 DEF CountedOK
  <2> QED
    BY <2>1, <2>2
<1>12. ReplayOK(procs[p])'
  <2>1. StoreOf(c)' = StoreOf(c)
    BY <1>1 DEF StoreOf, truth
  <2>2. ASSUME c \in Codes, reply = "settled", NEW k \in seqs
        PROVE  k \in 1..counted'[s]
    <3>1. OutcomeAt(s) = "settled" /\ k <= counted'[s]
      BY <1>1, <1>3, <1>7, <2>2
    <3>2. k \in 1..MaxRecords /\ counted'[s] \in 0..MaxRecords /\ MaxRecords \in Nat
      BY <1>0, <1>5, <1>11, <2>1, <2>2, PosIngressAssumption DEF Prepared, CountedOK
    <3> QED
      BY <3>1, <3>2
  <2> QED
    BY <1>0, <1>3, <1>4, <1>5, <2>1, <2>2 DEF ReplayOK
<1>13. ASSUME NEW x \in Procs
       PROVE  \/ procs'[x] = procs[x]
              \/ /\ ReplayOK(procs[x])'
                 /\ procs[x].kind = "hold" =>
                      /\ procs'[x].kind = "hold"
                      /\ procs'[x].answer \in {procs[x].answer, "replay-deferred"}
  <2>1. CASE x # p
    BY <1>4, <2>1
  <2>2. CASE x = p
    BY <1>0, <1>3, <1>4, <1>12, <2>2
  <2> QED
    BY <2>1, <2>2
<1>14. \A d \in Codes : Range(held'[d]) \subseteq Range(held[d])
  BY <1>1
<1> QED
  BY <1>6, <1>8, <1>10, <1>11, <1>13, <1>14, RegistryKeepsIngress

\* The steps of the registry between requests.
LEMMA StepKeepsIngress ==
  ASSUME IngressInv, HandlersOK', Registry, UNCHANGED ingress
  PROVE  IngressInv'
<1>1. ASSUME NEW p \in Procs, Converges(p) \/ ApplyProjection(p) \/ PushFails(p) \/ Replays(p)
      PROVE  IngressInv'
  BY <1>1, ConvergesKeepsIngress, ReplayKeepsIngress, DrainKeepsIngress, ReceiveKeepsIngress,
     SentKeepsIngress DEF Converges, Replays
<1>2. ASSUME NEW p \in Requests, Provision(p)
      PROVE  IngressInv'
  BY <1>2, ProvisionKeepsIngress
<1> QED
  BY <1>1, <1>2, AlarmKeepsIngress, TickKeepsIngress DEF Registry

-----------------------------------------------------------------------------
(* The steps of the workers.                                               *)

ledgerVars == <<truth, held, dropped, counted, taken, now, procs, quarantine>>

\* The registry and the stores stand still.
LEMMA StandingStill ==
  ASSUME IngressInv, ShapesOK', UNCHANGED ledgerVars, \A w \in Workers : OnlyOld(w)
  PROVE  StoresKnown' /\ Grows /\ CountedOK' /\ HeldOK' /\ ReplaysOK'
<1> USE DEF ledgerVars
<1>1. StoresKnown'
  BY ElsewhereKeepsCodes DEF IngressInv, StoresKnown, truth
<1>2. Grows
  BY TakeGrows, PosIngressAssumption DEF truth, IngressInv, CountedOK
<1>3. CountedOK' /\ HeldOK'
  BY <1>1, <1>2, CountedStays, HeldStays DEF IngressInv
<1> QED
  BY <1>1, <1>2, <1>3, ReplaysStay

\* The request of another worker, whose held records are not forgotten.
LEMMA OtherPost ==
  ASSUME IngressInv, ShapesOK', SentOK', Grows, NEW w \in Workers, NEW c \in DOMAIN posts[w].at,
         posts'[w] = posts[w], sent[c] <= sent'[c], posts[w].waiting => sent'[c] = sent[c],
         \A p \in Requests : procs[p].kind = "hold" =>
           procs'[p].kind = "hold" /\ procs'[p].answer \in {procs[p].answer, "replay-deferred"}
  PROVE  PostOK(posts[w], c)'
<1>1. c \in Codes
  BY DEF IngressInv, ShapesOK, IsPost
<1>2. PostOK(posts[w], c)
  BY DEF IngressInv, PostsOK
<1>3. posts[w].waiting /\ posts[w].at[c] = "holding" => HoldsOn(w, c)
  <2> SUFFICES ASSUME posts[w].waiting, posts[w].at[c] = "holding"
               PROVE  HoldsOn(w, c)
    OBVIOUS
  <2>1. posts[w].by[c] \in Requests /\ procs[posts[w].by[c]].kind = "hold"
    BY <1>2 DEF PostOK, HoldingOK
  <2> QED
    BY <2>1 DEF HoldsOn
<1>4. Kept(c) \subseteq Kept(c)'
  BY <1>1 DEF Grows
<1>5. Continues(w, c)
  BY <1>3, <1>4, Zenon DEF Continues
<1> QED
  BY <1>1, <1>5, PostStays

\* No request is new, and none waits again.
LEMMA WaitingStays ==
  ASSUME IngressInv,
         \A w \in Workers :
           /\ DOMAIN posts'[w].at \subseteq DOMAIN posts[w].at
           /\ posts'[w].waiting => posts[w].waiting
           /\ DOMAIN posts'[w].at # {} /\ ~posts'[w].thrown => posts'[w].waiting
  PROVE  WaitingOK'
<1>1. \A v, w \in Workers : posts'[v].waiting /\ posts'[w].waiting /\ v # w =>
        DOMAIN posts'[v].at \cap DOMAIN posts'[w].at = {}
  <2> SUFFICES ASSUME NEW v \in Workers, NEW w \in Workers, posts'[v].waiting, posts'[w].waiting,
                      v # w
               PROVE  DOMAIN posts'[v].at \cap DOMAIN posts'[w].at = {}
    BY Zenon
  <2>1. DOMAIN posts[v].at \cap DOMAIN posts[w].at = {}
    BY Zenon DEF IngressInv, WaitingOK
  <2> QED
    BY <2>1
<1> QED
  BY <1>1, Zenon DEF WaitingOK

\* Records go to the stores that they could go to before.
LEMMA DirectsStay ==
  ASSUME IngressInv, CodesStay,
         \A c \in Codes : held[c] = <<>> /\ ~Unresolved(c) /\ StoreOf(c) # None =>
                            held'[c] = <<>> /\ ~Unresolved(c)',
         \A w \in Workers : \A c \in DOMAIN posts'[w].at :
           c \in Codes /\ (posts'[w].at[c] = "deliver" =>
                             \E s : s = posts'[w].store[c] /\ Direct(c, s)),
         \A w \in Workers : \A c \in DOMAIN resolvedStoreIds'[w] :
           c \in Codes /\ \E s : s = resolvedStoreIds'[w][c] /\ Direct(c, s)
  PROVE  DirectOK'
<1>1. ASSUME NEW c \in Codes, NEW s, Direct(c, s)
      PROVE  Direct(c, s)'
  <2>1. held'[c] = <<>> /\ ~Unresolved(c)'
    BY <1>1 DEF Direct
  <2> QED
    BY <1>1, <2>1, DirectStays
<1>2. ASSUME NEW w \in Workers, NEW c \in DOMAIN posts'[w].at, posts'[w].at[c] = "deliver"
      PROVE  Direct(c, posts[w].store[c])'
  <2>1. PICK s : s = posts'[w].store[c] /\ Direct(c, s) /\ c \in Codes
    BY <1>2
  <2>2. Direct(c, s)'
    BY <1>1, <2>1
  <2> QED
    BY <2>1, <2>2 DEF Direct
<1>3. ASSUME NEW w \in Workers, NEW c \in DOMAIN resolvedStoreIds'[w]
      PROVE  c \in Codes /\ Direct(c, resolvedStoreIds[w][c])'
  <2>1. PICK s : s = resolvedStoreIds'[w][c] /\ Direct(c, s) /\ c \in Codes
    BY <1>3
  <2>2. Direct(c, s)'
    BY <1>1, <2>1
  <2> QED
    BY <2>1, <2>2 DEF Direct
<1> QED
  BY <1>2, <1>3 DEF DirectOK

\* One request moves on, or is over without an answer; the others stay.
LEMMA OneRequestMoves ==
  ASSUME IngressInv, ShapesOK', StoresKnown', Grows, CountedOK', HeldOK', ReplaysOK',
         UNCHANGED sent, NEW w \in Workers, DOMAIN posts'[w].at = DOMAIN posts[w].at,
         \A v \in Workers : v # w => posts'[v] = posts[v],
         \A p \in Requests : procs[p].kind = "hold" =>
           procs'[p].kind = "hold" /\ procs'[p].answer \in {procs[p].answer, "replay-deferred"},
         \A c \in DOMAIN posts[w].at : Continues(w, c),
         posts'[w].waiting => posts[w].waiting, ~posts'[w].thrown => posts'[w].waiting,
         \A c \in Codes : held[c] = <<>> /\ ~Unresolved(c) /\ StoreOf(c) # None => held'[c] = <<>>,
         \A c \in DOMAIN posts[w].at :
           /\ posts'[w].at[c] = "deliver" => \E s : s = posts'[w].store[c] /\ Direct(c, s)
           /\ posts'[w].at[c] = "unresolved" => posts[w].at[c] = "unresolved"
                                                \/ \A s : ~Direct(c, s),
         \A v \in Workers : \A c \in DOMAIN resolvedStoreIds'[v] :
           c \in Codes /\ \E s : s = resolvedStoreIds'[v][c] /\ Direct(c, s)
  PROVE  IngressInv'
<1>1. SentOK' /\ AcknowledgedIsKept'
  BY SentStays DEF IngressInv
<1>2. \A c \in Codes : sent[c] <= sent'[c]
  BY PosIngressAssumption DEF IngressInv, SentOK
<1>3. \A v \in Workers : \A c \in DOMAIN posts[v].at : c \in Codes
  BY DEF IngressInv, ShapesOK, IsPost
<1>4. PostsOK'
  <2>1. ASSUME NEW v \in Workers, v # w, NEW c \in DOMAIN posts[v].at
        PROVE  PostOK(posts[v], c)'
    BY <1>1, <1>2, <1>3, <2>1, OtherPost
  <2>2. ASSUME NEW c \in DOMAIN posts[w].at
        PROVE  PostOK(posts[w], c)'
    BY <1>1, <1>3, PostStays
  <2>3. ASSUME NEW v \in Workers, NEW c \in DOMAIN posts'[v].at
        PROVE  PostOK(posts[v], c)'
    <3>1. CASE v # w
      BY <2>1, <2>3, <3>1
    <3>2. CASE v = w
      BY <2>2, <2>3, <3>2
    <3> QED
      BY <3>1, <3>2
  <2> QED
    BY <2>3 DEF PostsOK
<1>5. WaitingOK'
  <2>1. ASSUME NEW v \in Workers
        PROVE  /\ DOMAIN posts'[v].at \subseteq DOMAIN posts[v].at
               /\ posts'[v].waiting => posts[v].waiting
               /\ DOMAIN posts'[v].at # {} /\ ~posts'[v].thrown => posts'[v].waiting
    <3>1. CASE v # w
      <4>1. posts'[v] = posts[v]
        BY <3>1
      <4> QED
        BY <4>1, Zenon DEF IngressInv, WaitingOK
    <3>2. CASE v = w
      BY <3>2, Zenon
    <3> QED
      BY <3>1, <3>2
  <2> QED
    BY <2>1, WaitingStays
<1>6. DirectOK'
  <2>1. ASSUME NEW c \in Codes, held[c] = <<>>, ~Unresolved(c), StoreOf(c) # None
        PROVE  held'[c] = <<>> /\ ~Unresolved(c)'
    <3> SUFFICES ASSUME NEW v \in Workers, posts'[v].waiting, c \in DOMAIN posts'[v].at,
                        posts'[v].at[c] = "unresolved"
                 PROVE  FALSE
      BY <2>1, Zenon DEF Unresolved
    <3>1. CASE v = w
      <4>1. posts[w].at[c] # "unresolved"
        BY <2>1, <3>1, Zenon DEF Unresolved
      <4>2. Direct(c, StoreOf(c))
        BY <2>1 DEF Direct
      <4> QED
        BY <3>1, <4>1, <4>2
    <3>2. CASE v # w
      <4>1. posts'[v] = posts[v]
        BY <3>2
      <4> QED
        BY <2>1, <4>1, Zenon DEF Unresolved
    <3> QED
      BY <3>1, <3>2
  <2>2. ASSUME NEW v \in Workers, NEW c \in DOMAIN posts'[v].at
        PROVE  c \in Codes /\ (posts'[v].at[c] = "deliver" =>
                                 \E s : s = posts'[v].store[c] /\ Direct(c, s))
    <3>1. CASE v # w
      BY <1>3, <2>2, <3>1 DEF IngressInv, DirectOK
    <3>2. CASE v = w
      BY <1>3, <2>2, <3>2
    <3> QED
      BY <3>1, <3>2
  <2> QED
    BY <2>1, <2>2, DirectsStay DEF Grows
<1> QED
  BY <1>1, <1>4, <1>5, <1>6 DEF IngressInv

\* A request that moves on for the code c with r, and is not over.
MovesOn(w, c, r) ==
  LET q == posts[w]
  IN  /\ DOMAIN r = DOMAIN q /\ DOMAIN r.at = DOMAIN q.at
      /\ r.upTo = q.upTo /\ r.records = q.records /\ r.raws = q.raws /\ r.by = q.by
      /\ r.waiting = q.waiting /\ r.thrown = q.thrown /\ r.transient = q.transient
      /\ DOMAIN r.store = DOMAIN q.store
      /\ \A d \in DOMAIN q.at : d # c => r.at[d] = q.at[d] /\ r.store[d] = q.store[d]

LEMMA ResolveKeepsIngress ==
  ASSUME IngressInv, HandlersOK', NEW w \in Workers, NEW c \in DOMAIN posts[w].at, Resolve(w, c)
  PROVE  IngressInv'
<1>1. /\ UNCHANGED ledgerVars /\ UNCHANGED sent
      /\ posts[w].at[c] = "resolve" /\ ~posts[w].thrown
  BY Zenon DEF Resolve, Phase, CodesOfPost, ledgerVars, vars, keeping, stores, world
<1>2. c \in Codes /\ IsPost(posts[w]) /\ posts[w].waiting
  <2>1. posts[w].waiting
    BY <1>1, Zenon DEF IngressInv, WaitingOK
  <2> QED
    BY <2>1 DEF IngressInv, ShapesOK, IsPost
<1>3. ~Unresolved(c)
  <2> SUFFICES ASSUME NEW v \in Workers, posts[v].waiting, c \in DOMAIN posts[v].at,
                      posts[v].at[c] = "unresolved"
               PROVE  FALSE
    BY Zenon DEF Unresolved
  <2>1. v = w
    BY <1>2 DEF IngressInv, WaitingOK
  <2> QED
    BY <1>1, <2>1
<1> DEFINE known == resolvedStoreIds[w]
           s == ResolveStoreCode(c)
           at(phase) == [posts[w].at EXCEPT ![c] = phase]
           unresolved == [posts[w] EXCEPT !.at = at("unresolved")]
           store(t) == [posts[w].store EXCEPT ![c] = t]
           deliver(t) == [posts[w] EXCEPT !.at = at("deliver"), !.store = store(t)]
<1>4. DOMAIN posts = Workers /\ DOMAIN resolvedStoreIds = Workers /\ DOMAIN posts[w] = DOMAIN NoPost
      /\ DOMAIN posts[w].store = DOMAIN posts[w].at
  BY <1>2 DEF IngressInv, ShapesOK, IsPost
<1>5. MovesOn(w, c, unresolved) /\ unresolved.at[c] = "unresolved"
  <2>1. MovesOn(w, c, unresolved)
    BY <1>4 DEF MovesOn, NoPost
  <2>2. unresolved.at[c] = "unresolved"
    BY <1>4 DEF NoPost
  <2> QED BY <2>1, <2>2
<1>6. ASSUME NEW t
      PROVE  /\ MovesOn(w, c, deliver(t))
             /\ deliver(t).at[c] = "deliver" /\ deliver(t).store[c] = t
  <2>1. MovesOn(w, c, deliver(t))
    BY <1>4 DEF MovesOn, NoPost
  <2>2. deliver(t).at[c] = "deliver" /\ deliver(t).store[c] = t
    BY <1>4 DEF NoPost
  <2> QED BY <2>1, <2>2
<1>7. \/ /\ c \in DOMAIN known /\ posts' = [posts EXCEPT ![w] = deliver(known[c])]
         /\ UNCHANGED resolvedStoreIds
      \/ /\ s = None /\ posts' = [posts EXCEPT ![w] = unresolved] /\ UNCHANGED resolvedStoreIds
      \/ /\ s # None /\ posts' = [posts EXCEPT ![w] = deliver(s)]
         /\ resolvedStoreIds' = [resolvedStoreIds EXCEPT ![w] = With(@, c, s)]
  BY <1>4 DEF Resolve, Moves, NoPost
<1> HIDE DEF unresolved, deliver
<1>8. PICK r : /\ posts' = [posts EXCEPT ![w] = r] /\ MovesOn(w, c, r)
               /\ r.at[c] \in {"deliver", "unresolved"}
               /\ r.at[c] = "deliver" => Direct(c, r.store[c])
               /\ r.at[c] = "unresolved" => \A t : ~Direct(c, t)
               /\ \A d \in DOMAIN resolvedStoreIds'[w] :
                    \/ d \in DOMAIN known /\ resolvedStoreIds'[w][d] = known[d]
                    \/ d = c /\ Direct(c, resolvedStoreIds'[w][d])
  <2>1. CASE c \in DOMAIN known /\ posts' = [posts EXCEPT ![w] = deliver(known[c])]
             /\ UNCHANGED resolvedStoreIds
    <3>1. Direct(c, known[c])
      BY <2>1 DEF IngressInv, DirectOK
    <3> QED
      BY <1>6, <2>1, <3>1
  <2>2. CASE s = None /\ posts' = [posts EXCEPT ![w] = unresolved] /\ UNCHANGED resolvedStoreIds
    <3>1. \A t : ~Direct(c, t)
      BY <2>2 DEF ResolveStoreCode, Direct, StoreOf
    <3> QED
      BY <1>5, <2>2, <3>1
  <2>3. CASE s # None /\ posts' = [posts EXCEPT ![w] = deliver(s)]
             /\ resolvedStoreIds' = [resolvedStoreIds EXCEPT ![w] = With(@, c, s)]
    <3>1. Direct(c, s)
      BY <1>3, <2>3 DEF ResolveStoreCode, Direct, StoreOf
    <3> HIDE DEF s
    <3>2. \A d \in DOMAIN resolvedStoreIds'[w] :
            \/ d \in DOMAIN known /\ resolvedStoreIds'[w][d] = known[d]
            \/ d = c /\ resolvedStoreIds'[w][d] = s
      BY <1>4, <2>3 DEF With
    <3> QED
      BY <1>6, <2>3, <3>1, <3>2
  <2> QED
    BY <1>7, <2>1, <2>2, <2>3
<1>9. /\ posts'[w] = r /\ \A v \in Workers : v # w => posts'[v] = posts[v]
      /\ DOMAIN posts' = Workers /\ DOMAIN resolvedStoreIds' = Workers
      /\ \A v \in Workers : v # w => resolvedStoreIds'[v] = resolvedStoreIds[v]
  BY <1>4, <1>7, <1>8
<1>10. ShapesOK'
  <2>1. IsPost(r)
    BY <1>2, <1>8 DEF MovesOn, IsPost
  <2> QED
    BY <1>1, <1>9, <2>1 DEF IngressInv, ShapesOK, ledgerVars
<1>11. \A v \in Workers : OnlyOld(v)
  BY <1>8, <1>9, Zenon DEF OnlyOld, MovesOn
<1>12. StoresKnown' /\ Grows /\ CountedOK' /\ HeldOK' /\ ReplaysOK'
  BY <1>1, <1>10, <1>11, StandingStill
<1>13. ASSUME NEW d \in DOMAIN posts[w].at
       PROVE  Continues(w, d)
  <2>1. d \in Codes /\ Kept(d) \subseteq Kept(d)'
    BY <1>2, <1>12 DEF IsPost, Grows
  <2>2. r.at[d] = "delivered" => posts[w].at[d] = "delivered"
    BY <1>8 DEF MovesOn
  <2>3. r.waiting /\ r.at[d] = "holding" => HoldsOn(w, d)
    BY <1>1, <1>8, <1>9, Zenon DEF MovesOn, HoldsOn, ledgerVars
  <2>4. sent[d] <= sent'[d]
    BY <1>1, <2>1, PosIngressAssumption DEF IngressInv, SentOK
  <2> QED
    BY <1>1, <1>8, <1>9, <2>1, <2>2, <2>3, <2>4, Zenon DEF Continues, MovesOn
<1>14. /\ DOMAIN posts'[w].at = DOMAIN posts[w].at
       /\ posts'[w].waiting = posts[w].waiting
  BY <1>8, <1>9 DEF MovesOn
<1>15. ASSUME NEW d \in DOMAIN posts[w].at
       PROVE  /\ posts'[w].at[d] = "deliver" => \E t : t = posts'[w].store[d] /\ Direct(d, t)
              /\ posts'[w].at[d] = "unresolved" => posts[w].at[d] = "unresolved"
                                                   \/ \A t : ~Direct(d, t)
  <2>1. CASE d = c
    BY <1>8, <1>9, <2>1
  <2>2. CASE d # c
    BY <1>8, <1>9, <2>2 DEF MovesOn, IngressInv, DirectOK
  <2> QED
    BY <2>1, <2>2
<1>16. ASSUME NEW v \in Workers, NEW d \in DOMAIN resolvedStoreIds'[v]
       PROVE  d \in Codes /\ \E t : t = resolvedStoreIds'[v][d] /\ Direct(d, t)
  <2>1. CASE v # w
    BY <1>9, <1>16, <2>1 DEF IngressInv, DirectOK
  <2>2. CASE v = w
    BY <1>2, <1>8, <1>16, <2>2 DEF IngressInv, DirectOK
  <2> QED
    BY <2>1, <2>2
<1>17. UNCHANGED <<held, procs>>
  BY <1>1 DEF ledgerVars
<1> QED
  BY <1>1, <1>2, <1>9, <1>10, <1>12, <1>13, <1>14, <1>15, <1>16, <1>17, OneRequestMoves

\* deliverRecords: the records go to the store of their code, or the call fails.
LEMMA DeliverKeepsIngress ==
  ASSUME IngressInv, HandlersOK', NEW w \in Workers, NEW c \in DOMAIN posts[w].at, Deliver(w, c)
  PROVE  IngressInv'
<1>0. PICK q, s, seqs : /\ q = posts[w] /\ s = q.store[c] /\ seqs = SeqsOf(q.records[c])
  OBVIOUS
<1>1. /\ UNCHANGED <<truth, held, now, procs, quarantine, sent, resolvedStoreIds>>
      /\ q.at[c] = "deliver"
  BY <1>0, Zenon DEF Deliver, Phase, CodesOfPost, world
<1>2. /\ c \in Codes /\ IsPost(q) /\ PostOK(q, c) /\ Direct(c, s)
      /\ \A d \in DOMAIN q.at : d \in Codes
  BY <1>0, <1>1 DEF IngressInv, ShapesOK, IsPost, PostsOK, DirectOK
<1>3. s = StoreOf(c) /\ s # None /\ held[c] = <<>> /\ s \in Stores
  BY <1>2, IndexIsOneToOne DEF Direct, IngressInv, OneToOne, StoreOf, StoreForCode
<1>4. Prepared(c, seqs)
  <2>1. \A x \in Range(q.records[c]) :
          /\ x.seq \in 1..MaxRecords
          /\ \A m \in 1..x.seq : m \in seqs \/ m <= sent[c] \/ Past(c, m)
    BY <1>0, <1>2 DEF PostOK, RecordsOK
  <2>2. seqs = {x.seq : x \in Range(q.records[c])}
    BY <1>0, SeqsOfRange
  <2>3. ASSUME NEW m \in Nat \ {0}, m <= sent[c]
        PROVE  m \in Gone(c)
    <3>1. m \in 1..sent[c]
      BY <1>2, <2>3 DEF IngressInv, SentOK
    <3>2. SeqsOf(held[c]) = {}
      BY <1>3 DEF SeqsOf
    <3> QED
      BY <1>2, <3>1, <3>2 DEF IngressInv, AcknowledgedIsKept
  <2> QED
    BY <2>1, <2>2, <2>3 DEF Prepared
<1>5. counted[s] \in 0..MaxRecords /\ seqs \subseteq 1..MaxRecords
  BY <1>2, <1>3, <1>4 DEF IngressInv, CountedOK, Prepared
<1> DEFINE at(phase) == [q.at EXCEPT ![c] = phase]
           done(b) == [q EXCEPT !.at = at("delivered"), !.transient = b]
           over == [q EXCEPT !.at = at("over"), !.thrown = TRUE, !.waiting = FALSE]
           dropsAll == {<<c, n>> : n \in seqs}
<1>6. DOMAIN posts = Workers /\ DOMAIN q = DOMAIN NoPost /\ c \in DOMAIN q.at
  BY <1>0, <1>2 DEF IngressInv, ShapesOK, IsPost
<1>7. PICK b : /\ ~b => ~q.transient /\ OutcomeAt(s) # "unprovisioned"
               /\ \/ /\ Take(s, seqs)
                     /\ dropped' = IF OutcomeAt(s) = "deactivated" THEN dropped \cup dropsAll
                                   ELSE dropped
                     /\ posts' = [posts EXCEPT ![w] = done(b)]
                  \/ /\ Take(s, seqs) \/ UNCHANGED <<taken, counted>>
                     /\ UNCHANGED dropped /\ posts' = [posts EXCEPT ![w] = over]
  <2> DEFINE b == q.transient \/ OutcomeAt(s) = "unprovisioned"
  <2>1. ~b => ~q.transient /\ OutcomeAt(s) # "unprovisioned"
    OBVIOUS
  <2>2. posts' = [posts EXCEPT ![w].at[c] = "delivered", ![w].transient = b]
          => posts' = [posts EXCEPT ![w] = done(b)]
    BY <1>0, <1>6 DEF NoPost
  <2>3. Throws(w, c) => posts' = [posts EXCEPT ![w] = over]
    BY <1>0, <1>6 DEF Throws, NoPost
  <2>4. \/ /\ Take(s, seqs)
           /\ dropped' = IF OutcomeAt(s) = "deactivated" THEN dropped \cup dropsAll ELSE dropped
           /\ posts' = [posts EXCEPT ![w].at[c] = "delivered", ![w].transient = b]
        \/ Take(s, seqs) /\ Throws(w, c) /\ UNCHANGED dropped
        \/ UNCHANGED <<taken, counted, dropped>> /\ Throws(w, c)
    BY <1>0, Zenon DEF Deliver
  <2> HIDE DEF b, done, over, dropsAll
  <2> QED
    BY <2>1, <2>2, <2>3, <2>4
<1>8. /\ DOMAIN done(b) = DOMAIN q /\ done(b).at = at("delivered") /\ done(b).transient = b
      /\ \A f \in DOMAIN q \ {"at", "transient"} : done(b)[f] = q[f]
  BY <1>6 DEF NoPost
<1>9. /\ DOMAIN over = DOMAIN q /\ over.at = at("over") /\ over.thrown /\ ~over.waiting
      /\ \A f \in DOMAIN q \ {"at", "thrown", "waiting"} : over[f] = q[f]
  BY <1>6 DEF NoPost
<1> HIDE DEF done, over
<1>10. PICK r :
         /\ posts' = [posts EXCEPT ![w] = r] /\ DOMAIN r = DOMAIN NoPost
         /\ \A f \in {"upTo", "records", "raws", "store", "by"} : r[f] = q[f]
         /\ DOMAIN r.at = DOMAIN q.at /\ r.at[c] \notin {"deliver", "unresolved", "holding"}
         /\ \A d \in DOMAIN q.at : d # c => r.at[d] = q.at[d]
         /\ ~r.thrown => r.waiting = q.waiting /\ ~q.thrown
         /\ r.waiting => q.waiting
         /\ r.waiting /\ ~r.transient =>
              /\ ~q.transient /\ OutcomeAt(s) # "unprovisioned" /\ Take(s, seqs)
              /\ OutcomeAt(s) = "deactivated" => dropsAll \subseteq dropped'
  <2>1. CASE /\ Take(s, seqs)
             /\ dropped' = IF OutcomeAt(s) = "deactivated" THEN dropped \cup dropsAll ELSE dropped
             /\ posts' = [posts EXCEPT ![w] = done(b)]
    <3>1. /\ DOMAIN done(b) = DOMAIN NoPost /\ DOMAIN done(b).at = DOMAIN q.at
          /\ done(b).at[c] = "delivered"
          /\ \A d \in DOMAIN q.at : d # c => done(b).at[d] = q.at[d]
      BY <1>6, <1>8
    <3>2. /\ \A f \in {"upTo", "records", "raws", "store", "by"} : done(b)[f] = q[f]
          /\ done(b).waiting = q.waiting /\ done(b).thrown = q.thrown
      BY <1>6, <1>8 DEF NoPost
    <3>3. ~done(b).transient => ~q.transient /\ OutcomeAt(s) # "unprovisioned"
      BY <1>7, <1>8
    <3>4. OutcomeAt(s) = "deactivated" => dropsAll \subseteq dropped'
      BY <2>1
    <3> HIDE DEF dropsAll
    <3> QED
      BY <2>1, <3>1, <3>2, <3>3, <3>4
  <2>2. CASE /\ Take(s, seqs) \/ UNCHANGED <<taken, counted>>
             /\ UNCHANGED dropped /\ posts' = [posts EXCEPT ![w] = over]
    <3>1. /\ DOMAIN over = DOMAIN NoPost /\ DOMAIN over.at = DOMAIN q.at
          /\ over.at[c] = "over"
          /\ \A d \in DOMAIN q.at : d # c => over.at[d] = q.at[d]
      BY <1>6, <1>9
    <3>2. /\ \A f \in {"upTo", "records", "raws", "store", "by"} : over[f] = q[f]
          /\ over.thrown /\ ~over.waiting
      BY <1>6, <1>9 DEF NoPost
    <3> HIDE DEF dropsAll
    <3> QED
      BY <2>2, <3>1, <3>2
  <2> HIDE DEF dropsAll
  <2> QED
    BY <1>7, <2>1, <2>2
<1>11. posts'[w] = r /\ DOMAIN posts' = Workers /\ \A v \in Workers : v # w => posts'[v] = posts[v]
  BY <1>6, <1>10
<1>12. /\ DOMAIN counted' = Stores /\ DOMAIN taken' = Stores
       /\ \A t \in Stores : taken[t] \subseteq taken'[t] /\ (t # s => counted'[t] = counted[t])
       /\ counted[s] <= counted'[s]
       /\ Take(s, seqs) /\ OutcomeAt(s) = "settled" => \A n \in seqs : n <= counted'[s]
  <2>1. CASE Take(s, seqs)
    BY <1>3, <1>5, <2>1, TakeTakes
  <2>2. CASE ~Take(s, seqs)
    BY <1>5, <1>7, <2>2, PosIngressAssumption DEF IngressInv, ShapesOK
  <2> QED
    BY <2>1, <2>2
<1>13. ShapesOK'
  <2>1. IsPost(r)
    BY <1>2, <1>10 DEF IsPost
  <2> QED
    BY <1>1, <1>11, <1>12, <2>1 DEF IngressInv, ShapesOK
<1>14. \A v \in Workers : OnlyOld(v)
  <2>1. OnlyOld(w)
    BY <1>0, <1>10, <1>11, Zenon DEF OnlyOld
  <2>2. ASSUME NEW v \in Workers, v # w
        PROVE  OnlyOld(v)
    BY <1>11, <2>2, Zenon DEF OnlyOld
  <2> QED
    BY <2>1, <2>2
<1>15. dropped \subseteq dropped'
  BY <1>7
<1>16. Grows /\ StoresKnown'
  <2>1. ASSUME NEW d \in Codes, StoreOf(d) # None
        PROVE  counted[StoreOf(d)] <= counted'[StoreOf(d)]
    <3>1. StoreOf(d) \in Stores /\ counted[StoreOf(d)] \in 0..MaxRecords
      BY <2>1, IndexIsOneToOne DEF IngressInv, OneToOne, CountedOK, StoreOf, StoreForCode
    <3> QED
      BY <1>12, <3>1, PosIngressAssumption
  <2>2. StoresKnown'
    BY <1>1, ElsewhereKeepsCodes DEF IngressInv, StoresKnown, truth
  <2> QED
    BY <1>1, <1>12, <1>13, <1>14, <1>15, <2>1, <2>2, TakeGrows DEF truth
<1>17. CountedOK' /\ HeldOK'
  <2>1. CountedOK'
    <3>1. CASE Take(s, seqs)
      BY <1>1, <1>2, <1>3, <1>4, <1>13, <1>16, <3>1, TakeCounts DEF truth
    <3>2. CASE ~Take(s, seqs)
      BY <1>7, <1>16, <3>2, CountedStays DEF IngressInv
    <3> QED
      BY <3>1, <3>2
  <2>2. HeldOK'
    BY <1>1, <1>13, <1>16, HeldStays DEF IngressInv
  <2> QED
    BY <2>1, <2>2
<1>18. ReplaysOK'
  BY <1>1, <1>13, <1>16, <1>17, ReplaysStay
<1>19. r.waiting /\ ~r.transient => seqs \subseteq Kept(c)'
  <2> SUFFICES ASSUME r.waiting, ~r.transient, NEW n \in seqs
               PROVE  n \in Kept(c)'
    OBVIOUS
  <2>1. /\ OutcomeAt(s) # "unprovisioned" /\ Take(s, seqs)
        /\ OutcomeAt(s) = "deactivated" => dropsAll \subseteq dropped'
    BY <1>10
  <2>2. CASE OutcomeAt(s) = "deactivated"
    <3>1. <<c, n>> \in dropped'
      BY <2>1, <2>2
    <3> QED
      BY <3>1, DroppedAfter DEF Kept, Gone
  <2>3. CASE OutcomeAt(s) = "settled"
    <3>1. n \in Gone(c)' \/ Past(c, n)'
      BY <1>1, <1>2, <1>3, <1>4, <1>12, <1>13, <1>16, <2>1, <2>3, TakeCounts DEF truth
    <3>2. posts'[w].waiting /\ c \in DOMAIN posts'[w].at /\ posts'[w].records[c] = q.records[c]
      BY <1>6, <1>10, <1>11
    <3> QED
      BY <1>0, <3>1, <3>2 DEF Past, Kept
  <2> QED
    BY <2>1, <2>2, <2>3 DEF OutcomeAt
<1>20. ASSUME NEW d \in DOMAIN posts[w].at
       PROVE  Continues(w, d)
  <2>1. d \in Codes /\ Kept(d) \subseteq Kept(d)'
    BY <1>0, <1>2, <1>16 DEF Grows
  <2>2. sent[d] <= sent'[d]
    BY <1>1, <2>1, PosIngressAssumption DEF IngressInv, SentOK
  <2>3. r.waiting /\ ~r.transient /\ r.at[d] = "delivered" /\ q.at[d] # "delivered" =>
          SeqsOf(q.records[d]) \subseteq Kept(d)'
    <3>1. CASE d = c
      BY <1>0, <1>19, <3>1
    <3>2. CASE d # c
      BY <1>0, <1>10, <3>2
    <3> QED
      BY <3>1, <3>2
  <2>4. r.at[d] = "holding" => HoldsOn(w, d)
    BY <1>0, <1>1, <1>10, <1>11, Zenon DEF HoldsOn
  <2>5. r.records = q.records /\ r.upTo = q.upTo /\ r.raws = q.raws
    BY <1>10
  <2> QED
    BY <1>0, <1>1, <1>10, <1>11, <2>1, <2>2, <2>3, <2>4, <2>5, Zenon DEF Continues
<1>21. ASSUME NEW d \in DOMAIN posts[w].at
       PROVE  /\ posts'[w].at[d] = "deliver" => \E t : t = posts'[w].store[d] /\ Direct(d, t)
              /\ posts'[w].at[d] = "unresolved" => posts[w].at[d] = "unresolved"
                                                   \/ \A t : ~Direct(d, t)
  <2>1. CASE d = c
    BY <1>10, <1>11, <2>1
  <2>2. CASE d # c
    <3>1. posts'[w].at[d] = posts[w].at[d] /\ posts'[w].store[d] = posts[w].store[d]
      BY <1>0, <1>10, <1>11, <2>2
    <3> QED
      BY <3>1 DEF IngressInv, DirectOK
  <2> QED
    BY <2>1, <2>2
<1>22. /\ posts'[w].waiting => posts[w].waiting
       /\ ~posts'[w].thrown => posts'[w].waiting
  <2>1. ~r.thrown => r.waiting
    BY <1>0, <1>6, <1>10, Zenon DEF IngressInv, WaitingOK
  <2> QED
    BY <1>0, <1>10, <1>11, <2>1, Zenon
<1>23. \A v \in Workers : \A d \in DOMAIN resolvedStoreIds'[v] :
         d \in Codes /\ \E t : t = resolvedStoreIds'[v][d] /\ Direct(d, t)
  BY <1>1 DEF IngressInv, DirectOK
<1>24. DOMAIN posts'[w].at = DOMAIN posts[w].at
  BY <1>0, <1>10, <1>11
<1> QED
  BY <1>1, <1>11, <1>13, <1>16, <1>17, <1>18, <1>20, <1>21, <1>22, <1>23, <1>24, OneRequestMoves

LEMMA ConcatenationHas ==
  ASSUME NEW a, IsList(a), NEW b, IsList(b)
  PROVE  SeqsOf(a \o b) = SeqsOf(a) \cup SeqsOf(b)
<1> DEFINE S == Range(a) \cup Range(b)
<1>1. a \in Seq(S) /\ b \in Seq(S)
  BY SeqMonotonic DEF IsList
<1> HIDE DEF S
<1>2. /\ a \o b \in Seq(S) /\ Len(a \o b) = Len(a) + Len(b)
      /\ \A i \in 1..Len(a) + Len(b) : (a \o b)[i] = IF i <= Len(a) THEN a[i] ELSE b[i - Len(a)]
  BY <1>1, ConcatProperties
<1>3. /\ DOMAIN a = 1..Len(a) /\ DOMAIN b = 1..Len(b) /\ DOMAIN (a \o b) = 1..Len(a) + Len(b)
      /\ Len(a) \in Nat /\ Len(b) \in Nat
  BY <1>1, <1>2
<1>4. ASSUME NEW i \in DOMAIN a
      PROVE  i \in DOMAIN (a \o b) /\ (a \o b)[i] = a[i]
  BY <1>2, <1>3
<1>5. ASSUME NEW i \in DOMAIN b
      PROVE  i + Len(a) \in DOMAIN (a \o b) /\ (a \o b)[i + Len(a)] = b[i]
  BY <1>2, <1>3
<1>6. ASSUME NEW i \in DOMAIN (a \o b)
      PROVE  \/ i \in DOMAIN a /\ (a \o b)[i] = a[i]
             \/ i - Len(a) \in DOMAIN b /\ (a \o b)[i] = b[i - Len(a)]
  BY <1>2, <1>3
<1> QED
  BY <1>4, <1>5, <1>6 DEF SeqsOf

\* What is held with the records that arrive, and noted when it is not.
LEMMA HoldHas ==
  ASSUME NEW existing, IsList(existing), NEW arriving, IsList(arriving), NEW at, NEW c,
         NEW retained, retained = RetainHeld(existing, arriving, at).retained,
         dropped' = dropped \cup {<<c, n>> : n \in SeqsOf(existing \o arriving) \ SeqsOf(retained)}
  PROVE  /\ IsList(retained) /\ Range(retained) \subseteq Range(existing) \cup Range(arriving)
         /\ SeqsOf(existing) \cup SeqsOf(arriving) \subseteq SeqsOf(retained) \cup DroppedOf(c)'
<1>1. IsList(retained) /\ Range(retained) \subseteq Range(existing) \cup Range(arriving)
  BY RetainedHas
<1>2. ASSUME NEW n \in SeqsOf(existing) \cup SeqsOf(arriving), n \notin SeqsOf(retained)
      PROVE  n \in DroppedOf(c)'
  <2>1. <<c, n>> \in dropped'
    BY <1>2, ConcatenationHas
  <2> QED
    BY <2>1, DroppedAfter
<1> QED
  BY <1>1, <1>2

\* holdUnrouted: the records of a request are kept before it is answered.
LEMMA HoldKeepsIngress ==
  ASSUME IngressInv, HandlersOK', NEW w \in Workers, NEW c \in DOMAIN posts[w].at,
         NEW p \in Requests, HoldUnresolved(w, c, p)
  PROVE  IngressInv'
<1>0. PICK q, records, arriving :
        /\ q = posts[w] /\ records = q.records[c]
        /\ arriving = [i \in DOMAIN records |-> [seq |-> records[i].seq,
                                                 arrival |-> records[i].arrival, heldAt |-> now]]
  OBVIOUS
<1>1. /\ UNCHANGED <<truth, counted, taken, now, quarantine, sent, resolvedStoreIds>>
      /\ q.at[c] = "unresolved" /\ ~q.thrown /\ procs[p] = Idle
      /\ posts' = [posts EXCEPT ![w].at[c] = "holding", ![w].by[c] = p]
  BY <1>0, Zenon DEF HoldUnresolved, HoldUnrouted, Delivered, Phase, CodesOfPost, world, stores
<1>2. /\ c \in Codes /\ IsPost(q) /\ PostOK(q, c) /\ q.waiting
      /\ \A d \in DOMAIN q.at : d \in Codes
  <2>1. q.waiting
    BY <1>0, <1>1, Zenon DEF IngressInv, WaitingOK
  <2> QED
    BY <1>0, <2>1 DEF IngressInv, ShapesOK, IsPost, PostsOK
<1>3. /\ IsList(held[c]) /\ IsList(records) /\ DOMAIN posts = Workers /\ DOMAIN held = Codes
      /\ DOMAIN q = DOMAIN NoPost /\ c \in DOMAIN q.at /\ DOMAIN procs = Procs /\ p \in Procs
      /\ DOMAIN q.by = DOMAIN q.at
  BY <1>0, <1>2 DEF IngressInv, ShapesOK, IsPost, HandlersOK, Procs
<1>4. /\ IsList(arriving) /\ SeqsOf(arriving) = SeqsOf(records)
      /\ \A h \in Range(arriving) : \E x \in Range(records) :
           h.seq = x.seq /\ h.arrival = x.arrival /\ h.heldAt = now
  <2>1. DOMAIN records = 1..Len(records) /\ Len(records) \in Nat
    BY <1>3 DEF IsList
  <2>2. DOMAIN arriving = 1..Len(records) /\ \A i \in DOMAIN arriving : arriving[i] \in Range(arriving)
    BY <1>0, <2>1 DEF Range
  <2>3. IsList(arriving)
    <3>1. arriving = [i \in 1..Len(records) |-> arriving[i]]
      BY <1>0, <2>1
    <3> QED
      BY <2>1, <2>2, <3>1 DEF IsList
  <2>4. \A i \in DOMAIN records :
          /\ arriving[i].seq = records[i].seq /\ arriving[i].arrival = records[i].arrival
          /\ arriving[i].heldAt = now
    BY <1>0
  <2>5. DOMAIN arriving = DOMAIN records
    BY <1>0
  <2>6. SeqsOf(arriving) = SeqsOf(records)
    BY <2>4, <2>5 DEF SeqsOf
  <2>7. \A h \in Range(arriving) : \E x \in Range(records) :
          h.seq = x.seq /\ h.arrival = x.arrival /\ h.heldAt = now
    BY <2>4, <2>5 DEF Range
  <2> QED
    BY <2>3, <2>6, <2>7
<1> DEFINE noted(l) == dropped \cup {<<c, n>> : n \in SeqsOf(held[c] \o arriving) \ SeqsOf(l)}
           retained == RetainHeld(held[c], arriving, now).retained
           done(a) == [Idle EXCEPT !.kind = "hold", !.step = "done", !.answer = a]
           replay == [Idle EXCEPT !.kind = "hold", !.step = "replay", !.codes = <<c>>,
                                  !.answer = "held"]
<1>5. /\ \A a : done(a).kind = "hold" /\ done(a).step = "done" /\ done(a).answer = a
      /\ replay.kind = "hold" /\ replay.step = "replay" /\ replay.answer = "held"
  BY DEF Idle
<1>6. \/ /\ held' = [held EXCEPT ![c] = retained] /\ dropped' = noted(retained)
         /\ procs' = [procs EXCEPT ![p] = done("held")] \/ procs' = [procs EXCEPT ![p] = replay]
      \/ /\ UNCHANGED <<held, dropped>> /\ procs' = [procs EXCEPT ![p] = done("persist-failed")]
  BY <1>0, Zenon DEF HoldUnresolved, HoldUnrouted, Goes, keeping
<1> HIDE DEF done, replay
<1>7. /\ DOMAIN held' = Codes /\ dropped \subseteq dropped'
      /\ IsList(held'[c]) /\ Range(held'[c]) \subseteq Range(held[c]) \cup Range(arriving)
      /\ \A d \in Codes : d # c => held'[d] = held[d]
      /\ SeqsOf(held[c]) \subseteq SeqsOf(held'[c]) \cup DroppedOf(c)'
  <2>1. CASE held' = [held EXCEPT ![c] = retained] /\ dropped' = noted(retained)
    <3>1. IsList(retained) /\ Range(retained) \subseteq Range(held[c]) \cup Range(arriving)
      BY <1>3, <1>4, RetainedHas
    <3>2. SeqsOf(held[c]) \cup SeqsOf(arriving) \subseteq SeqsOf(retained) \cup DroppedOf(c)'
      BY <1>3, <1>4, <2>1, HoldHas
    <3> HIDE DEF retained
    <3> QED
      BY <1>2, <1>3, <2>1, <3>1, <3>2
  <2>2. CASE UNCHANGED <<held, dropped>>
    BY <1>2, <1>3, <2>2
  <2> QED
    BY <1>6, <2>1, <2>2
<1>8. PICK x : /\ procs' = [procs EXCEPT ![p] = x] /\ x.kind = "hold" /\ x.step \in {"done", "replay"}
               /\ x.answer \in HoldAnswers
               /\ x.answer = "held" =>
                    SeqsOf(records) \subseteq SeqsOf(held'[c]) \cup DroppedOf(c)'
  <2>1. CASE /\ held' = [held EXCEPT ![c] = retained] /\ dropped' = noted(retained)
             /\ procs' = [procs EXCEPT ![p] = done("held")] \/ procs' = [procs EXCEPT ![p] = replay]
    <3>1. SeqsOf(held[c]) \cup SeqsOf(arriving) \subseteq SeqsOf(retained) \cup DroppedOf(c)'
      BY <1>3, <1>4, <2>1, HoldHas
    <3>2. held'[c] = retained
      BY <1>2, <1>3, <2>1
    <3> HIDE DEF retained
    <3>3. SeqsOf(records) \subseteq SeqsOf(held'[c]) \cup DroppedOf(c)'
      BY <1>4, <3>1, <3>2
    <3> HIDE DEF noted
    <3> QED
      BY <1>5, <2>1, <3>3 DEF HoldAnswers
  <2>2. CASE procs' = [procs EXCEPT ![p] = done("persist-failed")]
    BY <1>5, <2>2 DEF HoldAnswers
  <2> QED
    BY <1>6, <2>1, <2>2
<1>9. procs'[p] = x /\ \A y \in Procs : y # p => procs'[y] = procs[y]
  BY <1>3, <1>8
<1> DEFINE r == [q EXCEPT !.at = [q.at EXCEPT ![c] = "holding"], !.by = [q.by EXCEPT ![c] = p]]
<1>10. posts' = [posts EXCEPT ![w] = r]
  BY <1>0, <1>1, <1>3 DEF NoPost
<1>11. /\ DOMAIN r = DOMAIN NoPost /\ DOMAIN r.at = DOMAIN q.at /\ DOMAIN r.by = DOMAIN q.at
       /\ r.at[c] = "holding" /\ r.by[c] = p
       /\ \A d \in DOMAIN q.at : d # c => r.at[d] = q.at[d] /\ r.by[d] = q.by[d]
       /\ \A f \in DOMAIN q \ {"at", "by"} : r[f] = q[f]
  BY <1>3 DEF NoPost
<1> HIDE DEF r, noted, retained
<1>12. /\ r.upTo = q.upTo /\ r.records = q.records /\ r.raws = q.raws /\ r.store = q.store
       /\ r.waiting = q.waiting /\ r.thrown = q.thrown /\ r.transient = q.transient
  BY <1>3, <1>11 DEF NoPost
<1>13. posts'[w] = r /\ DOMAIN posts' = Workers /\ \A v \in Workers : v # w => posts'[v] = posts[v]
  BY <1>3, <1>10
<1>14. ShapesOK'
  <2>1. IsPost(r)
    BY <1>2, <1>11, <1>12 DEF IsPost
  <2>2. \A d \in Codes : IsList(held'[d])
    BY <1>7 DEF IngressInv, ShapesOK
  <2> QED
    BY <1>1, <1>7, <1>13, <2>1, <2>2 DEF IngressInv, ShapesOK
<1>15. StoresKnown' /\ CodesStay
  BY <1>1, ElsewhereKeepsCodes DEF IngressInv, StoresKnown, truth
<1>16. \A d \in Codes : Gone(d) \subseteq Gone(d)' /\ Kept(d) \subseteq Kept(d)'
  <2>1. \A d \in Codes : Gone(d) \subseteq Gone(d)'
    BY <1>1, <1>7, <1>15, GoneStays DEF IngressInv
  <2>2. \A d \in Codes : SeqsOf(held[d]) \subseteq SeqsOf(held'[d]) \cup Gone(d)'
    BY <1>7 DEF Gone
  <2> QED
    BY <2>1, <2>2 DEF Kept
<1>17. Grows
  <2>1. OnlyOld(w)
    BY <1>0, <1>11, <1>12, <1>13, Zenon DEF OnlyOld
  <2>2. ASSUME NEW v \in Workers, v # w
        PROVE  OnlyOld(v)
    BY <1>13, <2>2, Zenon DEF OnlyOld
  <2>3. \A d \in Codes : \A n \in 1..MaxRecords : Past(d, n) => Past(d, n)'
    BY <1>1, <1>14, <1>16, <2>1, <2>2, PastStays DEF IngressInv, ShapesOK
  <2>4. now <= now' /\ \A d \in Codes : StoreOf(d) # None => counted[StoreOf(d)] <= counted'[StoreOf(d)]
    BY <1>1, PosIngressAssumption DEF IngressInv, ShapesOK, CountedOK
  <2> QED
    BY <1>15, <1>16, <2>3, <2>4 DEF Grows
<1>18. CountedOK'
  BY <1>1, <1>15, <1>17, CountedStays DEF IngressInv
<1>19. ReplaysOK'
  <2>1. ReplayOK(procs[p])'
    BY <1>8, <1>9 DEF ReplayOK
  <2>2. \A y \in Procs : procs'[y] = procs[y] \/ ReplayOK(procs[y])'
    BY <1>9, <2>1
  <2> QED
    BY <1>14, <1>17, <1>18, <2>2, ReplaysStay
<1>20. x.answer = "held" => SeqsOf(records) \subseteq Kept(c)'
  BY <1>8 DEF Kept, Gone
<1>21. HeldOK'
  <2> SUFFICES ASSUME NEW d \in Codes, NEW h \in Range(held'[d])
               PROVE  /\ h.seq \in 1..MaxRecords /\ h.arrival = Arrival[h.seq]
                      /\ h.heldAt \in Nat /\ h.arrival <= h.heldAt /\ h.heldAt <= now'
                      /\ \A m \in 1..h.seq : m \in Kept(d)' \/ Past(d, m)'
    BY DEF HeldOK
  <2>1. CASE h \in Range(held[d])
    <3>1. /\ h.seq \in 1..MaxRecords /\ h.arrival = Arrival[h.seq]
          /\ h.heldAt \in Nat /\ h.arrival <= h.heldAt /\ h.heldAt <= now
          /\ \A m \in 1..h.seq : m \in Kept(d) \/ Past(d, m)
      BY <2>1 DEF IngressInv, HeldOK
    <3>2. \A m \in 1..h.seq : m \in 1..MaxRecords
      BY <3>1, PosIngressAssumption
    <3> QED
      BY <1>1, <3>1, <3>2, <1>17 DEF Grows
  <2>2. CASE h \notin Range(held[d])
    <3>1. d = c /\ h \in Range(arriving)
      BY <1>7, <2>2
    <3>2. held' # held /\ x.answer = "held"
      <4>1. held' # held
        BY <2>2
      <4> QED
        BY <1>3, <1>5, <1>6, <1>9, <4>1
    <3>3. PICK y \in Range(records) : h.seq = y.seq /\ h.arrival = y.arrival /\ h.heldAt = now
      BY <1>4, <3>1
    <3>4. /\ y.seq \in 1..MaxRecords /\ y.arrival = Arrival[y.seq] /\ y.arrival <= now
          /\ \A m \in 1..y.seq : m \in SeqsOf(records) \/ m <= sent[c] \/ Past(c, m)
      BY <1>0, <1>2 DEF PostOK, RecordsOK
    <3>5. ASSUME NEW m \in 1..y.seq
          PROVE  m \in Kept(c)' \/ Past(c, m)'
      <4>1. m \in 1..MaxRecords
        BY <3>4, PosIngressAssumption
      <4>2. m <= sent[c] => m \in Kept(c)
        BY <1>2, <4>1 DEF IngressInv, SentOK, AcknowledgedIsKept, Kept
      <4> QED
        BY <1>2, <1>16, <1>17, <1>20, <3>2, <3>4, <4>1, <4>2 DEF Grows
    <3> QED
      BY <1>1, <3>1, <3>3, <3>4, <3>5 DEF IngressInv, ShapesOK
  <2> QED
    BY <2>1, <2>2
<1>22. ASSUME NEW d \in DOMAIN posts[w].at
       PROVE  Continues(w, d)
  <2>1. d \in Codes /\ Kept(d) \subseteq Kept(d)'
    BY <1>0, <1>2, <1>17 DEF Grows
  <2>2. sent[d] <= sent'[d]
    BY <1>1, <2>1, PosIngressAssumption DEF IngressInv, SentOK
  <2>3. r.at[d] = "delivered" => q.at[d] = "delivered"
    BY <1>0, <1>11
  <2>4. q.waiting /\ r.at[d] = "holding" => HoldsOn(w, d) \/ HoldingOK(posts[w], d)'
    <3>1. CASE d = c
      <4>1. /\ r.by[c] \in Requests /\ procs'[r.by[c]].kind = "hold"
            /\ procs'[r.by[c]].answer \in HoldAnswers
            /\ procs'[r.by[c]].answer = "held" => SeqsOf(r.records[c]) \subseteq Kept(c)'
        BY <1>0, <1>8, <1>9, <1>11, <1>12, <1>20
      <4> QED
        BY <1>13, <3>1, <4>1, Zenon DEF HoldingOK
    <3>2. CASE d # c
      <4> SUFFICES ASSUME q.waiting, r.at[d] = "holding" PROVE HoldsOn(w, d)
        OBVIOUS
      <4>1. q.at[d] = "holding" /\ r.by[d] = q.by[d]
        BY <1>0, <1>11, <3>2
      <4>2. q.by[d] \in Requests /\ procs[q.by[d]].kind = "hold"
        BY <1>0, <4>1, Zenon DEF IngressInv, PostsOK, PostOK, HoldingOK
      <4>3. q.by[d] # p /\ q.by[d] \in Procs
        BY <1>1, <4>2 DEF Idle, Procs
      <4> QED
        BY <1>0, <1>9, <1>13, <4>1, <4>3 DEF HoldsOn
    <3> QED
      BY <3>1, <3>2
  <2> QED
    BY <1>0, <1>1, <1>12, <1>13, <2>1, <2>2, <2>3, <2>4, Zenon DEF Continues
<1>23. ASSUME NEW d \in DOMAIN posts[w].at
       PROVE  /\ posts'[w].at[d] = "deliver" => \E t : t = posts'[w].store[d] /\ Direct(d, t)
              /\ posts'[w].at[d] = "unresolved" => posts[w].at[d] = "unresolved"
                                                   \/ \A t : ~Direct(d, t)
  <2>1. CASE d = c
    BY <1>11, <1>13, <2>1
  <2>2. CASE d # c
    <3>1. posts'[w].at[d] = posts[w].at[d] /\ posts'[w].store[d] = posts[w].store[d]
      BY <1>0, <1>11, <1>12, <1>13, <2>2
    <3> QED
      BY <3>1 DEF IngressInv, DirectOK
  <2> QED
    BY <2>1, <2>2
<1>24. /\ posts'[w].waiting => posts[w].waiting
       /\ ~posts'[w].thrown => posts'[w].waiting
  BY <1>0, <1>2, <1>12, <1>13
<1>25. \A v \in Workers : \A d \in DOMAIN resolvedStoreIds'[v] :
         d \in Codes /\ \E t : t = resolvedStoreIds'[v][d] /\ Direct(d, t)
  BY <1>1 DEF IngressInv, DirectOK
<1>26. DOMAIN posts'[w].at = DOMAIN posts[w].at
  BY <1>0, <1>11, <1>13
<1>27. \A y \in Requests : procs[y].kind = "hold" =>
         procs'[y].kind = "hold" /\ procs'[y].answer \in {procs[y].answer, "replay-deferred"}
  BY <1>1, <1>9 DEF Procs, Idle
<1>28. \A d \in Codes : held[d] = <<>> /\ ~Unresolved(d) /\ StoreOf(d) # None => held'[d] = <<>>
  <2>1. Unresolved(c)
    BY <1>0, <1>1, <1>2, <1>3, Zenon DEF Unresolved
  <2> QED
    BY <1>7, <2>1
<1> QED
  BY <1>1, <1>13, <1>14, <1>15, <1>17, <1>18, <1>19, <1>21, <1>22, <1>23, <1>24, <1>25, <1>26,
     <1>27, <1>28, OneRequestMoves

\* quarantineContractViolations: what the store must not see is kept apart.
LEMMA QuarantineKeepsIngress ==
  ASSUME IngressInv, HandlersOK', NEW w \in Workers, NEW c \in DOMAIN posts[w].at,
         QuarantineContractViolations(w, c)
  PROVE  IngressInv'
<1>0. PICK q, raws, arriving :
        /\ q = posts[w] /\ raws = q.raws[c]
        /\ arriving = [i \in DOMAIN raws |-> [seq |-> raws[i].seq, arrival |-> now, heldAt |-> now]]
  OBVIOUS
<1>1. /\ UNCHANGED <<truth, held, counted, taken, now, procs, sent, resolvedStoreIds>>
      /\ ~q.thrown
  BY <1>0, Zenon DEF QuarantineContractViolations, Delivered, world, stores
<1>2. c \in Codes /\ IsPost(q) /\ q.waiting /\ \A d \in DOMAIN q.at : d \in Codes
  <2>1. q.waiting
    BY <1>0, <1>1, Zenon DEF IngressInv, WaitingOK
  <2> QED
    BY <1>0, <2>1 DEF IngressInv, ShapesOK, IsPost
<1>3. /\ IsList(quarantine[c]) /\ IsList(raws) /\ DOMAIN posts = Workers /\ DOMAIN quarantine = Codes
      /\ DOMAIN q = DOMAIN NoPost /\ DOMAIN q.raws = DOMAIN q.at /\ c \in DOMAIN q.at
  BY <1>0, <1>2 DEF IngressInv, ShapesOK, IsPost
<1>4. IsList(arriving) /\ SeqsOf(arriving) = SeqsOf(raws)
  <2>1. DOMAIN raws = 1..Len(raws) /\ Len(raws) \in Nat
    BY <1>3 DEF IsList
  <2>2. DOMAIN arriving = 1..Len(raws) /\ \A i \in DOMAIN arriving : arriving[i] \in Range(arriving)
    BY <1>0, <2>1 DEF Range
  <2>3. arriving = [i \in 1..Len(raws) |-> arriving[i]]
    BY <1>0, <2>1
  <2>4. IsList(arriving)
    BY <2>1, <2>2, <2>3 DEF IsList
  <2>5. SeqsOf(arriving) = SeqsOf(raws)
    BY <1>0 DEF SeqsOf
  <2> QED
    BY <2>4, <2>5
<1> DEFINE noted(l) == dropped \cup {<<c, n>> : n \in SeqsOf(quarantine[c] \o arriving) \ SeqsOf(l)}
           retained == RetainHeld(quarantine[c], arriving, now).retained
           over == [q.raws EXCEPT ![c] = <<>>]
<1>5. \/ /\ quarantine' = [quarantine EXCEPT ![c] = retained] /\ dropped' = noted(retained)
         /\ posts' = [posts EXCEPT ![w].raws[c] = <<>>]
      \/ /\ UNCHANGED <<quarantine, dropped>>
         /\ posts' = [posts EXCEPT ![w].raws[c] = <<>>, ![w].transient = TRUE]
  BY <1>0, Zenon DEF QuarantineContractViolations
<1>6. PICK r : /\ posts' = [posts EXCEPT ![w] = r] /\ DOMAIN r = DOMAIN q /\ r.raws = over
               /\ \A f \in DOMAIN q \ {"raws", "transient"} : r[f] = q[f]
               /\ \/ /\ r.transient = q.transient
                     /\ quarantine' = [quarantine EXCEPT ![c] = retained]
                     /\ dropped' = noted(retained)
                  \/ r.transient /\ UNCHANGED <<quarantine, dropped>>
  <2>1. CASE /\ quarantine' = [quarantine EXCEPT ![c] = retained] /\ dropped' = noted(retained)
             /\ posts' = [posts EXCEPT ![w].raws[c] = <<>>]
    <3> DEFINE r == [q EXCEPT !.raws = over]
    <3>1. posts' = [posts EXCEPT ![w] = r] /\ DOMAIN r = DOMAIN q /\ r.raws = over
          /\ \A f \in DOMAIN q \ {"raws"} : r[f] = q[f]
      BY <1>0, <1>3, <2>1 DEF NoPost
    <3>2. r.transient = q.transient
      BY <1>3, <3>1 DEF NoPost
    <3> HIDE DEF r
    <3> QED
      BY <2>1, <3>1, <3>2
  <2>2. CASE /\ UNCHANGED <<quarantine, dropped>>
             /\ posts' = [posts EXCEPT ![w].raws[c] = <<>>, ![w].transient = TRUE]
    <3> DEFINE r == [q EXCEPT !.raws = over, !.transient = TRUE]
    <3>1. posts' = [posts EXCEPT ![w] = r]
      BY <1>0, <1>3, <2>2 DEF NoPost
    <3>2. DOMAIN r = DOMAIN q /\ r.raws = over /\ r.transient
          /\ \A f \in DOMAIN q \ {"raws", "transient"} : r[f] = q[f]
      BY <1>3 DEF NoPost
    <3> HIDE DEF r
    <3> QED
      BY <2>2, <3>1, <3>2
  <2> QED
    BY <1>5, <2>1, <2>2
<1>7. /\ DOMAIN over = DOMAIN q.at /\ over[c] = <<>>
      /\ \A d \in DOMAIN q.at : d # c => over[d] = q.raws[d]
  BY <1>3
<1> HIDE DEF over
<1>8. /\ DOMAIN quarantine' = Codes /\ dropped \subseteq dropped' /\ IsList(quarantine'[c])
      /\ \A d \in Codes : d # c => quarantine'[d] = quarantine[d]
      /\ SeqsOf(quarantine[c]) \subseteq SeqsOf(quarantine'[c]) \cup DroppedOf(c)'
      /\ ~r.transient => ~q.transient /\ SeqsOf(raws) \subseteq SeqsOf(quarantine'[c]) \cup DroppedOf(c)'
  <2>1. CASE /\ r.transient = q.transient
             /\ quarantine' = [quarantine EXCEPT ![c] = retained] /\ dropped' = noted(retained)
    <3>1. IsList(retained)
      BY <1>3, <1>4, RetainedHas
    <3>2. SeqsOf(quarantine[c]) \cup SeqsOf(arriving) \subseteq SeqsOf(retained) \cup DroppedOf(c)'
      BY <1>3, <1>4, <2>1, HoldHas
    <3> HIDE DEF retained
    <3>3. quarantine'[c] = retained
      BY <1>2, <1>3, <2>1
    <3> QED
      BY <1>2, <1>3, <1>4, <2>1, <3>1, <3>2, <3>3
  <2>2. CASE r.transient /\ UNCHANGED <<quarantine, dropped>>
    BY <1>2, <1>3, <2>2
  <2> QED
    BY <1>6, <2>1, <2>2
<1> HIDE DEF noted, retained
<1>9. /\ posts'[w] = r /\ DOMAIN posts' = Workers /\ DOMAIN r = DOMAIN NoPost /\ r.raws = over
      /\ \A v \in Workers : v # w => posts'[v] = posts[v]
  BY <1>3, <1>6
<1>10. /\ r.at = q.at /\ r.upTo = q.upTo /\ r.records = q.records /\ r.store = q.store
       /\ r.by = q.by /\ r.waiting = q.waiting /\ r.thrown = q.thrown
  BY <1>3, <1>6 DEF NoPost
<1>11. ShapesOK'
  <2>1. IsList(<<>>)
    BY DEF IsList, Range
  <2>2. IsPost(r)
    BY <1>2, <1>3, <1>7, <1>9, <1>10, <2>1 DEF IsPost
  <2>3. \A d \in Codes : IsList(quarantine'[d])
    BY <1>8 DEF IngressInv, ShapesOK
  <2> QED
    BY <1>1, <1>8, <1>9, <2>2, <2>3 DEF IngressInv, ShapesOK
<1>12. StoresKnown' /\ CodesStay
  BY <1>1, ElsewhereKeepsCodes DEF IngressInv, StoresKnown, truth
<1>13. \A d \in Codes : Gone(d) \subseteq Gone(d)' /\ Kept(d) \subseteq Kept(d)'
  <2>1. \A d \in Codes : Gone(d) \subseteq Gone(d)'
    BY <1>1, <1>8, <1>12, GoneStays DEF IngressInv
  <2> QED
    BY <1>1, <2>1 DEF Kept
<1>14. Grows
  <2>1. \A v \in Workers : OnlyOld(v)
    BY <1>0, <1>9, <1>10, Zenon DEF OnlyOld
  <2>2. \A d \in Codes : \A n \in 1..MaxRecords : Past(d, n) => Past(d, n)'
    BY <1>1, <1>11, <1>13, <2>1, PastStays DEF IngressInv, ShapesOK
  <2>3. now <= now' /\ \A d \in Codes : StoreOf(d) # None => counted[StoreOf(d)] <= counted'[StoreOf(d)]
    BY <1>1, PosIngressAssumption DEF IngressInv, ShapesOK, CountedOK
  <2> QED
    BY <1>12, <1>13, <2>2, <2>3 DEF Grows
<1>15. CountedOK' /\ HeldOK'
  BY <1>1, <1>11, <1>12, <1>14, CountedStays, HeldStays DEF IngressInv
<1>16. ReplaysOK'
  BY <1>1, <1>11, <1>14, <1>15, ReplaysStay
<1>17. ASSUME NEW d \in DOMAIN posts[w].at
       PROVE  Continues(w, d)
  <2>1. d \in Codes /\ Kept(d) \subseteq Kept(d)'
    BY <1>0, <1>2, <1>13
  <2>2. sent[d] <= sent'[d]
    BY <1>1, <2>1, PosIngressAssumption DEF IngressInv, SentOK
  <2>3. q.at[d] = "holding" => q.by[d] \in Requests /\ procs[q.by[d]].kind = "hold"
    BY <1>0, <1>2, Zenon DEF IngressInv, PostsOK, PostOK, HoldingOK
  <2>4. r.at[d] = "holding" => HoldsOn(w, d)
    BY <1>0, <1>1, <1>9, <1>10, <2>3 DEF HoldsOn
  <2>5. ~r.transient => SeqsOf(q.raws[d]) \subseteq SeqsOf(r.raws[d]) \cup Kept(d)'
    <3>1. CASE d = c
      BY <1>0, <1>8, <3>1 DEF Kept, Gone
    <3>2. CASE d # c
      BY <1>0, <1>7, <1>9, <3>2
    <3> QED
      BY <3>1, <3>2
  <2>6. ~r.transient => ~q.transient
    BY <1>8
  <2> QED
    BY <1>0, <1>1, <1>9, <1>10, <2>1, <2>2, <2>4, <2>5, <2>6, Zenon DEF Continues
<1>18. /\ posts'[w].waiting => posts[w].waiting
       /\ ~posts'[w].thrown => posts'[w].waiting
  BY <1>0, <1>2, <1>9, <1>10
<1>19. \A d \in DOMAIN posts[w].at :
         /\ posts'[w].at[d] = "deliver" => \E s : s = posts'[w].store[d] /\ Direct(d, s)
         /\ posts'[w].at[d] = "unresolved" => posts[w].at[d] = "unresolved" \/ \A s : ~Direct(d, s)
  BY <1>0, <1>9, <1>10 DEF IngressInv, DirectOK
<1>20. \A v \in Workers : \A d \in DOMAIN resolvedStoreIds'[v] :
         d \in Codes /\ \E s : s = resolvedStoreIds'[v][d] /\ Direct(d, s)
  BY <1>1 DEF IngressInv, DirectOK
<1>21. /\ DOMAIN posts'[w].at = DOMAIN posts[w].at /\ UNCHANGED <<sent, held>>
       /\ \A p \in Requests : procs[p].kind = "hold" =>
            procs'[p].kind = "hold" /\ procs'[p].answer \in {procs[p].answer, "replay-deferred"}
  BY <1>0, <1>1, <1>9, <1>10
<1> QED
  BY <1>9, <1>11, <1>12, <1>14, <1>15, <1>16, <1>17, <1>18, <1>19, <1>20, <1>21, OneRequestMoves

\* The registry answers a request: those who waited for it hear how it went.
LEMMA HoldAnsweredKeepsIngress ==
  ASSUME IngressInv, HandlersOK', NEW p \in Requests, HoldAnswered(p)
  PROVE  IngressInv'
<1>1. /\ UNCHANGED <<truth, held, dropped, counted, taken, now, quarantine, sent, resolvedStoreIds>>
      /\ procs' = [procs EXCEPT ![p] = Idle]
  BY Zenon DEF HoldAnswered, Answered, keeping, stores, world
<1>2. /\ DOMAIN posts = Workers /\ p \in Procs /\ procs'[p] = Idle
      /\ \A x \in Procs : x # p => procs'[x] = procs[x]
  BY <1>1 DEF IngressInv, ShapesOK, HandlersOK, Procs
<1> DEFINE mine(w, c) == posts[w].by[c] = p /\ posts[w].at[c] = "holding"
           at(w) == [c \in DOMAIN posts[w].at |-> IF mine(w, c) THEN "delivered" ELSE posts[w].at[c]]
           late(w) == \/ posts[w].transient
                      \/ \E c \in DOMAIN posts[w].at : mine(w, c) /\ IsTransient(procs[p].answer)
<1>3. posts' = [w \in Workers |-> [posts[w] EXCEPT !.at = at(w), !.transient = late(w)]]
  BY Zenon DEF HoldAnswered, CodesOfPost
<1>4. ASSUME NEW w \in Workers
      PROVE  /\ IsPost(posts[w]) /\ IsPost(posts'[w])
             /\ DOMAIN posts'[w].at = DOMAIN posts[w].at
             /\ \A c \in DOMAIN posts[w].at :
                  posts'[w].at[c] = IF mine(w, c) THEN "delivered" ELSE posts[w].at[c]
             /\ posts'[w].transient = late(w)
             /\ \A f \in {"waiting", "thrown", "upTo", "records", "raws", "store", "by"} :
                  posts'[w][f] = posts[w][f]
  <2>1. IsPost(posts[w]) /\ DOMAIN posts[w] = DOMAIN NoPost
    BY DEF IngressInv, ShapesOK, IsPost
  <2> HIDE DEF mine
  <2>2. DOMAIN at(w) = DOMAIN posts[w].at
        /\ \A c \in DOMAIN posts[w].at :
             at(w)[c] = IF mine(w, c) THEN "delivered" ELSE posts[w].at[c]
    OBVIOUS
  <2> HIDE DEF at, late
  <2>3. /\ DOMAIN posts'[w] = DOMAIN NoPost /\ posts'[w].at = at(w)
        /\ \A f \in {"waiting", "thrown", "upTo", "records", "raws", "store", "by"} :
             posts'[w][f] = posts[w][f]
    BY <1>3, <2>1 DEF NoPost
  <2>4. posts'[w].transient = late(w)
    BY <1>3, <2>1 DEF NoPost
  <2>5. IsPost(posts'[w])
    BY <2>1, <2>2, <2>3 DEF IsPost
  <2> QED
    BY <2>1, <2>2, <2>3, <2>4, <2>5
<1> HIDE DEF at
<1>5. ShapesOK' /\ StoresKnown' /\ CodesStay
  <2>1. DOMAIN posts' = Workers
    BY <1>3
  <2>2. StoresKnown' /\ CodesStay
    BY <1>1, ElsewhereKeepsCodes DEF IngressInv, StoresKnown, truth
  <2> QED
    BY <1>1, <1>4, <2>1, <2>2 DEF IngressInv, ShapesOK
<1>6. Grows
  <2>1. \A w \in Workers : OnlyOld(w)
    <3> SUFFICES ASSUME NEW w \in Workers, posts'[w].waiting, NEW c \in DOMAIN posts'[w].at
                 PROVE  /\ posts[w].waiting /\ c \in DOMAIN posts[w].at
                        /\ posts'[w].records[c] = posts[w].records[c]
      BY Zenon DEF OnlyOld
    <3> HIDE DEF late, mine
    <3> QED
      BY <1>4
  <2>2. \A c \in Codes : Gone(c) \subseteq Gone(c)' /\ Kept(c) \subseteq Kept(c)'
    BY <1>1, <1>5, GoneStays DEF IngressInv, Kept
  <2>3. \A c \in Codes : \A n \in 1..MaxRecords : Past(c, n) => Past(c, n)'
    BY <1>1, <1>5, <2>1, <2>2, PastStays DEF IngressInv, ShapesOK
  <2>4. now <= now' /\ \A c \in Codes : StoreOf(c) # None => counted[StoreOf(c)] <= counted'[StoreOf(c)]
    BY <1>1, PosIngressAssumption DEF IngressInv, ShapesOK, CountedOK
  <2> QED
    BY <1>5, <2>2, <2>3, <2>4 DEF Grows
<1>7. CountedOK' /\ HeldOK' /\ SentOK' /\ AcknowledgedIsKept'
  BY <1>1, <1>5, <1>6, CountedStays, HeldStays, SentStays DEF IngressInv
<1>8. ReplaysOK'
  <2>1. ReplayOK(procs[p])'
    BY <1>2 DEF ReplayOK, Idle
  <2>2. \A x \in Procs : procs'[x] = procs[x] \/ ReplayOK(procs[x])'
    BY <1>2, <2>1
  <2> QED
    BY <1>5, <1>6, <1>7, <2>2, ReplaysStay
<1>9. ASSUME NEW w \in Workers, NEW c \in DOMAIN posts[w].at
      PROVE  c \in Codes /\ Continues(w, c)
  <2>1. c \in Codes /\ PostOK(posts[w], c)
    BY <1>4 DEF IngressInv, PostsOK, IsPost
  <2>2. Kept(c) \subseteq Kept(c)' /\ sent[c] <= sent'[c]
    BY <1>1, <1>6, <2>1, PosIngressAssumption DEF IngressInv, SentOK, Grows
  <2>3. posts[w].waiting /\ mine(w, c) => \/ IsTransient(procs[p].answer)
                                          \/ SeqsOf(posts[w].records[c]) \subseteq Kept(c)'
    BY <2>1, <2>2 DEF PostOK, HoldingOK, HoldAnswers, IsTransient
  <2>4. /\ DOMAIN posts'[w].at = DOMAIN posts[w].at
        /\ posts'[w].at[c] = IF mine(w, c) THEN "delivered" ELSE posts[w].at[c]
        /\ posts'[w].records = posts[w].records /\ posts'[w].upTo = posts[w].upTo
        /\ posts'[w].raws = posts[w].raws /\ posts'[w].by = posts[w].by
        /\ posts'[w].waiting = posts[w].waiting
    <3> HIDE DEF late, mine
    <3> QED
      BY <1>4
  <2>5. ~posts'[w].transient => ~posts[w].transient /\ (mine(w, c) => ~IsTransient(procs[p].answer))
    <3>1. posts'[w].transient = late(w)
      BY <1>4, Zenon
    <3> HIDE DEF mine
    <3> QED
      BY <3>1, Zenon
  <2>6. posts[w].waiting /\ posts'[w].at[c] = "holding" => HoldsOn(w, c)
    <3> SUFFICES ASSUME posts[w].waiting, posts'[w].at[c] = "holding"
                 PROVE  HoldsOn(w, c)
      OBVIOUS
    <3>1. posts[w].at[c] = "holding" /\ posts[w].by[c] # p
      BY <2>4
    <3>2. posts[w].by[c] \in Procs
      BY <2>1, <3>1 DEF PostOK, HoldingOK, Procs
    <3> QED
      BY <1>2, <2>4, <3>1, <3>2 DEF HoldsOn
  <2>7. posts'[w].at[c] = "delivered" /\ posts[w].at[c] # "delivered" => mine(w, c)
    BY <2>4
  <2> HIDE DEF mine
  <2>8. /\ posts'[w].records[c] = posts[w].records[c] /\ posts'[w].upTo[c] = posts[w].upTo[c]
        /\ SeqsOf(posts[w].raws[c]) \subseteq SeqsOf(posts'[w].raws[c]) \cup Kept(c)'
    BY <2>4
  <2> QED
    BY <1>1, <2>1, <2>2, <2>3, <2>4, <2>5, <2>6, <2>7, <2>8, Zenon DEF Continues
<1>10. PostsOK'
  <2> SUFFICES ASSUME NEW w \in Workers, NEW c \in DOMAIN posts'[w].at
               PROVE  PostOK(posts[w], c)'
    BY DEF PostsOK
  <2>1. c \in DOMAIN posts[w].at
    BY <1>4, Zenon
  <2> QED
    BY <1>5, <1>6, <1>7, <1>9, <2>1, PostStays
<1>11. WaitingOK'
  <2>1. ASSUME NEW w \in Workers
        PROVE  /\ DOMAIN posts'[w].at \subseteq DOMAIN posts[w].at
               /\ posts'[w].waiting => posts[w].waiting
               /\ DOMAIN posts'[w].at # {} /\ ~posts'[w].thrown => posts'[w].waiting
    <3>1. /\ DOMAIN posts'[w].at = DOMAIN posts[w].at
          /\ posts'[w].waiting = posts[w].waiting /\ posts'[w].thrown = posts[w].thrown
      <4> HIDE DEF late, mine
      <4> QED
        BY <1>4
    <3>2. DOMAIN posts[w].at # {} /\ ~posts[w].thrown => posts[w].waiting
      BY Zenon DEF IngressInv, WaitingOK
    <3> QED
      BY <3>1, <3>2, Zenon
  <2> QED
    BY <2>1, WaitingStays
<1>12. DirectOK'
  <2>1. ASSUME NEW w \in Workers, NEW c \in DOMAIN posts'[w].at
        PROVE  /\ c \in DOMAIN posts[w].at /\ c \in Codes
               /\ posts'[w].store = posts[w].store /\ posts'[w].waiting = posts[w].waiting
               /\ posts'[w].at[c] \in {"deliver", "unresolved"} => posts'[w].at[c] = posts[w].at[c]
    <3> HIDE DEF late
    <3>1. c \in DOMAIN posts[w].at
      BY <1>4
    <3> QED
      BY <1>4, <1>9, <3>1
  <2>2. ASSUME NEW c \in Codes, ~Unresolved(c)
        PROVE  ~Unresolved(c)'
    <3> SUFFICES ASSUME NEW v \in Workers, posts'[v].waiting, c \in DOMAIN posts'[v].at,
                        posts'[v].at[c] = "unresolved"
                 PROVE  FALSE
      BY Zenon DEF Unresolved
    <3>1. posts[v].waiting /\ c \in DOMAIN posts[v].at /\ posts[v].at[c] = "unresolved"
      BY <2>1
    <3> QED
      BY <2>2, <3>1, Zenon DEF Unresolved
  <2>3. \A w \in Workers : \A c \in DOMAIN posts'[w].at :
          c \in Codes /\ (posts'[w].at[c] = "deliver" =>
                            \E s : s = posts'[w].store[c] /\ Direct(c, s))
    BY <2>1 DEF IngressInv, DirectOK
  <2>4. \A w \in Workers : \A c \in DOMAIN resolvedStoreIds'[w] :
          c \in Codes /\ \E s : s = resolvedStoreIds'[w][c] /\ Direct(c, s)
    BY <1>1 DEF IngressInv, DirectOK
  <2> QED
    BY <1>1, <1>5, <2>2, <2>3, <2>4, DirectsStay
<1> QED
  BY <1>5, <1>7, <1>8, <1>10, <1>11, <1>12 DEF IngressInv

\* The records the upstream sends next: as many as it has, up to the size of a batch.
LEMMA NextBatchHas ==
  ASSUME SentOK, NEW c \in Codes, sent[c] < MaxRecords, NEW size \in 1..BatchSize
  PROVE  /\ IsList(NextBatch(c, size)) /\ Len(NextBatch(c, size)) \in 1..(MaxRecords - sent[c])
         /\ Range(NextBatch(c, size)) =
              {Record(n) : n \in sent[c] + 1..sent[c] + Len(NextBatch(c, size))}
<1>1. /\ sent[c] \in Nat /\ MaxRecords \in Nat /\ BatchSize \in Nat /\ size \in Nat /\ 1 <= size
      /\ MaxRecords - sent[c] \in Nat /\ 1 <= MaxRecords - sent[c]
  BY PosIngressAssumption DEF SentOK
<1>2. PICK k : k = Min({size, MaxRecords - sent[c]})
  OBVIOUS
<1>3. k \in 1..(MaxRecords - sent[c])
  <2>1. \E x \in {size, MaxRecords - sent[c]} : \A y \in {size, MaxRecords - sent[c]} : x <= y
    BY <1>1
  <2>2. k \in {size, MaxRecords - sent[c]} /\ \A y \in {size, MaxRecords - sent[c]} : k <= y
    BY <1>2, <2>1 DEF Min
  <2> QED
    BY <1>1, <2>2
<1> DEFINE batch == NextBatch(c, size)
<1>4. batch = [i \in 1..k |-> Record(sent[c] + i)]
  BY <1>2 DEF NextBatch
<1> HIDE DEF batch
<1>5. DOMAIN batch = 1..k /\ \A i \in 1..k : batch[i] = Record(sent[c] + i)
  BY <1>4
<1>6. \A i \in 1..k : batch[i] \in Range(batch)
  BY <1>5 DEF Range
<1>7. batch = [i \in 1..k |-> batch[i]]
  BY <1>4, <1>5
<1>8. IsList(batch) /\ Len(batch) = k
  <2>1. batch \in Seq(Range(batch))
    BY <1>3, <1>6, <1>7
  <2> QED
    BY <1>3, <1>5, <2>1 DEF IsList
<1>9. ASSUME NEW n \in sent[c] + 1..sent[c] + k
      PROVE  Record(n) \in Range(batch)
  <2>1. n - sent[c] \in 1..k /\ sent[c] + (n - sent[c]) = n
    BY <1>1, <1>3
  <2> QED
    BY <1>5, <1>6, <2>1
<1>10. ASSUME NEW x \in Range(batch)
       PROVE  \E n \in sent[c] + 1..sent[c] + k : x = Record(n)
  <2>1. PICK i \in 1..k : x = Record(sent[c] + i)
    BY <1>5 DEF Range
  <2>2. sent[c] + i \in sent[c] + 1..sent[c] + k
    BY <1>1, <1>3
  <2> QED
    BY <2>1, <2>2
<1> QED
  BY <1>3, <1>8, <1>9, <1>10 DEF batch

\* The records of a request that may be delivered, and those that are kept apart.
LEMMA BatchHas ==
  ASSUME ShapesOK, SentOK, NEW c \in Codes, sent[c] < MaxRecords, NEW size \in 1..BatchSize,
         NEW batch, batch = NextBatch(c, size)
  PROVE  /\ IsList(Deliverable(batch)) /\ IsList(Violations(batch))
         /\ Len(batch) \in 1..(MaxRecords - sent[c])
         /\ \A x \in Range(Deliverable(batch)) :
              /\ x.seq \in sent[c] + 1..sent[c] + Len(batch)
              /\ x.arrival = Arrival[x.seq] /\ x.arrival <= now /\ ~Expired(x.seq)
         /\ \A n \in sent[c] + 1..sent[c] + Len(batch) :
              \/ n \in SeqsOf(Deliverable(batch))
              \/ n \in SeqsOf(Violations(batch)) /\ (Arrival[n] <= now => Expired(n))
<1>1. /\ IsList(batch) /\ Len(batch) \in 1..(MaxRecords - sent[c])
      /\ Range(batch) = {Record(n) : n \in sent[c] + 1..sent[c] + Len(batch)}
  BY NextBatchHas
<1>2. /\ sent[c] \in Nat /\ MaxRecords \in Nat /\ now \in Nat /\ ArrivalWindow \in Nat
      /\ \A n \in 1..MaxRecords : Arrival[n] \in Nat
  BY PosIngressAssumption, RegistryCoreAssumption DEF SentOK, ShapesOK
<1>3. \A n : Record(n).seq = n /\ Record(n).arrival = Arrival[n]
  BY DEF Record
<1> DEFINE open == {r \in Range(batch) : IsWithinArrivalWindow(r.arrival, now)}
           shut == {r \in Range(batch) : ~IsWithinArrivalWindow(r.arrival, now)}
<1>4. /\ IsList(Deliverable(batch)) /\ Range(Deliverable(batch)) = Range(batch) \cap open
      /\ IsList(Violations(batch)) /\ Range(Violations(batch)) = Range(batch) \cap shut
  BY <1>1, FilteredHas DEF Deliverable, Violations
<1>5. ASSUME NEW x \in Range(Deliverable(batch))
      PROVE  /\ x.seq \in sent[c] + 1..sent[c] + Len(batch)
             /\ x.arrival = Arrival[x.seq] /\ x.arrival <= now /\ ~Expired(x.seq)
  <2>1. PICK n \in sent[c] + 1..sent[c] + Len(batch) : x = Record(n)
    BY <1>1, <1>4
  <2>2. x.seq = n /\ x.arrival = Arrival[n] /\ n \in 1..MaxRecords
    BY <1>1, <1>2, <1>3, <2>1
  <2>3. IsWithinArrivalWindow(x.arrival, now)
    BY <1>4
  <2> QED
    BY <1>2, <2>2, <2>3 DEF IsWithinArrivalWindow, Expired
<1>6. ASSUME NEW n \in sent[c] + 1..sent[c] + Len(batch)
      PROVE  \/ n \in SeqsOf(Deliverable(batch))
             \/ n \in SeqsOf(Violations(batch)) /\ (Arrival[n] <= now => Expired(n))
  <2>1. Record(n) \in Range(batch) /\ n \in 1..MaxRecords
    BY <1>1, <1>2
  <2>2. CASE IsWithinArrivalWindow(Record(n).arrival, now)
    <3>1. Record(n) \in Range(Deliverable(batch))
      BY <1>4, <2>1, <2>2
    <3>2. n \in {h.seq : h \in Range(Deliverable(batch))}
      BY <1>3, <3>1
    <3> QED
      BY <3>2, SeqsOfRange
  <2>3. CASE ~IsWithinArrivalWindow(Record(n).arrival, now)
    <3>1. Record(n) \in Range(Violations(batch))
      BY <1>4, <2>1, <2>3
    <3>2. n \in {h.seq : h \in Range(Violations(batch))}
      BY <1>3, <3>1
    <3>3. Arrival[n] <= now => Expired(n)
      BY <1>2, <1>3, <2>1, <2>3 DEF IsWithinArrivalWindow, Expired
    <3> QED
      BY <3>2, <3>3, SeqsOfRange
  <2> QED
    BY <2>2, <2>3
<1> QED
  BY <1>1, <1>4, <1>5, <1>6

\* The upstream sends the records that come after the acknowledged ones.
LEMMA PostKeepsIngress ==
  ASSUME IngressInv, HandlersOK', NEW w \in Workers, NEW codes \in SUBSET Codes \ {{}},
         NEW size \in 1..BatchSize, Post(w, codes, size)
  PROVE  IngressInv'
<1>1. UNCHANGED <<ledgerVars, sent, resolvedStoreIds>>
  BY Zenon DEF Post, ledgerVars, vars, keeping, stores, world
<1>2. /\ posts[w] = NoPost /\ DOMAIN posts = Workers
      /\ \A c \in codes : /\ c \in Codes /\ sent[c] < MaxRecords
                          /\ \A v \in Workers : ~(posts[v].waiting /\ c \in DOMAIN posts[v].at)
  BY Zenon DEF Post, CodesOfPost, IngressInv, ShapesOK
<1> DEFINE batch(c) == NextBatch(c, size)
<1>3. PICK r :
        /\ posts' = [posts EXCEPT ![w] = r] /\ DOMAIN r = DOMAIN NoPost
        /\ r.waiting /\ ~r.thrown /\ ~r.transient
        /\ DOMAIN r.at = codes
        /\ \A f \in {"upTo", "records", "raws", "store", "by"} : DOMAIN r[f] = codes
        /\ \A c \in codes :
             /\ r.upTo[c] = sent[c] + Len(batch(c))
             /\ r.records[c] = Deliverable(batch(c)) /\ r.raws[c] = Violations(batch(c))
             /\ r.at[c] \in {"delivered", "resolve"}
             /\ r.at[c] = "delivered" => Deliverable(batch(c)) = <<>>
  <2> DEFINE r == [NoPost EXCEPT !.waiting = TRUE,
                     !.upTo = [c \in codes |-> sent[c] + Len(NextBatch(c, size))],
                     !.records = [c \in codes |-> Deliverable(NextBatch(c, size))],
                     !.raws = [c \in codes |-> Violations(NextBatch(c, size))],
                     !.at = [c \in codes |-> IF Deliverable(NextBatch(c, size)) = <<>>
                                             THEN "delivered" ELSE "resolve"],
                     !.by = [c \in codes |-> None],
                     !.store = [c \in codes |-> None]]
  <2>1. posts' = [posts EXCEPT ![w] = r]
    BY Zenon DEF Post
  <2>2. DOMAIN r = DOMAIN NoPost /\ r.waiting /\ ~r.thrown /\ ~r.transient
    BY DEF NoPost
  <2>3. /\ r.upTo = [c \in codes |-> sent[c] + Len(NextBatch(c, size))]
        /\ r.records = [c \in codes |-> Deliverable(NextBatch(c, size))]
        /\ r.raws = [c \in codes |-> Violations(NextBatch(c, size))]
        /\ r.at = [c \in codes |-> IF Deliverable(NextBatch(c, size)) = <<>>
                                   THEN "delivered" ELSE "resolve"]
        /\ r.by = [c \in codes |-> None] /\ r.store = [c \in codes |-> None]
    BY DEF NoPost
  <2> HIDE DEF r
  <2>4. DOMAIN r.at = codes /\ \A f \in {"upTo", "records", "raws", "store", "by"} : DOMAIN r[f] = codes
    BY <2>3
  <2>5. \A c \in codes :
          /\ r.upTo[c] = sent[c] + Len(batch(c))
          /\ r.records[c] = Deliverable(batch(c)) /\ r.raws[c] = Violations(batch(c))
          /\ r.at[c] \in {"delivered", "resolve"}
          /\ r.at[c] = "delivered" => Deliverable(batch(c)) = <<>>
    BY <2>3
  <2> HIDE DEF batch
  <2> QED
    BY <2>1, <2>2, <2>4, <2>5, Zenon
<1>4. posts'[w] = r /\ DOMAIN posts' = Workers /\ \A v \in Workers : v # w => posts'[v] = posts[v]
  BY <1>2, <1>3
<1>5. ASSUME NEW c \in codes
      PROVE  /\ IsList(r.records[c]) /\ IsList(r.raws[c])
             /\ r.upTo[c] \in sent[c]..MaxRecords /\ sent[c] \in 0..MaxRecords
             /\ \A x \in Range(r.records[c]) :
                  /\ x.seq \in sent[c] + 1..r.upTo[c]
                  /\ x.arrival = Arrival[x.seq] /\ x.arrival <= now /\ ~Expired(x.seq)
             /\ \A n \in sent[c] + 1..r.upTo[c] :
                  \/ n \in SeqsOf(r.records[c])
                  \/ n \in SeqsOf(r.raws[c]) /\ (Arrival[n] <= now => Expired(n))
  <2>1. PICK b : b = batch(c)
    OBVIOUS
  <2>2. /\ IsList(Deliverable(b)) /\ IsList(Violations(b)) /\ Len(b) \in 1..(MaxRecords - sent[c])
        /\ \A x \in Range(Deliverable(b)) :
              /\ x.seq \in sent[c] + 1..sent[c] + Len(b)
              /\ x.arrival = Arrival[x.seq] /\ x.arrival <= now /\ ~Expired(x.seq)
        /\ \A n \in sent[c] + 1..sent[c] + Len(b) :
              \/ n \in SeqsOf(Deliverable(b))
              \/ n \in SeqsOf(Violations(b)) /\ (Arrival[n] <= now => Expired(n))
    BY <1>2, <2>1, BatchHas DEF IngressInv
  <2>3. /\ r.upTo[c] = sent[c] + Len(b) /\ r.records[c] = Deliverable(b) /\ r.raws[c] = Violations(b)
    BY <1>3, <2>1
  <2>4. sent[c] \in 0..MaxRecords /\ MaxRecords \in Nat
    BY <1>2, PosIngressAssumption DEF IngressInv, SentOK
  <2>5. sent[c] + Len(b) \in sent[c]..MaxRecords
    BY <2>2, <2>4
  <2> QED
    BY <2>2, <2>3, <2>4, <2>5
<1> HIDE DEF batch
<1>6. ShapesOK'
  <2>1. IsPost(r)
    BY <1>2, <1>3, <1>5 DEF IsPost
  <2> QED
    BY <1>1, <1>4, <2>1 DEF IngressInv, ShapesOK, ledgerVars
<1>7. ASSUME NEW c \in codes, NEW n \in SeqsOf(r.records[c])
      PROVE  n \in sent[c] + 1..r.upTo[c] /\ ~Expired(n)
  <2>1. PICK x \in Range(r.records[c]) : n = x.seq
    BY SeqsOfRange
  <2> QED
    BY <1>5, <2>1
<1>8. \A v \in Workers : OnlyOld(v)
  <2>1. OnlyOld(w)
    BY <1>3, <1>4, <1>7, Zenon DEF OnlyOld
  <2>2. ASSUME NEW v \in Workers, v # w
        PROVE  OnlyOld(v)
    BY <1>4, <2>2, Zenon DEF OnlyOld
  <2> QED
    BY <2>1, <2>2
<1>9. StoresKnown' /\ Grows /\ CountedOK' /\ HeldOK' /\ ReplaysOK'
  BY <1>1, <1>6, <1>8, StandingStill
<1>10. SentOK' /\ AcknowledgedIsKept'
  BY <1>1, <1>9, SentStays DEF IngressInv
<1>11. ASSUME NEW c \in codes, NEW m \in 1..MaxRecords, Expired(m), m \notin SeqsOf(r.records[c])
       PROVE  Past(c, m)'
  <2>1. Expired(m)'
    BY <1>1, <1>11 DEF Expired, ledgerVars
  <2>2. ASSUME NEW v \in Workers, posts'[v].waiting, c \in DOMAIN posts'[v].at
        PROVE  m \notin SeqsOf(posts'[v].records[c])
    <3>1. CASE v = w
      BY <1>4, <1>11, <3>1
    <3>2. CASE v # w
      BY <1>2, <1>4, <2>2, <3>2
    <3> QED
      BY <3>1, <3>2
  <2> QED
    BY <2>1, <2>2 DEF Past
<1>12. ASSUME NEW c \in codes
       PROVE  PostOK(posts[w], c)'
  <2>1. RecordsOK(posts[w], c)'
    <3> SUFFICES ASSUME NEW x \in Range(r.records[c])
                 PROVE  /\ x.seq \in 1..MaxRecords /\ x.arrival = Arrival[x.seq] /\ x.arrival <= now
                        /\ \A m \in 1..x.seq : m \in SeqsOf(r.records[c]) \/ m <= sent[c] \/ Past(c, m)'
      BY <1>1, <1>4 DEF RecordsOK, ledgerVars
    <3>1. /\ x.seq \in sent[c] + 1..r.upTo[c] /\ x.arrival = Arrival[x.seq] /\ x.arrival <= now
          /\ r.upTo[c] \in sent[c]..MaxRecords /\ sent[c] \in 0..MaxRecords /\ MaxRecords \in Nat
      BY <1>5, PosIngressAssumption
    <3>2. ASSUME NEW m \in 1..x.seq, m \notin SeqsOf(r.records[c]), ~(m <= sent[c])
          PROVE  Past(c, m)'
      <4>1. m \in sent[c] + 1..r.upTo[c] /\ m \in 1..MaxRecords /\ x.seq \in 1..MaxRecords /\ m <= x.seq
        BY <3>1, <3>2
      <4>2. Arrival[m] <= now
        BY <3>1, <4>1, PosIngressAssumption DEF IngressInv, ShapesOK
      <4> QED
        BY <1>5, <1>11, <3>2, <4>1, <4>2
    <3>3. x.seq \in 1..MaxRecords
      BY <3>1
    <3> QED
      BY <3>1, <3>2, <3>3
  <2>2. OwedOK(posts[w], c)'
    <3>1. /\ r.upTo[c] \in sent[c]..MaxRecords
          /\ \A n \in 1..r.upTo[c] :
               n <= sent[c] \/ n \in SeqsOf(r.records[c]) \cup SeqsOf(r.raws[c])
      <4>1. /\ r.upTo[c] \in sent[c]..MaxRecords /\ sent[c] \in 0..MaxRecords /\ MaxRecords \in Nat
        BY <1>5, PosIngressAssumption
      <4>2. \A n \in 1..r.upTo[c] : n <= sent[c] \/ n \in sent[c] + 1..r.upTo[c]
        BY <4>1
      <4> QED
        BY <1>5, <4>1, <4>2
    <3>2. r.at[c] = "delivered" => SeqsOf(r.records[c]) = {}
      BY <1>3 DEF SeqsOf
    <3> QED
      BY <1>1, <1>4, <3>1, <3>2 DEF OwedOK
  <2>3. r.at[c] # "holding"
    BY <1>3
  <2>4. HoldingOK(posts[w], c)'
    BY <1>4, <2>3 DEF HoldingOK
  <2> QED
    BY <2>1, <2>2, <2>4 DEF PostOK
<1>13. PostsOK'
  <2>1. ASSUME NEW v \in Workers, v # w, NEW c \in DOMAIN posts[v].at
        PROVE  PostOK(posts[v], c)'
    <3>1. c \in Codes
      BY DEF IngressInv, ShapesOK, IsPost
    <3>2. sent[c] <= sent'[c] /\ sent'[c] = sent[c]
      BY <1>1, <3>1, PosIngressAssumption DEF IngressInv, SentOK
    <3>3. \A p \in Requests : procs[p].kind = "hold" =>
            procs'[p].kind = "hold" /\ procs'[p].answer \in {procs[p].answer, "replay-deferred"}
      BY <1>1 DEF ledgerVars
    <3> QED
      BY <1>4, <1>6, <1>9, <1>10, <2>1, <3>2, <3>3, OtherPost
  <2>2. ASSUME NEW v \in Workers, NEW c \in DOMAIN posts'[v].at
        PROVE  PostOK(posts[v], c)'
    <3>1. CASE v # w
      BY <1>4, <2>1, <2>2, <3>1
    <3>2. CASE v = w
      BY <1>3, <1>4, <1>12, <2>2, <3>2
    <3> QED
      BY <3>1, <3>2
  <2> QED
    BY <2>2 DEF PostsOK
<1>14. WaitingOK'
  <2>1. \A v \in Workers : DOMAIN posts'[v].at # {} /\ ~posts'[v].thrown => posts'[v].waiting
    <3> TAKE v \in Workers
    <3>1. CASE v = w
      BY <1>3, <1>4, <3>1
    <3>2. CASE v # w
      <4>1. posts'[v] = posts[v]
        BY <1>4, <3>2
      <4> QED
        BY <4>1, Zenon DEF IngressInv, WaitingOK
    <3> QED
      BY <3>1, <3>2
  <2>2. ASSUME NEW u \in Workers, u # w, posts'[u].waiting
        PROVE  DOMAIN posts'[u].at \cap DOMAIN posts'[w].at = {}
    BY <1>2, <1>3, <1>4, <2>2
  <2>3. ASSUME NEW u \in Workers, NEW v \in Workers, posts'[u].waiting, posts'[v].waiting, u # v
        PROVE  DOMAIN posts'[u].at \cap DOMAIN posts'[v].at = {}
    <3>1. CASE u # w /\ v # w
      <4>1. posts'[u] = posts[u] /\ posts'[v] = posts[v]
        BY <1>4, <3>1
      <4> QED
        BY <2>3, <4>1, Zenon DEF IngressInv, WaitingOK
    <3>2. CASE u = w
      BY <2>2, <2>3, <3>2
    <3>3. CASE v = w
      BY <2>2, <2>3, <3>3
    <3> QED
      BY <3>1, <3>2, <3>3
  <2> QED
    BY <2>1, <2>3, Zenon DEF WaitingOK
<1>15. DirectOK'
  <2>1. ASSUME NEW c \in Codes, ~Unresolved(c)
        PROVE  ~Unresolved(c)'
    <3> SUFFICES ASSUME NEW v \in Workers, posts'[v].waiting, c \in DOMAIN posts'[v].at,
                        posts'[v].at[c] = "unresolved"
                 PROVE  FALSE
      BY Zenon DEF Unresolved
    <3>1. v # w
      BY <1>3, <1>4
    <3>2. posts'[v] = posts[v]
      BY <1>4, <3>1
    <3> QED
      BY <2>1, <3>2, Zenon DEF Unresolved
  <2>2. ASSUME NEW v \in Workers, NEW c \in DOMAIN posts'[v].at
        PROVE  c \in Codes /\ (posts'[v].at[c] = "deliver" =>
                                 \E s : s = posts'[v].store[c] /\ Direct(c, s))
    <3>1. CASE v = w
      BY <1>2, <1>3, <1>4, <2>2, <3>1
    <3>2. CASE v # w
      <4>1. c \in Codes
        BY <1>4, <2>2, <3>2 DEF IngressInv, ShapesOK, IsPost
      <4> QED
        BY <1>4, <2>2, <3>2, <4>1 DEF IngressInv, DirectOK
    <3> QED
      BY <3>1, <3>2
  <2>3. \A v \in Workers : \A c \in DOMAIN resolvedStoreIds'[v] :
          c \in Codes /\ \E s : s = resolvedStoreIds'[v][c] /\ Direct(c, s)
    BY <1>1 DEF IngressInv, DirectOK
  <2>4. UNCHANGED held
    BY <1>1 DEF ledgerVars
  <2> QED
    BY <1>9, <2>1, <2>2, <2>3, <2>4, DirectsStay DEF Grows
<1> QED
  BY <1>6, <1>9, <1>10, <1>13, <1>14, <1>15 DEF IngressInv

\* A request is over, and has nothing left to do.
LEMMA OverKeepsIngress ==
  ASSUME IngressInv, UNCHANGED ledgerVars, NEW w \in Workers,
         posts' = [posts EXCEPT ![w] = NoPost], DOMAIN resolvedStoreIds' = Workers,
         \A v \in Workers : \A c \in DOMAIN resolvedStoreIds'[v] :
           c \in DOMAIN resolvedStoreIds[v] /\ resolvedStoreIds'[v][c] = resolvedStoreIds[v][c],
         DOMAIN sent' = Codes,
         \A c \in Codes : \/ sent'[c] = sent[c]
                          \/ /\ posts[w].waiting /\ c \in DOMAIN posts[w].at
                             /\ sent'[c] \in sent[c]..MaxRecords
                             /\ \A n \in 1..sent'[c] : n \in Kept(c)
  PROVE  IngressInv'
<1>1. /\ posts'[w] = NoPost /\ DOMAIN posts' = Workers /\ DOMAIN posts = Workers
      /\ \A v \in Workers : v # w => posts'[v] = posts[v]
      /\ ~NoPost.waiting /\ DOMAIN NoPost.at = {}
  BY DEF IngressInv, ShapesOK, NoPost
<1>2. ShapesOK'
  <2>1. IsPost(NoPost)
    BY DEF IsPost, NoPost
  <2> QED
    BY <1>1, <2>1 DEF IngressInv, ShapesOK, ledgerVars, HandlersOK
<1>3. \A v \in Workers : OnlyOld(v)
  <2> SUFFICES ASSUME NEW v \in Workers, v # w PROVE OnlyOld(v)
    BY <1>1, Zenon DEF OnlyOld
  <2> QED
    BY <1>1, Zenon DEF OnlyOld
<1>4. StoresKnown' /\ Grows /\ CountedOK' /\ HeldOK' /\ ReplaysOK'
  BY <1>2, <1>3, StandingStill
<1>5. /\ \A c \in Codes : sent[c] <= sent'[c] /\ sent'[c] \in 0..MaxRecords
      /\ \A c \in Codes : \A n \in 1..sent'[c] : n \in Kept(c)
  <2> SUFFICES ASSUME NEW c \in Codes
               PROVE  /\ sent[c] <= sent'[c] /\ sent'[c] \in 0..MaxRecords
                      /\ \A n \in 1..sent'[c] : n \in Kept(c)
    OBVIOUS
  <2>1. /\ sent[c] \in 0..MaxRecords /\ MaxRecords \in Nat
        /\ \A n \in 1..sent[c] : n \in Kept(c)
    BY PosIngressAssumption DEF IngressInv, SentOK, AcknowledgedIsKept, Kept
  <2>2. CASE sent'[c] = sent[c]
    BY <2>1, <2>2
  <2>3. CASE sent'[c] \in sent[c]..MaxRecords /\ \A n \in 1..sent'[c] : n \in Kept(c)
    BY <2>1, <2>3
  <2> QED
    BY <2>2, <2>3
<1>6. SentOK' /\ AcknowledgedIsKept'
  <2>1. \A c \in Codes : Kept(c) \subseteq Kept(c)'
    BY <1>4 DEF Grows
  <2>2. \A c \in Codes : \A n \in 1..sent'[c] : n \in Kept(c)'
    BY <1>5, <2>1
  <2> QED
    BY <1>5, <2>2 DEF SentOK, AcknowledgedIsKept, Kept
<1>7. PostsOK'
  <2> SUFFICES ASSUME NEW v \in Workers, NEW c \in DOMAIN posts'[v].at
               PROVE  PostOK(posts[v], c)'
    BY DEF PostsOK
  <2>1. v # w /\ posts'[v] = posts[v] /\ c \in DOMAIN posts[v].at
    BY <1>1
  <2>2. c \in Codes
    BY <2>1 DEF IngressInv, ShapesOK, IsPost
  <2>3. posts[v].waiting => sent'[c] = sent[c]
    <3>1. posts[v].waiting /\ posts[w].waiting => c \notin DOMAIN posts[w].at
      <4>1. posts[v].waiting /\ posts[w].waiting => DOMAIN posts[v].at \cap DOMAIN posts[w].at = {}
        BY <2>1, Zenon DEF IngressInv, WaitingOK
      <4> QED
        BY <2>1, <4>1
    <3> QED
      BY <2>2, <3>1
  <2>4. \A p \in Requests : procs[p].kind = "hold" =>
          procs'[p].kind = "hold" /\ procs'[p].answer \in {procs[p].answer, "replay-deferred"}
    BY DEF ledgerVars
  <2> QED
    BY <1>2, <1>4, <1>5, <1>6, <2>1, <2>2, <2>3, <2>4, OtherPost
<1>8. WaitingOK'
  <2> SUFFICES ASSUME NEW v \in Workers
               PROVE  /\ DOMAIN posts'[v].at \subseteq DOMAIN posts[v].at
                      /\ posts'[v].waiting => posts[v].waiting
                      /\ DOMAIN posts'[v].at # {} /\ ~posts'[v].thrown => posts'[v].waiting
    BY WaitingStays
  <2>1. CASE v = w
    BY <1>1, <2>1
  <2>2. CASE v # w
    <3>1. posts'[v] = posts[v]
      BY <1>1, <2>2
    <3> QED
      BY <3>1, Zenon DEF IngressInv, WaitingOK
  <2> QED
    BY <2>1, <2>2
<1>9. DirectOK'
  <2>1. ASSUME NEW c \in Codes, ~Unresolved(c)
        PROVE  ~Unresolved(c)'
    <3> SUFFICES ASSUME NEW v \in Workers, posts'[v].waiting, c \in DOMAIN posts'[v].at,
                        posts'[v].at[c] = "unresolved"
                 PROVE  FALSE
      BY Zenon DEF Unresolved
    <3>1. posts'[v] = posts[v]
      BY <1>1
    <3> QED
      BY <2>1, <3>1, Zenon DEF Unresolved
  <2>2. ASSUME NEW v \in Workers, NEW c \in DOMAIN posts'[v].at
        PROVE  c \in Codes /\ (posts'[v].at[c] = "deliver" =>
                                 \E s : s = posts'[v].store[c] /\ Direct(c, s))
    <3>1. posts'[v] = posts[v]
      BY <1>1, <2>2
    <3>2. c \in Codes
      BY <2>2, <3>1 DEF IngressInv, ShapesOK, IsPost
    <3> QED
      BY <2>2, <3>1, <3>2 DEF IngressInv, DirectOK
  <2>3. \A v \in Workers : \A c \in DOMAIN resolvedStoreIds'[v] :
          c \in Codes /\ \E s : s = resolvedStoreIds'[v][c] /\ Direct(c, s)
    BY DEF IngressInv, DirectOK
  <2>4. UNCHANGED held
    BY DEF ledgerVars
  <2> QED
    BY <1>4, <2>1, <2>2, <2>3, <2>4, DirectsStay DEF Grows
<1> QED
  BY <1>2, <1>4, <1>6, <1>7, <1>8, <1>9 DEF IngressInv

\* A request is answered: what the upstream will not send again is safe.
LEMMA RespondKeepsIngress ==
  ASSUME IngressInv, NEW w \in Workers, Respond(w)
  PROVE  IngressInv'
<1>1. UNCHANGED ledgerVars /\ UNCHANGED resolvedStoreIds /\ posts' = [posts EXCEPT ![w] = NoPost]
  BY Zenon DEF Respond, ledgerVars, vars, keeping, stores, world
<1>2. \/ UNCHANGED sent
      \/ /\ posts[w].waiting /\ ~posts[w].transient
         /\ \A c \in DOMAIN posts[w].at : posts[w].at[c] = "delivered" /\ posts[w].raws[c] = <<>>
         /\ sent' = [c \in Codes |-> IF c \in DOMAIN posts[w].at THEN posts[w].upTo[c] ELSE sent[c]]
  BY Zenon DEF Respond, Delivered, CodesOfPost, Phase
<1>3. DOMAIN sent = Codes /\ DOMAIN resolvedStoreIds = Workers
  BY DEF IngressInv, ShapesOK
<1>4. CASE UNCHANGED sent
  BY <1>1, <1>3, <1>4, OverKeepsIngress
<1>5. CASE /\ posts[w].waiting /\ ~posts[w].transient
           /\ \A c \in DOMAIN posts[w].at : posts[w].at[c] = "delivered" /\ posts[w].raws[c] = <<>>
           /\ sent' = [c \in Codes |-> IF c \in DOMAIN posts[w].at THEN posts[w].upTo[c] ELSE sent[c]]
  <2>1. ASSUME NEW c \in Codes, c \in DOMAIN posts[w].at
        PROVE  /\ sent'[c] \in sent[c]..MaxRecords
               /\ \A n \in 1..sent'[c] : n \in Kept(c)
    <3>1. /\ posts[w].upTo[c] \in sent[c]..MaxRecords
          /\ \A n \in 1..posts[w].upTo[c] :
               \/ n <= sent[c]
               \/ n \in SeqsOf(posts[w].records[c]) \cup SeqsOf(posts[w].raws[c]) \cup Kept(c)
          /\ SeqsOf(posts[w].records[c]) \subseteq Kept(c)
      <4>1. PostOK(posts[w], c)
        BY <2>1 DEF IngressInv, PostsOK
      <4>2. posts[w].at[c] = "delivered"
        BY <1>5, <2>1
      <4> QED
        BY <1>5, <4>1, <4>2, Zenon DEF PostOK, OwedOK
    <3>2. SeqsOf(posts[w].raws[c]) = {} /\ sent'[c] = posts[w].upTo[c]
      BY <1>5, <2>1 DEF SeqsOf
    <3>3. \A n \in 1..sent[c] : n \in Kept(c)
      BY DEF IngressInv, AcknowledgedIsKept, Kept
    <3>4. sent[c] \in 0..MaxRecords /\ MaxRecords \in Nat
      BY PosIngressAssumption DEF IngressInv, SentOK
    <3> QED
      BY <3>1, <3>2, <3>3, <3>4
  <2>2. \A c \in Codes : c \notin DOMAIN posts[w].at => sent'[c] = sent[c]
    BY <1>5
  <2>3. DOMAIN sent' = Codes
    BY <1>5
  <2> QED
    BY <1>1, <1>3, <1>5, <2>1, <2>2, <2>3, OverKeepsIngress
<1> QED
  BY <1>2, <1>4, <1>5

\* A worker dies.
LEMMA EvictKeepsIngress ==
  ASSUME IngressInv, NEW w \in Workers, Evict(w)
  PROVE  IngressInv'
<1>1. /\ UNCHANGED ledgerVars /\ UNCHANGED sent /\ posts' = [posts EXCEPT ![w] = NoPost]
      /\ resolvedStoreIds' = [resolvedStoreIds EXCEPT ![w] = <<>>]
  BY Zenon DEF Evict, ledgerVars, keeping, stores, world
<1>2. DOMAIN sent = Codes /\ DOMAIN resolvedStoreIds = Workers
  BY DEF IngressInv, ShapesOK
<1>3. /\ DOMAIN resolvedStoreIds' = Workers
      /\ \A v \in Workers : \A c \in DOMAIN resolvedStoreIds'[v] :
           c \in DOMAIN resolvedStoreIds[v] /\ resolvedStoreIds'[v][c] = resolvedStoreIds[v][c]
  BY <1>1, <1>2
<1> QED
  BY <1>1, <1>2, <1>3, OverKeepsIngress

\* The object dies: the requests that it held records for are over, without an answer.
LEMMA CrashKeepsIngress ==
  ASSUME IngressInv, HandlersOK', CrashUnderCalls
  PROVE  IngressInv'
<1>1. /\ UNCHANGED <<truth, held, dropped, counted, taken, now, quarantine, sent, resolvedStoreIds>>
      /\ procs' = [p \in Procs |-> Idle]
  BY Zenon DEF CrashUnderCalls, Crash, keeping, stores
<1>2. /\ DOMAIN posts' = Workers
      /\ \A w \in Workers :
           \/ posts'[w] = [posts[w] EXCEPT !.thrown = TRUE, !.waiting = FALSE]
           \/ posts'[w] = posts[w] /\ \A c \in DOMAIN posts[w].at : posts[w].at[c] # "holding"
  BY DEF CrashUnderCalls, CodesOfPost, Phase
<1>3. ASSUME NEW w \in Workers
      PROVE  /\ IsPost(posts[w]) /\ IsPost(posts'[w])
             /\ \A f \in {"at", "upTo", "records", "raws", "store", "by"} : posts'[w][f] = posts[w][f]
             /\ \/ ~posts'[w].waiting /\ posts'[w].thrown
                \/ posts'[w] = posts[w] /\ \A c \in DOMAIN posts[w].at : posts[w].at[c] # "holding"
  <2>1. IsPost(posts[w]) /\ DOMAIN posts[w] = DOMAIN NoPost
    BY DEF IngressInv, ShapesOK, IsPost
  <2>2. CASE posts'[w] = posts[w] /\ \A c \in DOMAIN posts[w].at : posts[w].at[c] # "holding"
    BY <2>1, <2>2
  <2>3. CASE posts'[w] = [posts[w] EXCEPT !.thrown = TRUE, !.waiting = FALSE]
    <3>1. /\ DOMAIN posts'[w] = DOMAIN NoPost /\ ~posts'[w].waiting /\ posts'[w].thrown
          /\ \A f \in {"at", "upTo", "records", "raws", "store", "by"} : posts'[w][f] = posts[w][f]
      BY <2>1, <2>3 DEF NoPost
    <3>2. IsPost(posts'[w])
      BY <2>1, <3>1 DEF IsPost
    <3> QED
      BY <2>1, <3>1, <3>2
  <2> QED
    BY <1>2, <2>2, <2>3
<1>4. ShapesOK' /\ StoresKnown' /\ CodesStay
  <2>1. StoresKnown' /\ CodesStay
    BY <1>1, ElsewhereKeepsCodes DEF IngressInv, StoresKnown, truth
  <2> QED
    BY <1>1, <1>2, <1>3, <2>1 DEF IngressInv, ShapesOK
<1>5. Grows
  <2>1. \A w \in Workers : OnlyOld(w)
    BY <1>3, Zenon DEF OnlyOld
  <2>2. \A c \in Codes : StoreOf(c) # None => counted[StoreOf(c)] <= counted'[StoreOf(c)]
    BY <1>1, PosIngressAssumption DEF IngressInv, CountedOK
  <2>3. UNCHANGED codeIndex
    BY <1>1 DEF truth
  <2> QED
    BY <1>1, <1>4, <2>1, <2>2, <2>3, TakeGrows
<1>6. CountedOK' /\ HeldOK' /\ SentOK' /\ AcknowledgedIsKept'
  BY <1>1, <1>4, <1>5, CountedStays, HeldStays, SentStays DEF IngressInv
<1>7. ReplaysOK'
  <2>1. \A p \in Procs : procs'[p].step = "idle"
    BY <1>1 DEF Idle
  <2> QED
    BY <2>1 DEF ReplaysOK, ReplayOK
<1>8. PostsOK'
  <2> SUFFICES ASSUME NEW w \in Workers, NEW c \in DOMAIN posts'[w].at
               PROVE  PostOK(posts[w], c)'
    BY DEF PostsOK
  <2>1. /\ c \in DOMAIN posts[w].at /\ c \in Codes
        /\ posts'[w].records = posts[w].records /\ posts'[w].upTo = posts[w].upTo
    BY <1>3 DEF IsPost
  <2>2. sent'[c] = sent[c] /\ sent[c] <= sent'[c] /\ Kept(c) \subseteq Kept(c)'
    BY <1>1, <1>5, <2>1, PosIngressAssumption DEF IngressInv, SentOK, Grows
  <2>3. posts'[w].waiting =>
          posts'[w] = posts[w] /\ \A d \in DOMAIN posts[w].at : posts[w].at[d] # "holding"
    BY <1>3, Zenon
  <2>4. Continues(w, c)
    BY <2>1, <2>2, <2>3, Zenon DEF Continues
  <2> QED
    BY <1>4, <1>5, <1>6, <2>1, <2>4, PostStays
<1>9. WaitingOK'
  <2> SUFFICES ASSUME NEW w \in Workers
               PROVE  /\ DOMAIN posts'[w].at \subseteq DOMAIN posts[w].at
                      /\ posts'[w].waiting => posts[w].waiting
                      /\ DOMAIN posts'[w].at # {} /\ ~posts'[w].thrown => posts'[w].waiting
    BY WaitingStays
  <2>1. DOMAIN posts'[w].at = DOMAIN posts[w].at
    BY <1>3
  <2> QED
    BY <1>3, <2>1, Zenon DEF IngressInv, WaitingOK
<1>10. DirectOK'
  <2>1. ASSUME NEW c \in Codes, ~Unresolved(c)
        PROVE  ~Unresolved(c)'
    <3> SUFFICES ASSUME NEW v \in Workers, posts'[v].waiting, c \in DOMAIN posts'[v].at,
                        posts'[v].at[c] = "unresolved"
                 PROVE  FALSE
      BY Zenon DEF Unresolved
    <3>1. posts'[v] = posts[v]
      BY <1>3, Zenon
    <3> QED
      BY <2>1, <3>1, Zenon DEF Unresolved
  <2>2. ASSUME NEW v \in Workers, NEW c \in DOMAIN posts'[v].at
        PROVE  c \in Codes /\ (posts'[v].at[c] = "deliver" =>
                                 \E s : s = posts'[v].store[c] /\ Direct(c, s))
    <3>1. posts'[v].at = posts[v].at /\ posts'[v].store = posts[v].store
      BY <1>3
    <3>2. c \in Codes
      BY <1>3, <2>2, <3>1 DEF IsPost
    <3> QED
      BY <2>2, <3>1, <3>2 DEF IngressInv, DirectOK
  <2>3. \A v \in Workers : \A c \in DOMAIN resolvedStoreIds'[v] :
          c \in Codes /\ \E s : s = resolvedStoreIds'[v][c] /\ Direct(c, s)
    BY <1>1 DEF IngressInv, DirectOK
  <2> QED
    BY <1>1, <1>4, <2>1, <2>2, <2>3, DirectsStay
<1> QED
  BY <1>4, <1>6, <1>7, <1>8, <1>9, <1>10 DEF IngressInv

-----------------------------------------------------------------------------
(* The way in as a whole.                                                  *)

\* With records that are held, workers that call and an object that dies, convergence goes on
\* as it did without.
LEMMA IngressKeepsConvergence == ConvergenceInv /\ [NextIngress]_allVars => ConvergenceInv'
<1> SUFFICES ASSUME ConvergenceInv, [NextIngress]_allVars
             PROVE  ConvergenceInv'
  OBVIOUS
<1>0. \A p \in Requests : p \in Procs
  BY DEF Procs
<1>1. CASE UNCHANGED <<convergenceVars, procs>>
  BY <1>1, ElsewhereKeepsConvergence DEF ConvergenceInv, HandlersOK
<1>2. CASE Registry
  <2>1. CASE AlarmFires \/ FinishAlarm
    BY <2>1, AlarmKeepsConvergence
  <2>2. CASE Tick
    BY <1>1, <2>2, Zenon DEF Tick, convergenceVars, truth, convergence, stores
  <2>3. ASSUME NEW p \in Procs, Converges(p) \/ ApplyProjection(p) \/ PushFails(p) \/ Replays(p)
        PROVE  ConvergenceInv'
    BY <2>3, RunKeepsConvergence, PushKeepsConvergence, PushedKeepsConvergence,
       ApplyKeepsConvergence, ReplayKeepsConvergence DEF Converges
  <2>4. ASSUME NEW p \in Requests, Provision(p)
        PROVE  ConvergenceInv'
    BY <1>0, <2>4, ProvisionCommits, CommitKeepsConvergence
  <2> QED
    BY <1>2, <2>1, <2>2, <2>3, <2>4, Zenon DEF Registry
<1>3. CASE CrashUnderCalls
  <2>1. UNCHANGED convergenceVars /\ procs' = [p \in Procs |-> Idle]
    BY <1>3, Zenon DEF CrashUnderCalls, Crash, convergenceVars, truth, convergence, stores
  <2>2. DOMAIN procs' = Procs /\ \A p \in Procs : IsHandler(procs'[p]) /\ ~Pushing(procs'[p])
    BY <2>1 DEF IsHandler, Pushing, Idle
  <2> QED
    BY <2>1, <2>2, ElsewhereKeepsConvergence
<1>4. ASSUME NEW p \in Requests, HoldAnswered(p)
      PROVE  ConvergenceInv'
  BY <1>0, <1>4, ReplayKeepsConvergence DEF HoldAnswered
<1>5. CASE PostSomething
  BY <1>1, <1>5, Zenon DEF PostSomething, Post, vars, convergenceVars, truth, convergence, stores
<1>6. ASSUME NEW w \in Workers, Work(w) \/ Evict(w)
      PROVE  ConvergenceInv'
  <2>1. ASSUME NEW c, Resolve(w, c) \/ Deliver(w, c) \/ QuarantineContractViolations(w, c)
        PROVE  UNCHANGED <<convergenceVars, procs>>
    BY <2>1, Zenon DEF Resolve, Deliver, QuarantineContractViolations, vars, convergenceVars,
                       truth, convergence, stores
  <2>2. CASE Respond(w) \/ Evict(w)
    BY <1>1, <2>2, Zenon DEF Respond, Evict, vars, convergenceVars, truth, convergence, stores
  <2>3. ASSUME NEW c, NEW p \in Requests, HoldUnresolved(w, c, p)
        PROVE  ConvergenceInv'
    BY <1>0, <2>3, ReplayKeepsConvergence DEF HoldUnresolved
  <2> QED
    BY <1>1, <1>6, <2>1, <2>2, <2>3, Zenon DEF Work
<1>7. CASE UNCHANGED allVars
  BY <1>1, <1>7, Zenon DEF allVars, vars, convergenceVars, truth, convergence, stores
<1> QED
  BY <1>2, <1>3, <1>4, <1>5, <1>6, <1>7, Zenon DEF NextIngress

LEMMA InitIngressInv == InitIngress => IngressInv
<1> SUFFICES ASSUME InitIngress PROVE IngressInv
  OBVIOUS
<1>1. /\ codeIndex = <<>> /\ held = [c \in Codes |-> <<>>] /\ quarantine = [c \in Codes |-> <<>>]
      /\ procs = [p \in Procs |-> Idle] /\ counted = [s \in Stores |-> 0]
      /\ taken = [s \in Stores |-> {}] /\ now = 0 /\ ideal = EmptyIdeal
      /\ sent = [c \in Codes |-> 0] /\ posts = [w \in Workers |-> NoPost]
      /\ resolvedStoreIds = [w \in Workers |-> <<>>]
  BY Zenon DEF InitIngress, Init
<1>2. IsList(<<>>) /\ Range(<<>>) = {}
  BY DEF IsList, Range
<1>3. DOMAIN NoPost.at = {} /\ ~NoPost.waiting
  BY DEF NoPost
<1>4. ShapesOK
  <2>1. IsPost(NoPost)
    BY DEF IsPost, NoPost
  <2>2. HandlersOK
    BY <1>1 DEF HandlersOK, IsHandler
  <2> QED
    BY <1>1, <1>2, <2>1, <2>2 DEF ShapesOK
<1>5. StoresKnown
  <2>1. DOMAIN ideal.stores = {}
    BY <1>1 DEF EmptyIdeal
  <2> QED
    BY <2>1, InitCodesInv DEF InitIngress, StoresKnown
<1>6. \A c : StoreOf(c) = None
  BY <1>1 DEF StoreOf, StoreForCode
<1>7. SentOK /\ AcknowledgedIsKept
  BY <1>1, PosIngressAssumption DEF SentOK, AcknowledgedIsKept
<1>8. HeldOK /\ CountedOK
  BY <1>1, <1>2, <1>6 DEF HeldOK, CountedOK
<1>9. ReplaysOK
  BY <1>1 DEF ReplaysOK, ReplayOK, Idle
<1>10. PostsOK /\ WaitingOK /\ DirectOK
  <2>1. \A w \in Workers : DOMAIN posts[w].at = {} /\ DOMAIN resolvedStoreIds[w] = {}
    BY <1>1, <1>3
  <2> QED
    BY <2>1 DEF PostsOK, WaitingOK, DirectOK
<1> QED
  BY <1>4, <1>5, <1>7, <1>8, <1>9, <1>10 DEF IngressInv

LEMMA NextKeepsIngress == IngressInv /\ HandlersOK' /\ [NextIngress]_allVars => IngressInv'
<1> SUFFICES ASSUME IngressInv, HandlersOK', [NextIngress]_allVars
             PROVE  IngressInv'
  OBVIOUS
<1>1. CASE Registry /\ UNCHANGED ingress
  BY <1>1, StepKeepsIngress
<1>2. CASE CrashUnderCalls
  BY <1>2, CrashKeepsIngress
<1>3. ASSUME NEW p \in Requests, HoldAnswered(p)
      PROVE  IngressInv'
  BY <1>3, HoldAnsweredKeepsIngress
<1>4. CASE PostSomething
  BY <1>4, PostKeepsIngress DEF PostSomething
<1>5. ASSUME NEW w \in Workers, Work(w) \/ Evict(w)
      PROVE  IngressInv'
  BY <1>5, ResolveKeepsIngress, DeliverKeepsIngress, QuarantineKeepsIngress, HoldKeepsIngress,
     RespondKeepsIngress, EvictKeepsIngress DEF Work, CodesOfPost
<1>6. CASE UNCHANGED allVars
  <2>1. /\ UNCHANGED <<truth, held, dropped, counted, taken, now, procs, ingress>>
    BY <1>6, Zenon DEF allVars, vars, keeping, stores, world
  <2>2. StoresKnown' /\ CodesStay
    BY <2>1, ElsewhereKeepsCodes DEF IngressInv, StoresKnown, truth
  <2>3. now <= now' /\ now' \in Nat
    BY <2>1 DEF IngressInv, ShapesOK
  <2> QED
    BY <2>1, <2>2, <2>3, QuietKeepsIngress
<1> QED
  BY <1>1, <1>2, <1>3, <1>4, <1>5, <1>6, Zenon DEF NextIngress

LEMMA IngressInvariant == SpecIngress => [](IngressInv /\ ConvergenceInv)
<1>1. InitIngress => IngressInv /\ ConvergenceInv
  BY InitIngressInv, InitConvergenceInv DEF InitIngress
<1>2. ConvergenceInv => HandlersOK
  BY DEF ConvergenceInv
<1> QED
  BY <1>1, <1>2, NextKeepsIngress, IngressKeepsConvergence, PTL DEF SpecIngress

\* worker.ts, holdUnrouted, drainUnrouted: whatever calls fail or lose their answers, whatever
\* dies, a record that the upstream will not send again is not lost unawares.
THEOREM AcknowledgedIsKeptHolds == SpecIngress => []AcknowledgedIsKept
<1>1. IngressInv => AcknowledgedIsKept
  BY DEF IngressInv
<1> QED
  BY <1>1, IngressInvariant, PTL

\* resolveStoreCode and the workers' memory: no record overtakes one that is held and that its
\* store can still take.
THEOREM NothingOvertakesHeldHolds == SpecIngress => []NothingOvertakesHeld
<1>1. ASSUME IngressInv, NEW c \in Codes, NEW h \in Range(held[c]), IsHeldReplayable(h, now),
             StoreOf(c) # None
      PROVE  h.seq \in Gone(c) \/ h.seq > counted[StoreOf(c)]
  <2>1. h.seq \in 1..MaxRecords /\ h.arrival = Arrival[h.seq]
    BY <1>1 DEF IngressInv, HeldOK
  <2>2. /\ counted[StoreOf(c)] \in 0..MaxRecords
        /\ \A m \in 1..counted[StoreOf(c)] : m \in Gone(c) \/ Past(c, m)
    BY <1>1 DEF IngressInv, CountedOK
  <2>3. ~Expired(h.seq)
    <3>1. Arrival[h.seq] \in Nat /\ now \in Nat /\ ArrivalWindow \in Nat
      BY <1>1, <2>1, PosIngressAssumption, RegistryCoreAssumption DEF IngressInv, ShapesOK
    <3> QED
      BY <1>1, <2>1, <3>1 DEF IsHeldReplayable, IsWithinArrivalWindow, Expired
  <2>4. MaxRecords \in Nat
    BY PosIngressAssumption
  <2> QED
    BY <2>1, <2>2, <2>3, <2>4 DEF Past
<1>2. IngressInv => NothingOvertakesHeld
  BY <1>1 DEF NothingOvertakesHeld, StoreOf
<1> QED
  BY <1>2, IngressInvariant, PTL

\* The projections and the ledger with everything that goes on: a store still never holds a
\* mixture, and the ledger still claims nothing, when calls hold records and the object dies.
THEOREM ConvergenceHoldsUnderCalls ==
  SpecIngress => [](ProjectionsAreRecomposed /\ LedgerIsHonest)
<1>1. ConvergenceInv => ProjectionsAreRecomposed /\ LedgerIsHonest
  BY DEF ConvergenceInv
<1> QED
  BY <1>1, IngressInvariant, PTL

LEMMA IngressKeepsCodes == IngressInv /\ [NextIngress]_allVars => [CodesStay]_vars
<1> SUFFICES ASSUME IngressInv, [NextIngress]_allVars
             PROVE  CodesStay
  OBVIOUS
<1>0. CodesInv
  BY DEF IngressInv, StoresKnown
<1>1. CASE UNCHANGED truth
  BY <1>0, <1>1, ElsewhereKeepsCodes DEF truth
<1>2. CASE Registry
  <2>1. ASSUME NEW p \in Procs, Converges(p) \/ ApplyProjection(p) \/ PushFails(p) \/ Replays(p)
        PROVE  UNCHANGED truth
    BY <2>1, Zenon DEF Converges, Replays, RunConvergence, Push, Pushed, Converged, ReplayUnrouted,
                       DrainUnrouted, FinishRequest, ApplyProjection, PushFails,
                       ReceiveRecords, SendFails, Sent
  <2>2. CASE AlarmFires \/ FinishAlarm \/ Tick
    BY <1>1, <2>2, Zenon DEF AlarmFires, FinishAlarm, Tick
  <2>3. ASSUME NEW p \in Requests, Provision(p)
        PROVE  CodesStay
    BY <1>0, <2>3, ProvisionKeepsCodes
  <2> QED
    BY <1>1, <1>2, <2>1, <2>2, <2>3, Zenon DEF Registry
<1>3. CASE CrashUnderCalls \/ (\E p \in Requests : HoldAnswered(p)) \/ PostSomething
  BY <1>1, <1>3, Zenon DEF CrashUnderCalls, Crash, HoldAnswered, Answered, PostSomething, Post, vars
<1>4. ASSUME NEW w \in Workers, Work(w) \/ Evict(w)
      PROVE  UNCHANGED truth
  BY <1>4, Zenon DEF Work, Evict, Resolve, Deliver, QuarantineContractViolations, HoldUnresolved,
                     HoldUnrouted, Respond, vars
<1>5. CASE UNCHANGED allVars
  BY <1>1, <1>5, Zenon DEF allVars, vars
<1> QED
  BY <1>1, <1>2, <1>3, <1>4, <1>5, Zenon DEF NextIngress

\* The same of the codes: no request moves one, whatever calls and crashes come between.
THEOREM CodesStayPutUnderCalls == SpecIngress => CodesStayPut
<1>1. SpecIngress => [][CodesStay]_vars
  BY IngressKeepsCodes, IngressInvariant, PTL DEF SpecIngress
<1> QED
  BY <1>1 DEF CodesStayPut, CodesStay
=============================================================================
