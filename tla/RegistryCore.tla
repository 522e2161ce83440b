---------------------------- MODULE RegistryCore ----------------------------
(***************************************************************************)
(* The pure part of the registry (src/src/registry): the ideal, the        *)
(* projection of a store recomposed from it, the indexes derived from it,  *)
(* and what is kept of the records that have no store yet.                 *)
(*                                                                         *)
(* An ideal has three tables, partial functions from ids, which are        *)
(* numbers because the code breaks ties by comparing them:                 *)
(*   chains[c]    the roster of chain c                                    *)
(*   policies[p]  [priority, fields], fields a partial function from a     *)
(*                field to [mode, value]                                   *)
(*   stores[s]    [chain, policyIds, override, storeRoster, active,        *)
(*                storeCode, createdAt]                                    *)
(***************************************************************************)
EXTENDS StoreTypes, Integers, FiniteSets, Sequences, SequencesExt

CONSTANTS
  Fields,       \* the fields a policy or an override may assert
  Default,      \* what the decoders give for a field nobody asserts
  ArrivalWindow, HeldLimit

ASSUME RegistryCoreAssumption ==
  /\ DOMAIN Default = Fields
  /\ ArrivalWindow \in Nat /\ HeldLimit \in Nat \ {0}

EmptyIdeal == [chains |-> <<>>, policies |-> <<>>, stores |-> <<>>]

\* The function f with key k set to v.
With(f, k, v) == [x \in DOMAIN f \cup {k} |-> IF x = k THEN v ELSE f[x]]

Ascending(ids) == SetToSortSeq(ids, LAMBDA a, b : a < b)

\* What list has of keep, in the order of list.
Filtered(list, keep) ==
  LET upTo[n \in 0..Len(list)] ==
        IF n = 0 THEN <<>>
        ELSE IF list[n] \in keep THEN Append(upTo[n - 1], list[n]) ELSE upTo[n - 1]
  IN  upTo[Len(list)]

-----------------------------------------------------------------------------
(* Composition of the effective configuration.                             *)

Outranks(policies, a, b) ==
  \/ policies[a].priority < policies[b].priority
  \/ policies[a].priority = policies[b].priority /\ a < b

PolicyOrder(policies, ids) ==
  [k \in 1..Cardinality(ids) |->
     CHOOSE p \in ids : Cardinality({q \in ids : Outranks(policies, q, p)}) = k - 1]

\* Low priority numbers first: an enforced value locks the field for all that follow.
Fold(policies, ids, field) ==
  LET order == PolicyOrder(policies, ids)
      acc[k \in 0..Cardinality(ids)] ==
        IF k = 0 THEN [value |-> None, locked |-> FALSE]
        ELSE LET fields == policies[order[k]].fields
             IN  IF field \notin DOMAIN fields \/ acc[k - 1].locked THEN acc[k - 1]
                 ELSE [value |-> fields[field].value, locked |-> fields[field].mode = "enforced"]
  IN  acc[Cardinality(ids)]

ComposeEffectiveConfig(policies, ids, override) ==
  [field \in Fields |->
     LET folded == Fold(policies, ids, field)
         value == IF ~folded.locked /\ field \in DOMAIN override THEN override[field]
                  ELSE folded.value
     IN  IF value = None THEN Default[field] ELSE value]

\* Mutant: only enforced assertions can conflict.
MutDetectAmbiguousAssignment(policies, ids) ==
  {c \in [priority : {policies[p].priority : p \in ids}, field : Fields] :
     Cardinality({p \in ids : /\ policies[p].priority = c.priority
                              /\ c.field \in DOMAIN policies[p].fields
                              /\ policies[p].fields[c.field].mode = "enforced"}) >= 2}

\* Assertions of one field by two policies of the same priority.
DetectAmbiguousAssignment(policies, ids) ==
  {c \in [priority : {policies[p].priority : p \in ids}, field : Fields] :
     Cardinality({p \in ids : policies[p].priority = c.priority
                              /\ c.field \in DOMAIN policies[p].fields}) >= 2}

-----------------------------------------------------------------------------
(* The projection of a store, and the stores a change of the ideal reaches. *)

EffectiveRoster(chains, store) ==
  (IF store.chain \in DOMAIN chains THEN chains[store.chain] ELSE {}) \cup store.storeRoster

Assigned(ideal, store) == store.policyIds \cap DOMAIN ideal.policies

RecomposeProjection(ideal, s, revision) ==
  LET store == ideal.stores[s]
      ids == Assigned(ideal, store)
  IN  [config  |-> ComposeEffectiveConfig(Restrict(ideal.policies, ids), ids, store.override),
       roster  |-> EffectiveRoster(ideal.chains, store),
       active  |-> store.active,
       version |-> revision]

StoresOfPolicy(stores, p) == {s \in DOMAIN stores : p \in stores[s].policyIds}

StoreIdsInChain(stores, c) == {s \in DOMAIN stores : stores[s].chain = c}

\* Mutant: a store whose push failed is done with.
MutNextResidual(residual, s, pushOk) == residual \ {s}

NextResidual(residual, s, pushOk) == IF pushOk THEN residual \ {s} ELSE residual \cup {s}

-----------------------------------------------------------------------------
(* Indexes.                                                                *)

CreatedBefore(stores, a, b) ==
  \/ stores[a].createdAt < stores[b].createdAt
  \/ stores[a].createdAt = stores[b].createdAt /\ a < b

CreationOrder(stores, ids) == SetToSortSeq(ids, LAMBDA a, b : CreatedBefore(stores, a, b))

CodesOf(stores) == {stores[s].storeCode : s \in DOMAIN stores} \ {None}

HoldersOf(stores, code) == {s \in DOMAIN stores : stores[s].storeCode = code}

\* A code belongs to the store that was created first of those that have it.
BuildCodeIndex(stores) ==
  [code \in CodesOf(stores) |->
     CHOOSE s \in HoldersOf(stores, code) :
       \A t \in HoldersOf(stores, code) \ {s} : CreatedBefore(stores, s, t)]

StoreForCode(index, code) == IF code \in DOMAIN index THEN index[code] ELSE None

DetectDuplicateStoreCodes(stores) ==
  {code \in CodesOf(stores) : Cardinality(HoldersOf(stores, code)) >= 2}

BuildReverseIndex(chains, stores) ==
  LET Reaches(s, identity) == stores[s].active /\ identity \in EffectiveRoster(chains, stores[s])
  IN  [identity \in UNION {EffectiveRoster(chains, stores[s]) :
                             s \in {t \in DOMAIN stores : stores[t].active}} |->
         CreationOrder(stores, {s \in DOMAIN stores : Reaches(s, identity)})]

-----------------------------------------------------------------------------
(* Held records: [heldAt, arrival, seq] of a store code that is not known.  *)

IsHeldExpired(held, now) == held.heldAt < now - ArrivalWindow

IsWithinArrivalWindow(arrival, now) == arrival <= now /\ arrival >= now - ArrivalWindow

IsHeldReplayable(held, now) ==
  ~IsHeldExpired(held, now) /\ IsWithinArrivalWindow(held.arrival, now)

\* The newest HeldLimit of what has not expired.
RetainHeld(existing, arriving, now) ==
  LET alive == Filtered(existing, {h \in Range(existing) : ~IsHeldExpired(h, now)})
      merged == alive \o arriving
      overflow == IF Len(merged) > HeldLimit THEN Len(merged) - HeldLimit ELSE 0
  IN  [retained |-> SubSeq(merged, overflow + 1, Len(merged)),
       expired |-> Len(existing) - Len(alive), overflow |-> overflow]
=============================================================================
