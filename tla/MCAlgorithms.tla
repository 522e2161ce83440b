---------------------------- MODULE MCAlgorithms ----------------------------
(***************************************************************************)
(* The pure algorithms of the engine and of the registry against what they *)
(* are meant to compute.  A behaviour builds the input of one of them, its *)
(* subject, step by step; every state is an input.                         *)
(*                                                                         *)
(*   boils     timers started one after the other, to be synchronised      *)
(*   lifts     bowls lifted one after the other, to be kept under the cap  *)
(*   policies  policies registered one after the other, to be composed     *)
(*   value     a configuration value, submitted to the registry            *)
(***************************************************************************)
EXTENDS BoilSync, RegistryCore, LiftWindows, StoreConfigs

CONSTANTS
  MaxTimers, StartTimes, Durations, Configs,   \* boils
  Instants, Spans, Params, MaxLifts,           \* lifts
  Ids, Priorities,                             \* policies
  Targets                                      \* value

ASSUME AlgorithmsAssumption ==
  /\ MaxTimers \in 1..4 /\ MaxLifts \in Nat
  /\ StartTimes \subseteq Nat /\ Durations \subseteq Nat \ {0}
  /\ \A c \in Configs : c.arms \in Nat \ {0} /\ c.ratio \in 0..50
  /\ Instants \subseteq Int /\ Spans \subseteq Nat
  /\ \A p \in Params : p.arms \in Nat /\ p.lift \in Nat \ {0}
  /\ Ids \subseteq Int /\ Priorities \subseteq Int
  /\ Targets \subseteq {"storeOverride", "policyFields"}

VARIABLES subject, given, with

vars == <<subject, given, with>>

-----------------------------------------------------------------------------
(* boils: one more timer, later in seq and not earlier in start, as        *)
(* nextSeq and the clock of the store give them.                           *)

MCConfigs == [arms : 1..3, ratio : {25, 40}]

StartTimer(start, duration) ==
  /\ subject = "boils" /\ Cardinality(given) < MaxTimers
  /\ \A t \in given : t.startTime <= start
  /\ given' = given \cup {[seq |-> Cardinality(given), startTime |-> start,
                           endTime |-> start + duration, boiledAt |-> None,
                           adjustment |-> 0]}

(* lifts: one more bowl or pair of bowls, at any instant.                  *)

Instants6 == 0..5
Spans2 == {1, 2}
SomeParams == [arms : {1}, lift : {1, 2}]

Lift(serveAt, span) ==
  /\ subject = "lifts" /\ Len(given) < MaxLifts
  /\ given' = Append(given, [serveAt |-> serveAt, slots |-> [s \in 1..span |-> s]])

(* policies: one more policy, in any order of names and priorities.  Its   *)
(* values are its own, so that the winner shows.                           *)

MCDefault == [f \in Fields |-> 0]

FieldsOf(p) == UNION {[A -> [mode : {"enforced", "default"}, value : {p}]] : A \in SUBSET Fields}

Overrides == UNION {[A -> {100}] : A \in SUBSET Fields}

AddPolicy(p, priority, fields) ==
  /\ subject = "policies" /\ p \notin DOMAIN given
  /\ given' = With(given, p, [priority |-> priority, fields |-> fields])

(* value: every shape a field may be given, at and around the ends of its  *)
(* range.                                                                  *)

Numbers == {Num(n) : n \in {-2, 0, 1, 2, 3, 8, 10, 18, 19, 20, 100, 102, 1200, 1202}}
Strings == {Str("", Null), Str("hard", Null), Str("4", Num(8))}
Leaves == {Null, Arr(<<>>)} \cup Numbers \cup Strings
SomeLeaves == {Null, Num(0), Num(2), Num(3), Num(18), Num(19), Str("", Null), Str("hard", Null)}

Seconds == {Obj([f \in Firmnesses |-> IF f = "hard" THEN v ELSE Num(60)]) : v \in SomeLeaves}
           \cup {Null, Obj([f \in Firmnesses \ {"soft"} |-> Num(60)]),
                 Obj([f \in Firmnesses \cup {"raw"} |-> Num(60)])}
Presets == {Obj([noodleType |-> t, boilSeconds |-> s]) : t \in {Null, Str("", Null), Str("Thin", Null)},
                                                         s \in Seconds}
           \cup {Obj([noodleType |-> Str("Thin", Null)]), Null}
Codes == {Obj([code |-> c, firmness |-> f]) : c \in SomeLeaves, f \in SomeLeaves}
         \cup {Obj([code |-> Num(2)]),
               Obj([code |-> Num(2), firmness |-> Str("hard", Null), name |-> Null])}
Sizes == {Obj([code |-> c, portions |-> p]) : c \in SomeLeaves, p \in SomeLeaves}
         \cup {Obj([code |-> Num(2)]), Null}
SizeLists == {Null, Arr(<<>>)} \cup {Arr(<<s>>) : s \in Sizes}
             \cup {Arr(<<s, Obj([code |-> Num(4), portions |-> Num(2)])>>) : s \in Sizes}
Menus == {Obj([productCode |-> c, noodleType |-> Str("Thin", Null), sizes |-> s])
            : c \in {Num(0), Num(2)}, s \in SizeLists}

ListsOf(set) == {Null, Arr(<<>>)} \cup {Arr(<<v>>) : v \in set}
ValuesOf == [f \in Numeric \cup Tables |->
               CASE f \in Numeric -> Leaves
                 [] f = "noodlePresets" -> ListsOf(Presets)
                 [] f = "firmnessCodes" -> ListsOf(Codes) \cup {Str("[]", Arr(<<>>))}
                 [] f = "menuItems" -> ListsOf(Menus)]
Modes == {Null, Str("enforced", Null), Str("default", Null), Str("hard", Null)}

DefaultPresets == <<[noodleType |-> "Medium", boilSeconds |-> [f \in Firmnesses |-> 90]]>>

Submit(f, v) ==
  /\ subject = "value" /\ with.field = "none"
  /\ \/ with.target = "storeOverride" /\ given' = v
     \/ with.target = "policyFields" /\ \E m \in Modes : given' = Obj([mode |-> m, value |-> v])
  /\ with' = [with EXCEPT !.field = f]

-----------------------------------------------------------------------------
Init ==
  \/ subject = "boils" /\ given = {} /\ with \in Configs
  \/ subject = "lifts" /\ given = <<>> /\ with \in Params
  \/ subject = "policies" /\ given = <<>> /\ with \in Overrides
  \/ subject = "value" /\ given = Null /\ with \in [target : Targets, field : {"none"}]

Next ==
  /\ UNCHANGED subject
  /\ \/ UNCHANGED with /\ \E s \in StartTimes, d \in Durations : StartTimer(s, d)
     \/ UNCHANGED with /\ \E t \in Instants, n \in Spans : Lift(t, n)
     \/ UNCHANGED with /\ \E p \in Ids, n \in Priorities : \E fs \in FieldsOf(p) : AddPolicy(p, n, fs)
     \/ \E f \in Numeric \cup Tables : \E v \in ValuesOf[f] : Submit(f, v)

Spec == Init /\ [][Next]_vars

-----------------------------------------------------------------------------
(* boils                                                                   *)

\* The spans of the syncable sets of each cluster of the running timers, in order.
AllSpans ==
  {LET sets == SyncableSets(Partition(ClusterOf(t, given, with.ratio), with.arms), with.ratio)
   IN  [k \in DOMAIN sets |-> Span(sets[k], with.ratio)] : t \in given}

\* sync.ts maxFeasibleGap: the bisection over the greedy test finds the largest gap for
\* which some placement inside the spans exists.
GapIsLargest ==
  subject = "boils" =>
    \A spans \in AllSpans :
      LET pairs == {p \in (DOMAIN spans) \X (DOMAIN spans) : p[1] < p[2]}
      IN  pairs # {} =>
            MaxFeasibleGap(spans)
              = Min({(spans[p[2]].right - spans[p[1]].left) \div (p[2] - p[1]) : p \in pairs})

\* sync.ts placeSyncTargets: the targets keep their order and the maximal gap, and no other
\* placement that does (on the scale of the windows) is nearer to the span centres.
PlacementIsNearest ==
  subject = "boils" =>
    \A spans \in AllSpans :
      LET gap == MaxFeasibleGap(spans)
          placed == PlaceSyncTargets(spans)
          goal(k) == (Grain \div 2) * (spans[k].left + spans[k].right)
          cost(p) == FoldFunction(LAMBDA x, acc : x + acc, 0,
                                  [k \in DOMAIN spans |-> (p[k] - goal(k)) * (p[k] - goal(k))])
          spaced(p) == \A k \in DOMAIN spans :
                         /\ Grain * spans[k].left <= p[k] /\ p[k] <= Grain * spans[k].right
                         /\ k > 1 => p[k] >= p[k - 1] + Grain * gap
          edges == UNION {{Grain * (spans[k].left + j * gap), Grain * (spans[k].right + j * gap),
                           goal(k) + Grain * j * gap} :
                            k \in DOMAIN spans, j \in -2..2}
      IN  /\ spaced(placed)
          /\ Len(spans) \in 2..3 =>
               \A p \in [DOMAIN spans -> edges \cup {placed[k] + d : k \in DOMAIN spans,
                                                                    d \in {-Grain, Grain}}] :
                 spaced(p) => cost(placed) <= cost(p)

-----------------------------------------------------------------------------
(* lifts                                                                   *)

\* Room for `span` more bowls in every window around t, wherever it opens.
HasRoom(table, t, span) ==
  \A x \in (t - Window(with) + 1)..t : LoadFrom(table, x, with) + span <= LiftCap(with)

\* lift.ts firstFit gives the earliest instant where no window is overfull, and gives up
\* only on what no window can ever hold: its jumps skip nothing.
FirstFitIsLeast ==
  subject = "lifts" =>
    LET table == AdvanceLifts(NoLifts, given)
    IN  \A t \in Instants, span \in 1..(LiftCap(with) + 1) :
          LET fit == FirstFit(table, t, span, with)
          IN  IF span > LiftCap(with) THEN fit = NoFit
              ELSE /\ fit >= t /\ HasRoom(table, fit, span)
                   /\ \A u \in t..(fit - 1) : ~HasRoom(table, u, span)

-----------------------------------------------------------------------------
(* policies                                                                *)

\* policy-conflict.ts detectAmbiguousAssignment: once it finds nothing, the names of the
\* policies, which break ties, decide nothing: any renaming that keeps the priorities gives
\* every field the same assertion.
UnambiguousIgnoresNames ==
  subject = "policies" /\ DetectAmbiguousAssignment(given, DOMAIN given) = {} =>
    \A rename \in {g \in [DOMAIN given -> DOMAIN given] : IsInjective(g)} :
      ComposeEffectiveConfig([q \in DOMAIN given |->
                                given[CHOOSE p \in DOMAIN given : rename[p] = q]],
                             DOMAIN given, with)
        = ComposeEffectiveConfig(given, DOMAIN given, with)

-----------------------------------------------------------------------------
(* value                                                                   *)

\* The raw value that stands for a decoded one.
Encode(f, value) ==
  CASE f \in Numeric -> Num(2 * value)
    [] f = "noodlePresets" ->
         Arr([i \in DOMAIN value |->
                Obj([noodleType |-> Str(value[i].noodleType, Null),
                     boilSeconds |-> Obj([k \in Firmnesses |-> Num(2 * value[i].boilSeconds[k])])])])
    [] f = "firmnessCodes" ->
         Arr([i \in DOMAIN value |-> Obj([code |-> Num(2 * value[i].code),
                                          firmness |-> Str(value[i].firmness, Null)])])
    [] f = "menuItems" ->
         Arr([i \in DOMAIN value |->
                Obj([productCode |-> Num(2 * value[i].productCode),
                     noodleType |-> Str(value[i].noodleType, Null),
                     sizes |-> Arr([k \in DOMAIN value[i].sizes |->
                                      Obj([code |-> Num(2 * value[i].sizes[k].code),
                                           portions |-> Num(value[i].sizes[k].portions)])])])])

\* validate.ts validateStoreConfigFields and the decoders of domain/store.ts: what the
\* registry accepts is what the composed configuration will hold, never clamped, replaced by
\* a default or stripped of an element; and a value the decoders would change is rejected.
AcceptsWhatIsKept ==
  subject = "value" /\ with.field # "none" =>
    LET isPolicy == with.target = "policyFields"
        submitted == IF isPolicy THEN Get(given, "value") ELSE given
        modeFits == isPolicy => Get(given, "mode") \in {Str("enforced", Null), Str("default", Null)}
        kept == Encode(with.field, ToField(with.field, submitted, DefaultPresets)) = submitted
    IN  (ValidateProvisioningInput(with.target, Obj([f \in {with.field} |-> given])) = {})
          <=> (modeFits /\ kept)
=============================================================================
