---------------------------- MODULE StoreConfigs ----------------------------
(***************************************************************************)
(* The configuration of a store: the decoders that never fail              *)
(* (src/src/domain/store.ts) and the validation that rejects               *)
(* (src/src/registry/validate.ts), two independent readings of one value.  *)
(*                                                                         *)
(* A raw value is a JSON value tagged with its kind.  A number is given in *)
(* halves, so that 3 is Num(6) and 1.5 is Num(3); a string has the value   *)
(* that Number() and JSON.parse read from it, Null when it reads as none.  *)
(***************************************************************************)
EXTENDS Integers, Sequences, SequencesExt

Null == [kind |-> "null"]
Num(halves) == [kind |-> "number", halves |-> halves]
Str(text, reads) == [kind |-> "string", text |-> text, reads |-> reads]
Arr(items) == [kind |-> "array", items |-> items]
Obj(fields) == [kind |-> "object", fields |-> fields]

IsInt(raw) == raw.kind = "number" /\ raw.halves % 2 = 0
IsObj(raw) == raw.kind = "object"
Has(raw, field) == IsObj(raw) /\ field \in DOMAIN raw.fields
Get(raw, field) == IF Has(raw, field) THEN raw.fields[field] ELSE Null
IsText(raw) == raw.kind = "string" /\ raw.text # ""
Read(raw) == IF raw.kind = "string" THEN raw.reads ELSE raw

Firmnesses == {"extraHard", "hard", "normal", "soft"}
UnitCountMax == 4
ArmsMax == 10
ToleranceRatioMax == 50
LiftIntervalMin == 5
LiftIntervalMax == 600
PortionsMax == 18     \* 9 portions, in halves
Numeric == {"unitCount", "arms", "toleranceRatio", "liftIntervalSeconds"}
Tables == {"noodlePresets", "firmnessCodes", "menuItems"}

Limits == [unitCount           |-> [min |-> 1, max |-> UnitCountMax, default |-> 3],
           arms                |-> [min |-> 1, max |-> ArmsMax, default |-> 2],
           toleranceRatio      |-> [min |-> 0, max |-> ToleranceRatioMax, default |-> 5],
           liftIntervalSeconds |-> [min |-> LiftIntervalMin, max |-> LiftIntervalMax,
                                    default |-> 45]]

-----------------------------------------------------------------------------
(* Decoders: whatever is raw, a usable value.                              *)

ToIntegerAtLeast(raw, min, fallback) ==
  IF ~IsInt(Read(raw)) THEN fallback
  ELSE LET value == Read(raw).halves \div 2 IN IF value < min THEN min ELSE value

ToBoundedInteger(raw, min, max, fallback) ==
  LET value == ToIntegerAtLeast(raw, min, fallback) IN IF value > max THEN max ELSE value

ToIntegerWithin(raw, min, max, fallback) ==
  IF ~IsInt(Read(raw)) \/ Read(raw).halves < 2 * min \/ Read(raw).halves > 2 * max
  THEN fallback ELSE Read(raw).halves \div 2

IsProductCode(raw) == IsInt(raw) /\ raw.halves > 0

\* Half portions are valid: every count of halves from 1 to PortionsMax.
IsPortions(raw) == raw.kind = "number" /\ raw.halves \in 1..PortionsMax

\* The elements that decode, in order; what does not is left out.
Decoded(items, Decodes(_), Decode(_)) ==
  LET kept == SelectSeq(items, Decodes) IN [i \in DOMAIN kept |-> Decode(kept[i])]

IsSeconds(raw) == IsObj(raw) /\ \A f \in Firmnesses : IsProductCode(Get(raw, f))

IsPreset(raw) == IsText(Get(raw, "noodleType")) /\ IsSeconds(Get(raw, "boilSeconds"))

ToPreset(raw) == [noodleType |-> Get(raw, "noodleType").text,
                  boilSeconds |-> [f \in Firmnesses |->
                                     Get(Get(raw, "boilSeconds"), f).halves \div 2]]

ToNoodlePresets(raw, default) ==
  LET source == Read(raw)
      presets == IF source.kind # "array" THEN <<>> ELSE Decoded(source.items, IsPreset, ToPreset)
  IN  IF presets = <<>> THEN default ELSE presets

IsCode(raw) == /\ IsProductCode(Get(raw, "code"))
               /\ Get(raw, "firmness").kind = "string"
               /\ Get(raw, "firmness").text \in Firmnesses

ToCode(raw) == [code |-> Get(raw, "code").halves \div 2, firmness |-> Get(raw, "firmness").text]

ToFirmnessCodes(raw) ==
  IF Read(raw).kind # "array" THEN <<>> ELSE Decoded(Read(raw).items, IsCode, ToCode)

IsSize(raw) == IsProductCode(Get(raw, "code")) /\ IsPortions(Get(raw, "portions"))

ToSize(raw) == [code |-> Get(raw, "code").halves \div 2, portions |-> Get(raw, "portions").halves]

ToNoodleSizes(raw) == IF raw.kind # "array" THEN <<>> ELSE Decoded(raw.items, IsSize, ToSize)

IsMenuItem(raw) == /\ IsProductCode(Get(raw, "productCode"))
                   /\ IsText(Get(raw, "noodleType"))
                   /\ ToNoodleSizes(Get(raw, "sizes")) # <<>>

ToMenuItem(raw) == [productCode |-> Get(raw, "productCode").halves \div 2,
                    noodleType |-> Get(raw, "noodleType").text,
                    sizes |-> ToNoodleSizes(Get(raw, "sizes"))]

ToMenuItems(raw) ==
  IF Read(raw).kind # "array" THEN <<>> ELSE Decoded(Read(raw).items, IsMenuItem, ToMenuItem)

\* The decoder of each field a policy or an override may assert.
ToField(field, raw, defaultPresets) ==
  CASE field = "unitCount" ->
         ToBoundedInteger(raw, Limits[field].min, Limits[field].max, Limits[field].default)
    [] field \in Numeric \ {"unitCount"} ->
         ToIntegerWithin(raw, Limits[field].min, Limits[field].max, Limits[field].default)
    [] field = "noodlePresets" -> ToNoodlePresets(raw, defaultPresets)
    [] field = "firmnessCodes" -> ToFirmnessCodes(raw)
    [] field = "menuItems" -> ToMenuItems(raw)

-----------------------------------------------------------------------------
(* Geometry of the kettles.                                                *)

-----------------------------------------------------------------------------
(* Validation: the set of reasons for which a raw value is rejected.       *)

UnknownField(raw, allowed) == IF DOMAIN raw.fields \subseteq allowed THEN {} ELSE {"unknown-field"}

ValidateIn(raw, min, max) ==
  CASE ~IsInt(raw) -> {"type-mismatch"}
    [] IsInt(raw) /\ (raw.halves < 2 * min \/ raw.halves > 2 * max) -> {"out-of-range"}
    [] OTHER -> {}

ValidateElements(raw, Validate(_)) ==
  IF raw.kind # "array" THEN {"type-mismatch"}
  ELSE UNION {Validate(raw.items[i]) : i \in DOMAIN raw.items}

ValidateNonEmpty(raw, Validate(_)) ==
  IF raw.kind = "array" /\ raw.items = <<>> THEN {"out-of-range"}
  ELSE ValidateElements(raw, Validate)

\* An object with these fields and no other, each read by its own check.
ValidateObject(raw, checks) ==
  IF ~IsObj(raw) THEN {"type-mismatch"}
  ELSE UnknownField(raw, DOMAIN checks) \cup
       UNION {IF Has(raw, f) THEN checks[f] ELSE {"missing-required"} : f \in DOMAIN checks}

ValidatePositive(raw) ==
  CASE ~IsInt(raw) -> {"type-mismatch"}
    [] IsInt(raw) /\ raw.halves <= 0 -> {"out-of-range"}
    [] OTHER -> {}

ValidateText(raw) ==
  CASE raw.kind # "string" -> {"type-mismatch"}
    [] raw.kind = "string" /\ raw.text = "" -> {"out-of-range"}
    [] OTHER -> {}

ValidateFirmness(raw) ==
  CASE raw.kind # "string" -> {"type-mismatch"}
    [] raw.kind = "string" /\ raw.text \notin Firmnesses -> {"out-of-range"}
    [] OTHER -> {}

\* Mutant: zero portions pass.
MutValidatePortions(raw) ==
  CASE raw.kind # "number" -> {"type-mismatch"}
    [] raw.kind = "number" /\ raw.halves \notin 0..PortionsMax -> {"out-of-range"}
    [] OTHER -> {}

ValidatePortions(raw) ==
  CASE raw.kind # "number" -> {"type-mismatch"}
    [] raw.kind = "number" /\ raw.halves \notin 1..PortionsMax -> {"out-of-range"}
    [] OTHER -> {}

ValidateBoilSeconds(raw) ==
  ValidateObject(raw, [f \in Firmnesses |-> ValidatePositive(Get(raw, f))])

ValidateNoodlePreset(raw) ==
  ValidateObject(raw, [noodleType |-> ValidateText(Get(raw, "noodleType")),
                       boilSeconds |-> ValidateBoilSeconds(Get(raw, "boilSeconds"))])

ValidateFirmnessCode(raw) ==
  ValidateObject(raw, [code |-> ValidatePositive(Get(raw, "code")),
                       firmness |-> ValidateFirmness(Get(raw, "firmness"))])

ValidateNoodleSize(raw) ==
  ValidateObject(raw, [code |-> ValidatePositive(Get(raw, "code")),
                       portions |-> ValidatePortions(Get(raw, "portions"))])

ValidateMenuItem(raw) ==
  ValidateObject(raw, [productCode |-> ValidatePositive(Get(raw, "productCode")),
                       noodleType |-> ValidateText(Get(raw, "noodleType")),
                       sizes |-> ValidateNonEmpty(Get(raw, "sizes"), ValidateNoodleSize)])

ValidateField(field, raw) ==
  CASE field \in Numeric -> ValidateIn(raw, Limits[field].min, Limits[field].max)
    [] field = "noodlePresets" -> ValidateNonEmpty(raw, ValidateNoodlePreset)
    [] field = "firmnessCodes" -> ValidateElements(raw, ValidateFirmnessCode)
    [] field = "menuItems" -> ValidateElements(raw, ValidateMenuItem)

\* A policy wraps each value in { mode, value }.
ValidateModed(field, raw) ==
  ValidateObject(raw, [mode |-> CASE Get(raw, "mode").kind # "string" -> {"type-mismatch"}
                                  [] Get(raw, "mode").kind = "string"
                                     /\ Get(raw, "mode").text \notin {"enforced", "default"}
                                       -> {"out-of-range"}
                                  [] OTHER -> {},
                       value |-> ValidateField(field, Get(raw, "value"))])

ValidateStoreConfigFields(raw, target) ==
  IF ~IsObj(raw) THEN {"type-mismatch"}
  ELSE UnknownField(raw, Numeric \cup Tables) \cup
       UNION {IF target = "policyFields" THEN ValidateModed(f, raw.fields[f])
              ELSE ValidateField(f, raw.fields[f])
              : f \in DOMAIN raw.fields \cap (Numeric \cup Tables)}

ValidateRoster(raw) == ValidateElements(raw, ValidateText)

ValidateProvisioningInput(target, raw) ==
  IF target = "roster" THEN ValidateRoster(raw) ELSE ValidateStoreConfigFields(raw, target)
=============================================================================
