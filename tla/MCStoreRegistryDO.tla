------------------------- MODULE MCStoreRegistryDO -------------------------
(***************************************************************************)
(* Instances of StoreRegistryDO for model checking.                        *)
(***************************************************************************)
EXTENDS StoreRegistryDO

MCDefault == [f \in Fields |-> 0]

Says(mode, value) == [mode |-> mode, value |-> value]
Policy(priority, fields) == [priority |-> priority, fields |-> fields]

\* One policy that comes and changes its value.
OnePolicy == 1 :> {Policy(1, [arms |-> Says("default", 5)])}

NoPolicy == <<>>
Plain == [chain |-> 1]
Coded(c) == [chain |-> 1, storeCode |-> c]
CodedBodies == {Coded(c) : c \in Codes}

\* Two stores at once, one with a code; a change assigns the policy and claims a code.
FirstCode == CHOOSE c \in Codes : TRUE
BothStores == {(1 :> Coded(FirstCode)) @@ (2 :> Plain)}
AssignAndClaim == {[policyIds |-> {1}, storeCode |-> c] : c \in Codes \ {FirstCode}}

Nobody == {}
Users == {{"u"}}

=============================================================================
