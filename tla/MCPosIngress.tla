---------------------------- MODULE MCPosIngress ----------------------------
(***************************************************************************)
(* Instances of PosIngress for model checking.                             *)
(***************************************************************************)
EXTENDS PosIngress, MCStoreRegistryDO

\* The last record is of the next instant: it comes early, or the others come late.
OneByOne == [n \in 1..MaxRecords |-> IF n < MaxRecords THEN 0 ELSE 1]

\* Isolates are alike.
Isolates == Permutations(Workers)
=============================================================================
