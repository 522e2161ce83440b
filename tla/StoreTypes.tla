----------------------------- MODULE StoreTypes -----------------------------
(***************************************************************************)
(* What the modules of the store share: the value of a field that is null. *)
(***************************************************************************)
CONSTANT None
=============================================================================
