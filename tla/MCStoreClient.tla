--------------------------- MODULE MCStoreClient ---------------------------
\* StoreClient for TLC: the slots are interchangeable.
EXTENDS StoreClient, TLC

SlotSymmetry == Permutations(Slots)
=============================================================================
