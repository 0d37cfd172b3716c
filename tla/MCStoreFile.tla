----------------------------- MODULE MCStoreFile -----------------------------
(* StoreFile with four mutations, one of which has a careless handler. *)
EXTENDS StoreFile, TLC
CONSTANTS m1, m2, m3, m4

AnyCareful == Permutations({m2, m3, m4})
=============================================================================
