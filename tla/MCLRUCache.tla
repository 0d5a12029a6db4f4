----------------------------- MODULE MCLRUCache -----------------------------
(***************************************************************************)
(* The cache with its history of uses, checked against the abstract cache. *)
(* No definition distinguishes one key or one value from another, so their *)
(* permutations are a symmetry.                                            *)
(***************************************************************************)
EXTENDS LRURefinement, LRUHistory, TLC

KeysAndValues == Permutations(Keys) \cup Permutations(Values)
=============================================================================
