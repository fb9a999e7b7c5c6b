------------------------------ MODULE MCPagedKV ------------------------------
(* Instances of PagedKV for TLC: blocks, requests, entries and tokens are  *)
(* interchangeable, so each set is symmetric.                              *)
EXTENDS PagedKV, TLC

Symmetry ==
  Permutations(Blocks) \cup Permutations(Requests)
    \cup Permutations(Entries) \cup Permutations(Tokens)
=============================================================================
