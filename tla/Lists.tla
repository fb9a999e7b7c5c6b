-------------------------------- MODULE Lists --------------------------------
(***************************************************************************)
(* List comprehensions: `[x for x in s if x not in D]`, which the engine   *)
(* writes wherever something leaves a list.                                *)
(***************************************************************************)
EXTENDS Naturals, Sequences, FiniteSets

\* The n-th smallest of a set of positions, and s without the members of D.
Nth(K, n) == CHOOSE i \in K : Cardinality({j \in K : j <= i}) = n

Without(s, D) ==
  LET kept == {i \in DOMAIN s : s[i] \notin D}
  IN  [n \in 1..Cardinality(kept) |-> s[Nth(kept, n)]]
=============================================================================
