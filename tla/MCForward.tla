----------------------------- MODULE MCForward -----------------------------
EXTENDS Forward

CONSTANTS a, b, r1, r2, r3

\* Two siblings on one engine, a third request on another.
Listed == <<r1, r2, r3>>
Served == [r \in {r1, r2, r3} |-> IF r = r3 THEN b ELSE a]
Prompts == [r \in {r1, r2, r3} |-> IF r = r3 THEN 2 ELSE 1]
Leaders == [r \in {r1, r2, r3} |-> IF r = r2 THEN r1 ELSE r]

\* Packed reads with a padded bucket; the plain passes; pages with a captured grouped graph.
Routes == {[model |-> "bundle", backend |-> "sdpa", buckets |-> {2}, grouped |-> {}, graphs |-> FALSE],
           [model |-> "qwen", backend |-> "naive", buckets |-> {}, grouped |-> {}, graphs |-> FALSE],
           [model |-> "bundle", backend |-> "flashinfer", buckets |-> {1}, grouped |-> {2}, graphs |-> TRUE]}

=============================================================================
