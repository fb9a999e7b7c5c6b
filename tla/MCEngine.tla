------------------------------ MODULE MCEngine ------------------------------
(* Small engines: three requests of a few shapes over a pool that cannot   *)
(* hold them all at once.                                                  *)
EXTENDS Engine

CONSTANTS r1, r2, r3

Asking(prompt, new, group, text) ==
  [prompt |-> prompt, new |-> new, group |-> group, text |-> text]

Built(pool, block, chunk, draft, entries, preemption, asks, aborts) ==
  [pool |-> pool, block |-> block, chunk |-> chunk, draft |-> draft, entries |-> entries,
   preemption |-> preemption, asks |-> asks, aborts |-> aborts]

Trio(a, b, c) == r1 :> a @@ r2 :> b @@ r3 :> c

\* Up to symmetry, every way to give the requests one of two shapes.
Mixes(a, b) == {Trio(a, a, a), Trio(a, a, b), Trio(a, b, b), Trio(b, b, b)}

\* Whole prompts, batched where no group and no cache forbids it.
Batching == Built(4, 2, 0, 0, 0, FALSE, Mixes(Asking(1, 3, 0, 1), Asking(3, 2, 1, 1)), TRUE)

\* Chunks, drafts and prefix groups with a partial last block, worst cases reserved.
Reserving == Built(5, 2, 2, 2, 0, FALSE, Mixes(Asking(1, 4, 0, 1), Asking(3, 3, 1, 1)), FALSE)

\* A prefix cache that over-holds blocks: one text, of two lengths, and another one.
Caching ==
  Built(4, 1, 2, 1, 2, FALSE,
        Mixes(Asking(2, 2, 0, 1), Asking(3, 1, 0, 1)) \cup Mixes(Asking(2, 2, 0, 1), Asking(2, 1, 0, 2)),
        TRUE)

\* Over-committed pool, single requests: evictions, recomputes, drafts.
Evicting == Built(4, 1, 1, 1, 0, TRUE, Mixes(Asking(1, 4, 0, 1), Asking(3, 2, 0, 1)), TRUE)

\* Over-committed pool, prefix groups: victims that share their blocks.
EvictingSiblings == Built(3, 2, 2, 0, 0, TRUE, Mixes(Asking(3, 3, 1, 1), Asking(2, 2, 0, 1)), TRUE)

\* A leader that outgrows the pool while its sibling waits for the prompt.
EvictingFollowers ==
  Built(6, 1, 1, 1, 0, TRUE, {Trio(Asking(1, 5, 0, 1), Asking(3, 2, 1, 1), Asking(3, 2, 1, 1))},
        FALSE)

\* One group id for two prompts.
Mixing == {Built(4, 2, 0, 0, 0, FALSE, Mixes(Asking(2, 2, 1, 1), Asking(2, 2, 1, 2)), TRUE)}

Small == {Batching, Reserving, Caching, Evicting, EvictingSiblings, EvictingFollowers}
=============================================================================
