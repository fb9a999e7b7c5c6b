------------------------------- MODULE PagedKV -------------------------------
(***************************************************************************)
(* The paged key/value memory: the reference-counted block pool, the block *)
(* tables of the requests, copy-on-write on append, prompt sharing inside  *)
(* a prefix group, and the cross-turn prefix cache that keeps the blocks   *)
(* of finished requests.                                                   *)
(*                                                                         *)
(* One action is one call of the engine into the cache.  A block is handed *)
(* out by a nondeterministic choice among the free ones: nothing below may *)
(* depend on the LIFO order of the free list.  What a layer stores for a   *)
(* position depends on every token up to that position, so the content of  *)
(* a slot is abstracted to that token history; the bytes left in a block   *)
(* that nobody owns mean nothing to its next owner, and are NoKV.          *)
(*                                                                         *)
(* The pool does not know its engine: an engine that verifies drafts opens *)
(* no decode windows (_deferred_eligible), and the memory keeps its        *)
(* promises whatever mix of the two it is asked for.                       *)
(***************************************************************************)
EXTENDS Integers, Sequences, FiniteSets, Functions, Lists

CONSTANTS
  Blocks,       \* physical blocks of the pool
  Requests,     \* requests, each with one block table
  Entries,      \* identities of prefix-cache entries
  Tokens,       \* vocabulary
  BlockSize,    \* positions per block
  MaxEntries,   \* cap of the prefix cache
  PrefixCache,  \* TRUE: finished requests donate, new ones look up
  MaxLen,       \* bound: longest table
  MaxWrite,     \* bound: longest chunk, draft or window
  NoKV

ASSUME PoolAssumption ==
  /\ IsFiniteSet(Blocks) /\ Blocks # {}
  /\ IsFiniteSet(Requests) /\ IsFiniteSet(Entries)
  /\ Requests \cap Entries = {}
  /\ Cardinality(Entries) > MaxEntries
  /\ BlockSize \in Nat \ {0} /\ MaxEntries \in Nat \ {0}
  /\ PrefixCache \in BOOLEAN
  /\ MaxLen \in Nat /\ MaxWrite \in Nat

VARIABLES
  free,       \* BlockAllocator._free, as a set
  refcount,   \* BlockAllocator._refcounts
  own,        \* BlockTable.blocks of a request, PrefixCacheEntry.block_ids of an entry
  text,       \* per request: the tokens whose KV its table holds; the length is table.length
  prefilled,  \* Request.prefilled
  window,     \* steps the open decode window of a request may still run
  kv,         \* PagedKVCache.kv: what each slot of each block holds
  key,        \* PrefixCacheEntry.token_ids
  lru,        \* PrefixCacheStore._entries, least recently used first
  dead        \* an OutOfBlocksError left the engine's step(): nothing runs any more

vars == <<free, refcount, own, text, prefilled, window, kv, key, lru, dead>>

Owners == Requests \cup Entries

-----------------------------------------------------------------------------
(* Arithmetic of tables *)

BlocksFor(positions) == (positions + BlockSize - 1) \div BlockSize

\* The 1-based index in a table of the block that holds a 0-based position.
BlockIndex(pos) == pos \div BlockSize + 1

Capacity(r) == Len(own[r]) * BlockSize

CommonPrefixLen(s, t) ==
  CHOOSE n \in 0..Len(s) :
    /\ n <= Len(t) /\ SubSeq(s, 1, n) = SubSeq(t, 1, n)
    /\ n < Len(s) /\ n < Len(t) => s[n + 1] # t[n + 1]

IsPrefixOf(s, t) == Len(s) <= Len(t) /\ SubSeq(t, 1, Len(s)) = s

-----------------------------------------------------------------------------
(* Releasing: the owners in D free every block they hold *)

\* mutant: a dropped cache entry keeps its references
RefAfterTables(D) ==
  [b \in Blocks |-> refcount[b] - Cardinality({o \in D \cap Requests : b \in Range(own[o])})]

RefAfter(D) ==
  [b \in Blocks |-> refcount[b] - Cardinality({o \in D : b \in Range(own[o])})]

\* mutant: a released block returns to the pool while others still hold it
ReleasedAtOnce(D) == {b \in Blocks : refcount[b] > 0 /\ RefAfter(D)[b] < refcount[b]}

\* Blocks whose last reference goes: these, and only these, return to the pool.
Returned(D) == {b \in Blocks : refcount[b] > 0 /\ RefAfter(D)[b] = 0}

Oldest(n) == {lru[i] : i \in 1..n}

(* The entries evicted before `need` blocks can be handed out: the fewest  *)
(* least recently used ones whose release really fills the pool, or all.   *)
Suffices(n, need) == n = Len(lru) \/ Cardinality(free \cup Returned(Oldest(n))) >= need

Evictions(need) ==
  CHOOSE n \in 0..Len(lru) :
    Suffices(n, need) /\ \A m \in 0..(n - 1) : ~Suffices(m, need)

Evicted(need) == Oldest(Evictions(need))
AfterEviction(need) == SubSeq(lru, Evictions(need) + 1, Len(lru))

-----------------------------------------------------------------------------
(* Writing `count` tokens at the end of r's table *)

(* Table indices that take a block from the pool: the ones reserve() adds  *)
(* past the table's end, and the ones prepare_write() copies because the   *)
(* append lands in a shared block.  Eviction for the growth comes first.   *)
Growth(r, count) ==
  (Len(own[r]) + 1)..BlocksFor(Len(text[r]) + count)

\* mutant: appends go into the shared block in place
NeverCopied(r, count) == {}

Copied(r, count) ==
  {i \in BlockIndex(Len(text[r]))..BlocksFor(Len(text[r]) + count) :
     /\ i <= Len(own[r])
     /\ RefAfter(Evicted(Cardinality(Growth(r, count))))[own[r][i]] > 1}

NewBlocks(r, count) == Growth(r, count) \cup Copied(r, count)

\* prepare_write raises on a shared block that the append would overwrite from its start.
OverwritesShared(r, count) ==
  /\ Len(text[r]) % BlockSize = 0
  /\ BlockIndex(Len(text[r])) \in Copied(r, count)

\* mutant: the dry run counts the growth of the table alone
GrowthCost(r, count) == Cardinality(Growth(r, count))

\* The engine's dry run of the same cost, before any block moves.
AppendCost(r, count) ==
  LET needed == BlocksFor(Len(text[r]) + count)
      grow   == IF needed > Len(own[r]) THEN needed - Len(own[r]) ELSE 0
  IN  grow + Cardinality({i \in BlockIndex(Len(text[r]))..needed :
                            i <= Len(own[r]) /\ refcount[own[r][i]] > 1})

\* r's table with the fresh blocks at their indices: grown, and copied on write.
Patched(r, fresh) ==
  [i \in DOMAIN own[r] \cup DOMAIN fresh |->
     IF i \in DOMAIN fresh THEN fresh[i] ELSE own[r][i]]

Blank == [o \in 0..(BlockSize - 1) |-> NoKV]

(* The slots of the table's i-th block after toks were appended: written   *)
(* positions hold their history, the others what the old block held.       *)
BlockAfter(r, toks, i) ==
  LET all == text[r] \o toks
      held == IF i <= Len(own[r]) THEN kv[own[r][i]] ELSE Blank
  IN  [o \in 0..(BlockSize - 1) |->
         LET pos == (i - 1) * BlockSize + o
         IN  IF pos >= Len(text[r]) /\ pos < Len(all) THEN SubSeq(all, 1, pos + 1) ELSE held[o]]

-----------------------------------------------------------------------------
Init ==
  /\ free = Blocks
  /\ refcount = [b \in Blocks |-> 0]
  /\ own = [o \in Owners |-> <<>>]
  /\ text = [r \in Requests |-> <<>>]
  /\ prefilled = [r \in Requests |-> FALSE]
  /\ window = [r \in Requests |-> 0]
  /\ kv = [b \in Blocks |-> Blank]
  /\ key = [e \in Entries |-> <<>>]
  /\ lru = <<>>
  /\ dead = FALSE

(* reserve, prepare_write and the store of toks at the end of r's table;   *)
(* only the first `kept` of them stay (a rejected draft rolls the length   *)
(* back and trims the table), and the siblings fork the resulting table.   *)
AppendKV(r, toks, kept, siblings) ==
  LET new     == NewBlocks(r, Len(toks))
      evicted == Evicted(Cardinality(new))
      all     == text[r] \o toks
      keep    == SubSeq(all, 1, Len(text[r]) + kept)
      last    == IF Len(own[r]) > BlocksFor(Len(all)) THEN Len(own[r]) ELSE BlocksFor(Len(all))
      end     == IF kept < Len(toks) /\ BlocksFor(Len(keep)) < last
                 THEN BlocksFor(Len(keep)) ELSE last
  IN
  /\ Len(all) <= MaxLen
  /\ ~OverwritesShared(r, Len(toks))
  /\ \E fresh \in [new -> free \cup Returned(evicted)] :
       LET tbl    == SubSeq(Patched(r, fresh), 1, end)
           gained == Range(tbl) \ Range(own[r])
           lost   == Range(own[r]) \ Range(tbl)
       IN
       /\ IsInjective(fresh)
       /\ own' = [o \in Owners |-> IF o = r \/ o \in siblings THEN tbl
                                   ELSE IF o \in evicted THEN <<>> ELSE own[o]]
       /\ refcount' = [b \in Blocks |->
            (IF b \in gained THEN 1
             ELSE RefAfter(evicted)[b] - (IF b \in lost THEN 1 ELSE 0))
            + (IF b \in Range(tbl) THEN Cardinality(siblings) ELSE 0)]
       /\ free' = ((free \cup Returned(evicted)) \ gained)
                    \cup {b \in lost : RefAfter(evicted)[b] = 1}
       /\ kv' = [b \in Blocks |->
            IF b \in Range(tbl) THEN BlockAfter(r, toks, CHOOSE i \in 1..end : tbl[i] = b)
            ELSE IF b \in free' THEN Blank ELSE kv[b]]
  /\ text' = [q \in Requests |-> IF q = r \/ q \in siblings THEN keep ELSE text[q]]
  /\ key' = [e \in Entries |-> IF e \in evicted THEN <<>> ELSE key[e]]
  /\ lru' = AfterEviction(Cardinality(new))

Chunks == UNION {[1..n -> Tokens] : n \in 1..MaxWrite}

\* Requests of the same prefix group that wait for their leader's prompt.
Unstarted(r) == {s \in Requests \ {r} : ~prefilled[s] /\ own[s] = <<>>}

(* One prompt chunk; with the last one the siblings fork the prompt.       *)
PrefillChunk(r, toks) ==
  /\ ~dead /\ ~prefilled[r]
  /\ \/ /\ AppendKV(r, toks, Len(toks), {})
        /\ UNCHANGED prefilled
     \/ \E siblings \in SUBSET Unstarted(r) :
          /\ AppendKV(r, toks, Len(toks), siblings)
          /\ prefilled' = [q \in Requests |-> prefilled[q] \/ q = r \/ q \in siblings]
  /\ UNCHANGED <<window, dead>>

Decode(r, t) ==
  /\ ~dead /\ prefilled[r] /\ window[r] = 0
  /\ AppendKV(r, <<t>>, 1, {})
  /\ UNCHANGED <<prefilled, window, dead>>

(* Verify the last token and a draft in one forward; keep an accepted      *)
(* prefix and give the blocks behind it back.                              *)
Verify(r, toks, kept) ==
  /\ ~dead /\ prefilled[r] /\ window[r] = 0
  /\ Len(toks) > 1 /\ kept \in 1..Len(toks)
  /\ AppendKV(r, toks, kept, {})
  /\ UNCHANGED <<prefilled, window, dead>>

\* mutant: the window's plan takes any table
AnyTable(r) == TRUE

Private(r) == \A b \in Range(own[r]) : refcount[b] = 1

(* The plan of a decode window refuses a table with a shared block, and    *)
(* reserves every block the window can write.                              *)
OpenWindow(r, steps) ==
  LET new     == Growth(r, steps)
      evicted == Evicted(Cardinality(new))
  IN
  /\ ~dead /\ prefilled[r] /\ window[r] = 0
  /\ Len(text[r]) + steps <= MaxLen
  /\ Private(r)
  /\ \E fresh \in [new -> free \cup Returned(evicted)] :
       /\ IsInjective(fresh)
       /\ own' = [o \in Owners |->
            IF o = r THEN Patched(r, fresh) ELSE IF o \in evicted THEN <<>> ELSE own[o]]
       /\ refcount' = [b \in Blocks |-> IF b \in Range(fresh) THEN 1 ELSE RefAfter(evicted)[b]]
       /\ free' = (free \cup Returned(evicted)) \ Range(fresh)
       /\ kv' = [b \in Blocks |-> IF b \in free' THEN Blank ELSE kv[b]]
  /\ window' = [window EXCEPT ![r] = steps]
  /\ key' = [e \in Entries |-> IF e \in evicted THEN <<>> ELSE key[e]]
  /\ lru' = AfterEviction(Cardinality(new))
  /\ UNCHANGED <<text, prefilled, dead>>

\* A planned step stores into the slot fixed when the window opened, with no check at all.
PlannedDecode(r, t) ==
  /\ ~dead /\ window[r] > 0
  /\ window' = [window EXCEPT ![r] = @ - 1]
  /\ text' = [text EXCEPT ![r] = Append(@, t)]
  /\ LET i == BlockIndex(Len(text[r]))
     IN  kv' = [kv EXCEPT ![own[r][i]] = BlockAfter(r, <<t>>, i)]
  /\ UNCHANGED <<free, refcount, own, prefilled, key, lru, dead>>

\* A drained window leaves its unused reservation in the table.
CloseWindow(r) ==
  /\ ~dead /\ window[r] > 0
  /\ window' = [window EXCEPT ![r] = 0]
  /\ UNCHANGED <<free, refcount, own, text, prefilled, kv, key, lru, dead>>

(* The pool is dry even without the cache: reserve() raises before it      *)
(* changes the table, prepare_write() after reserve() extended it.         *)
OutOfBlocks(r, count) ==
  LET entries == Oldest(Len(lru))
      avail   == free \cup Returned(entries)
      grow    == Growth(r, count)
      got     == IF Cardinality(grow) <= Cardinality(avail) THEN grow ELSE {}
  IN
  /\ ~dead /\ window[r] = 0
  /\ Len(text[r]) + count <= MaxLen
  /\ ~OverwritesShared(r, count)
  /\ Cardinality(avail) < Cardinality(NewBlocks(r, count))
  /\ \E fresh \in [got -> avail] :
       /\ IsInjective(fresh)
       /\ own' = [o \in Owners |->
            IF o = r THEN Patched(r, fresh) ELSE IF o \in entries THEN <<>> ELSE own[o]]
       /\ refcount' = [b \in Blocks |-> IF b \in Range(fresh) THEN 1 ELSE RefAfter(entries)[b]]
       /\ free' = avail \ Range(fresh)
       /\ kv' = [b \in Blocks |-> IF b \in free' THEN Blank ELSE kv[b]]
  /\ key' = [e \in Entries |-> IF e \in entries THEN <<>> ELSE key[e]]
  /\ lru' = <<>>
  /\ dead' = TRUE
  /\ UNCHANGED <<text, prefilled, window>>

-----------------------------------------------------------------------------
(* Finish: donate the whole blocks to the cache, then free the table.  The *)
(* donated blocks are retained before any superseded entry is dropped.     *)
Finish(r) ==
  LET n          == IF PrefixCache THEN Len(text[r]) \div BlockSize ELSE 0
      tokens     == SubSeq(text[r], 1, n * BlockSize)
      superseded == {e \in Range(lru) : n > 0 /\ IsPrefixOf(key[e], tokens)}
      rest       == Without(lru, superseded)
      popped     == IF n > 0 /\ Len(rest) + 1 > MaxEntries THEN {rest[1]} ELSE {}
      dropped    == superseded \cup popped \cup {r}
      donated    == {own[r][i] : i \in 1..n}
  IN
  /\ ~dead /\ prefilled[r] /\ window[r] = 0
  /\ \E e \in {f \in Entries : own[f] = <<>>} :
       /\ own' = [o \in Owners |-> IF o = e THEN SubSeq(own[r], 1, n)
                                   ELSE IF o \in dropped THEN <<>> ELSE own[o]]
       /\ key' = [f \in Entries |-> IF f = e THEN tokens
                                    ELSE IF f \in dropped THEN <<>> ELSE key[f]]
       /\ lru' = Without(rest, popped) \o (IF n > 0 THEN <<e>> ELSE <<>>)
  /\ refcount' = [b \in Blocks |-> RefAfter(dropped)[b] + (IF b \in donated THEN 1 ELSE 0)]
  /\ free' = free \cup (Returned(dropped) \ donated)
  /\ kv' = [b \in Blocks |-> IF b \in free' THEN Blank ELSE kv[b]]
  /\ text' = [text EXCEPT ![r] = <<>>]
  /\ prefilled' = [prefilled EXCEPT ![r] = FALSE]
  /\ UNCHANGED <<window, dead>>

\* mutant: the table keeps listing the blocks it freed
DropButKeepTable(r) ==
  /\ ~dead /\ own[r] # <<>>
  /\ refcount' = RefAfter({r})
  /\ free' = free \cup Returned({r})
  /\ kv' = [b \in Blocks |-> IF b \in free' THEN Blank ELSE kv[b]]
  /\ text' = [text EXCEPT ![r] = <<>>]
  /\ prefilled' = [prefilled EXCEPT ![r] = FALSE]
  /\ window' = [window EXCEPT ![r] = 0]
  /\ UNCHANGED <<own, key, lru, dead>>

\* An abort or a preemption frees the table; an open window was drained before.
Drop(r) ==
  /\ ~dead /\ own[r] # <<>>
  /\ own' = [own EXCEPT ![r] = <<>>]
  /\ refcount' = RefAfter({r})
  /\ free' = free \cup Returned({r})
  /\ kv' = [b \in Blocks |-> IF b \in free' THEN Blank ELSE kv[b]]
  /\ text' = [text EXCEPT ![r] = <<>>]
  /\ prefilled' = [prefilled EXCEPT ![r] = FALSE]
  /\ window' = [window EXCEPT ![r] = 0]
  /\ UNCHANGED <<key, lru, dead>>

(* Lookup: the longest block-aligned prefix in the cache, at most one      *)
(* token short of the prompt; the reused blocks are shared, read-only.     *)
MatchBlocks(e, prompt) ==
  LET cap    == (Len(prompt) - 1) \div BlockSize
      common == CommonPrefixLen(key[e], prompt) \div BlockSize
  IN  IF common < cap THEN common ELSE cap

\* The i-th entry is the first in LRU order with the longest match.
Best(i, prompt) ==
  /\ MatchBlocks(lru[i], prompt) >= 1
  /\ \A j \in DOMAIN lru :
       IF j < i THEN MatchBlocks(lru[j], prompt) < MatchBlocks(lru[i], prompt)
                ELSE MatchBlocks(lru[j], prompt) <= MatchBlocks(lru[i], prompt)

Reused(e, m) == SubSeq(own[e], 1, m)

LookupHit(r, prompt) ==
  /\ ~dead /\ PrefixCache /\ ~prefilled[r] /\ own[r] = <<>>
  /\ \E i \in DOMAIN lru :
       LET m      == MatchBlocks(lru[i], prompt)
           reused == Reused(lru[i], m)
       IN
       /\ Best(i, prompt)
       /\ own' = [own EXCEPT ![r] = reused]
       /\ text' = [text EXCEPT ![r] = SubSeq(prompt, 1, m * BlockSize)]
       /\ refcount' = [b \in Blocks |-> refcount[b] + (IF b \in Range(reused) THEN 1 ELSE 0)]
       /\ lru' = Append(Without(lru, {lru[i]}), lru[i])
  /\ UNCHANGED <<free, prefilled, window, kv, key, dead>>

Clear ==
  /\ ~dead /\ lru # <<>>
  /\ own' = [o \in Owners |-> IF o \in Range(lru) THEN <<>> ELSE own[o]]
  /\ refcount' = RefAfter(Range(lru))
  /\ free' = free \cup Returned(Range(lru))
  /\ kv' = [b \in Blocks |-> IF b \in free' THEN Blank ELSE kv[b]]
  /\ key' = [e \in Entries |-> IF e \in Range(lru) THEN <<>> ELSE key[e]]
  /\ lru' = <<>>
  /\ UNCHANGED <<text, prefilled, window, dead>>

Prompts == UNION {[1..n -> Tokens] : n \in 1..MaxLen}

Next ==
  \/ \E r \in Requests :
       \/ \E toks \in Chunks : PrefillChunk(r, toks)
       \/ \E t \in Tokens : Decode(r, t) \/ PlannedDecode(r, t)
       \/ \E toks \in Chunks, kept \in 1..MaxWrite : Verify(r, toks, kept)
       \/ \E n \in 1..MaxWrite : OpenWindow(r, n) \/ OutOfBlocks(r, n)
       \/ CloseWindow(r) \/ Finish(r) \/ Drop(r)
       \/ \E prompt \in Prompts : LookupHit(r, prompt)
  \/ Clear

Spec == Init /\ [][Next]_vars

-----------------------------------------------------------------------------
(* Properties *)

TypeOK ==
  /\ free \subseteq Blocks
  /\ refcount \in [Blocks -> Nat]
  /\ own \in [Owners -> Seq(Blocks)]
  /\ text \in [Requests -> Seq(Tokens)]
  /\ prefilled \in [Requests -> BOOLEAN]
  /\ window \in [Requests -> 0..MaxWrite]
  /\ key \in [Entries -> Seq(Tokens)]
  /\ lru \in Seq(Entries)
  /\ dead \in BOOLEAN

Holders(b) == {o \in Owners : b \in Range(own[o])}

(* A block's reference count is the number of tables and cache entries     *)
(* that really hold it, and none holds it twice: BlockAllocator.free       *)
(* returns a block exactly when its last owner lets go.                    *)
RefcountExact ==
  /\ \A o \in Owners : IsInjective(own[o])
  /\ \A b \in Blocks : refcount[b] = Cardinality(Holders(b))

(* The free list holds exactly the blocks nobody references: no block is   *)
(* leaked by a fork, a copy-on-write, an eviction or a donation, and none  *)
(* is handed out while a table or a cache entry still holds it.            *)
FreeIffUnowned == free = {b \in Blocks : refcount[b] = 0}

(* Every position a request attends to was stored for its own history,     *)
(* whatever its siblings, the copy-on-write, the rollbacks and the reuse   *)
(* of blocks did in between (prepare_write, fork_shared, lookup).          *)
ReadsOwnHistory ==
  \A r \in Requests : \A pos \in 0..(Len(text[r]) - 1) :
    /\ BlockIndex(pos) <= Len(own[r])
    /\ kv[own[r][BlockIndex(pos)]][pos % BlockSize] = SubSeq(text[r], 1, pos + 1)

(* A cache entry still holds the KV of the tokens it is looked up by, to   *)
(* the last position of each block, until it is dropped (donate, lookup).  *)
CachedPrefixExact ==
  \A e \in Range(lru) :
    /\ Len(own[e]) * BlockSize = Len(key[e])
    /\ \A pos \in 0..(Len(key[e]) - 1) :
         kv[own[e][BlockIndex(pos)]][pos % BlockSize] = SubSeq(key[e], 1, pos + 1)

(* An append never starts in a full block that others read (prepare_write  *)
(* would raise "cannot write into a shared prompt block"), and takes       *)
(* exactly the blocks the dry run append_cost, on which preemption and     *)
(* reservation rely, counted for its growth and its copies.                *)
AppendCostExact ==
  \A r \in Requests, n \in 1..MaxWrite : ~dead /\ window[r] = 0 =>
    /\ ~OverwritesShared(r, n)
    /\ AppendCost(r, n) = Cardinality(NewBlocks(r, n))

(* While a window is open its precomputed slots stay valid: the table      *)
(* covers every remaining step, and no block of it is shared (write_rows   *)
(* stores with neither a table walk nor copy-on-write).                    *)
PlannedSlotsPrivate ==
  \A r \in Requests : window[r] > 0 =>
    /\ Len(text[r]) + window[r] <= Capacity(r)
    /\ \A b \in Range(own[r]) : Holders(b) = {r}

(* Inductive strengthening of the three accounting invariants: tables and  *)
(* cache entries hold as many blocks as their tokens need, and only a      *)
(* prefilled request is in a window.                                       *)
TablesCover ==
  /\ \A r \in Requests : Len(text[r]) <= Capacity(r)
  /\ \A e \in Entries : Len(own[e]) * BlockSize = Len(key[e])
  /\ \A r \in Requests : window[r] > 0 => prefilled[r]

IInv ==
  TypeOK /\ RefcountExact /\ FreeIffUnowned /\ PlannedSlotsPrivate /\ TablesCover
=============================================================================
