---------------------------- MODULE PagedKVProofs ----------------------------
(***************************************************************************)
(* Proofs about the paged cache, for every pool, every set of requests and *)
(* cache entries, every block size and every bound.                        *)
(*                                                                         *)
(* First the accounting: types, reference counts, the free list and the    *)
(* privacy of planned slots.  IInv is inductive: every action hands blocks *)
(* from a set of owners that let go to a set of owners that gain them; the *)
(* lemmas compute the holders of a block after each action, from which the *)
(* counts follow.                                                          *)
(*                                                                         *)
(* Then the contents: each slot a request reads or a cache entry is looked *)
(* up by holds the history it was written for, and the dry run of an       *)
(* append counts the blocks the append takes.  Both invariants are         *)
(* inductive beside IInv, which says who holds a block before and after a  *)
(* step; a store that touches a block of somebody else would have to be to *)
(* one that AppendKV did not copy, and those have one holder.              *)
(***************************************************************************)
EXTENDS PagedKV, CollectionLemmas

-----------------------------------------------------------------------------
(* Block arithmetic *)

(* Every position lies in some block. *)
LEMMA BlockOfNat ==
  ASSUME NEW n \in Nat
  PROVE  n \div BlockSize \in Nat
  BY PoolAssumption

(* BlocksFor(n) blocks are a natural number of blocks and hold n positions. *)
LEMMA BlocksForCovers ==
  ASSUME NEW n \in Nat
  PROVE  /\ BlocksFor(n) \in Nat
         /\ n <= BlocksFor(n) * BlockSize
<1>1. BlockSize \in Nat /\ BlockSize > 0
  BY PoolAssumption
<1> DEFINE m == n + BlockSize - 1
<1>2. m \in Nat
  BY <1>1
<1>3. /\ m \div BlockSize \in Nat
      /\ m = BlockSize * (m \div BlockSize) + (m % BlockSize)
      /\ m % BlockSize \in 0..(BlockSize - 1)
  BY <1>1, <1>2
<1> HIDE DEF m
<1>4. m - (BlockSize - 1) <= BlockSize * (m \div BlockSize)
  BY <1>1, <1>2, <1>3
<1>5. n = m - (BlockSize - 1)
  BY <1>1 DEF m
<1>6. BlocksFor(n) = m \div BlockSize
  BY DEF BlocksFor, m
<1> QED
  BY <1>1, <1>3, <1>4, <1>5, <1>6

(* More blocks hold at least as many positions. *)
LEMMA TimesMonotonic ==
  ASSUME NEW m \in Nat, NEW n \in Nat, m <= n
  PROVE  m * BlockSize <= n * BlockSize
<1>1. BlockSize \in Nat /\ n - m \in Nat
  BY PoolAssumption
<1>2. n * BlockSize = m * BlockSize + (n - m) * BlockSize /\ (n - m) * BlockSize >= 0
  BY <1>1
<1> QED
  BY <1>1, <1>2

(* The whole blocks among n positions of a table with q blocks are blocks of it. *)
LEMMA WholeBlocks ==
  ASSUME NEW n \in Nat, NEW q \in Nat, n <= q * BlockSize
  PROVE  /\ n \div BlockSize \in 0..q
         /\ (n \div BlockSize) * BlockSize <= n
<1>1. BlockSize \in Nat /\ BlockSize > 0
  BY PoolAssumption
<1>2. /\ n \div BlockSize \in Nat
      /\ n = BlockSize * (n \div BlockSize) + (n % BlockSize)
      /\ n % BlockSize \in 0..(BlockSize - 1)
  BY <1>1
<1> DEFINE d == n \div BlockSize
<1>3. d \in Nat /\ d * BlockSize <= n /\ n < (d + 1) * BlockSize
  BY <1>1, <1>2
<1> HIDE DEF d
<1>4. d <= q
  <2>1. SUFFICES ASSUME d > q PROVE FALSE
    BY <1>3
  <2>2. q + 1 <= d
    BY <1>3, <2>1
  <2>3. d = q + 1 + (d - q - 1) /\ d - q - 1 \in Nat
    BY <1>3, <2>2
  <2>4. d * BlockSize = q * BlockSize + BlockSize + (d - q - 1) * BlockSize
    BY <1>1, <1>3, <2>3
  <2>5. (d - q - 1) * BlockSize >= 0
    BY <1>1, <2>3
  <2> QED
    BY <1>1, <1>3, <2>4, <2>5
<1> QED
  BY <1>3, <1>4 DEF d

-----------------------------------------------------------------------------
(* The LRU order *)

(* Eviction stops at the first number of entries that suffices, at the      *)
(* latest when none is left.                                                *)
LEMMA EvictionsLeast ==
  ASSUME lru \in Seq(Entries), NEW need
  PROVE  /\ Evictions(need) \in 0..Len(lru)
         /\ Suffices(Evictions(need), need)
         /\ \A m \in 0..(Evictions(need) - 1) : ~Suffices(m, need)
<1> DEFINE T == {n \in 0..Len(lru) : Suffices(n, need)}
<1>1. Len(lru) \in Nat
  BY LenProperties
<1>2. Len(lru) \in T
  BY <1>1 DEF Suffices
<1>3. T \in SUBSET Nat
  BY <1>1
<1>4. PICK n \in T : \A m \in T : n <= m
  BY <1>2, <1>3, LeastOf, Zenon
<1>5. \A m \in 0..(n - 1) : ~Suffices(m, need)
  <2>1. SUFFICES ASSUME NEW m \in 0..(n - 1), Suffices(m, need) PROVE FALSE
    OBVIOUS
  <2>2. m \in T
    BY <1>1, <1>3, <1>4, <2>1
  <2> QED
    BY <1>1, <1>3, <1>4, <2>1, <2>2
<1>6. \E k \in 0..Len(lru) : Suffices(k, need) /\ \A m \in 0..(k - 1) : ~Suffices(m, need)
  BY <1>4, <1>5
<1> QED
  BY <1>6, Zenon DEF Evictions

LEMMA EvictionsInRange ==
  ASSUME lru \in Seq(Entries), NEW need
  PROVE  Evictions(need) \in 0..Len(lru)
  BY EvictionsLeast

(* The entries evicted for an allocation are cache entries. *)
LEMMA EvictedAreEntries ==
  ASSUME lru \in Seq(Entries), NEW need
  PROVE  /\ Evicted(need) \subseteq Entries
         /\ AfterEviction(need) \in Seq(Entries)
<1>1. Evictions(need) \in 0..Len(lru) /\ Len(lru) \in Nat
  BY EvictionsInRange, LenProperties
<1>2. \A i \in 1..Len(lru) : lru[i] \in Entries
  BY ElementOfSeq
<1>3. Evicted(need) \subseteq Entries
  BY <1>1, <1>2 DEF Evicted, Oldest
<1>4. \A i \in (Evictions(need) + 1)..Len(lru) : lru[i] \in Entries
  BY <1>1, <1>2
<1>5. AfterEviction(need) \in Seq(Entries)
  BY <1>1, <1>4, SubSeqProperties DEF AfterEviction
<1> QED
  BY <1>3, <1>5

-----------------------------------------------------------------------------
(* The prefix cache's match *)

(* Two sequences agree on their common prefix. *)
LEMMA CommonPrefixAgrees ==
  ASSUME NEW S, NEW s \in Seq(S), NEW t \in Seq(S)
  PROVE  /\ CommonPrefixLen(s, t) \in 0..Len(s) /\ CommonPrefixLen(s, t) <= Len(t)
         /\ SubSeq(s, 1, CommonPrefixLen(s, t)) = SubSeq(t, 1, CommonPrefixLen(s, t))
<1>1. /\ Len(s) \in Nat /\ DOMAIN s = 1..Len(s)
      /\ Len(t) \in Nat /\ DOMAIN t = 1..Len(t)
  BY LenProperties
<1> DEFINE Stops(n) == n = Len(s) \/ n = Len(t) \/ s[n + 1] # t[n + 1]
           T == {n \in Nat : Stops(n)}
<1>2. Len(s) \in T /\ Len(t) \in T /\ T \in SUBSET Nat
  BY <1>1
<1>3. PICK n \in T : \A m \in T : n <= m
  <2> HIDE DEF T
  <2> QED
    BY <1>2, LeastOf, Zenon
<1>4. n \in Nat /\ n <= Len(s) /\ n <= Len(t) /\ Stops(n)
  BY <1>1, <1>2, <1>3
<1>4a. n \in Nat /\ n <= Len(s) /\ n <= Len(t) /\ (n = Len(s) \/ n = Len(t) \/ s[n + 1] # t[n + 1])
  BY <1>4
<1>5. \A m \in 0..(n - 1) : s[m + 1] = t[m + 1]
  BY <1>3, <1>4
<1>6. \A i \in 1..n : s[i] = t[i]
  <2>1. TAKE i \in 1..n
  <2>2. i - 1 \in 0..(n - 1) /\ i - 1 + 1 = i
    BY <1>4
  <2> QED
    BY <1>5, <2>2
<1>7. SubSeq(s, 1, n) = SubSeq(t, 1, n)
  <2>1. /\ \A i \in 1..n : s[i] \in S
        /\ \A i \in 1..n : t[i] \in S
    BY <1>1, <1>4, ElementOfSeq
  <2>2. /\ SubSeq(s, 1, n) \in Seq(S) /\ Len(SubSeq(s, 1, n)) = n
        /\ \A i \in 1..n : SubSeq(s, 1, n)[i] = s[i]
    BY <1>4, <2>1, SubSeqProperties
  <2>3. /\ SubSeq(t, 1, n) \in Seq(S) /\ Len(SubSeq(t, 1, n)) = n
        /\ \A i \in 1..n : SubSeq(t, 1, n)[i] = t[i]
    BY <1>4, <2>1, SubSeqProperties
  <2> QED
    BY <1>6, <2>2, <2>3, SeqEqual
<1> HIDE DEF T
<1>8. \E k \in 0..Len(s) :
        /\ k <= Len(t) /\ SubSeq(s, 1, k) = SubSeq(t, 1, k)
        /\ k < Len(s) /\ k < Len(t) => s[k + 1] # t[k + 1]
  <2>1. n \in 0..Len(s)
    <3>1. n \in Nat /\ n <= Len(s) /\ Len(s) \in Nat
      BY <1>1, <1>4a
    <3> QED
      BY ONLY <3>1
  <2>2. n < Len(s) /\ n < Len(t) => s[n + 1] # t[n + 1]
    BY <1>4a
  <2> QED
    BY <1>4a, <1>7, <2>1, <2>2, Zenon
<1> QED
  BY <1>8, Zenon DEF CommonPrefixLen

(* The common prefix of two sequences is no longer than either of them. *)
LEMMA CommonPrefixInRange ==
  ASSUME NEW S, NEW s \in Seq(S), NEW t \in Seq(S)
  PROVE  CommonPrefixLen(s, t) \in 0..Len(s) /\ CommonPrefixLen(s, t) <= Len(t)
  BY CommonPrefixAgrees

(* A match is a number of whole blocks of the entry's key, and at most the  *)
(* blocks that leave one token of the prompt to compute.                    *)
LEMMA MatchInRange ==
  ASSUME NEW e \in Entries, key[e] \in Seq(Tokens), NEW q \in Nat, Len(key[e]) = q * BlockSize,
         NEW prompt \in Seq(Tokens), Len(prompt) > 0
  PROVE  /\ MatchBlocks(e, prompt) \in 0..q
         /\ MatchBlocks(e, prompt) * BlockSize < Len(prompt)
<1> DEFINE common == CommonPrefixLen(key[e], prompt)
           short  == Len(prompt) - 1
<1>1. BlockSize \in Nat /\ BlockSize > 0 /\ Len(prompt) \in Nat /\ Len(key[e]) \in Nat
  BY PoolAssumption, LenProperties
<1>2. common \in Nat /\ common <= Len(key[e])
  BY <1>1, CommonPrefixInRange
<1>3. short \in Nat /\ short < Len(prompt)
  BY <1>1
<1> HIDE DEF common, short
<1>4. common \div BlockSize \in 0..q
  BY <1>1, <1>2, WholeBlocks
<1>5. short <= short * BlockSize
  BY <1>1, <1>3
<1>6. short \div BlockSize \in Nat /\ (short \div BlockSize) * BlockSize <= short
  BY <1>3, <1>5, WholeBlocks
<1>7. MatchBlocks(e, prompt)
        = IF common \div BlockSize < short \div BlockSize THEN common \div BlockSize
          ELSE short \div BlockSize
  BY DEF MatchBlocks, common, short
<1> DEFINE c == common \div BlockSize
           d == short \div BlockSize
<1>8. c < d => c * BlockSize <= d * BlockSize
  <2> HIDE DEF c, d
  <2>1. SUFFICES ASSUME c < d PROVE c * BlockSize <= d * BlockSize
    OBVIOUS
  <2>2. c \in Nat /\ d \in Nat
    BY <1>4, <1>6 DEF c, d
  <2>3. d * BlockSize = c * BlockSize + (d - c) * BlockSize /\ (d - c) * BlockSize >= 0
    BY <1>1, <2>1, <2>2
  <2> QED
    BY <1>1, <2>2, <2>3
<1>9. MatchBlocks(e, prompt) = IF c < d THEN c ELSE d
  BY <1>7
<1>10. c \in 0..q /\ d \in Nat /\ d * BlockSize <= short
  BY <1>4, <1>6
<1> HIDE DEF c, d
<1> SUFFICES /\ (IF c < d THEN c ELSE d) \in 0..q
             /\ (IF c < d THEN c ELSE d) * BlockSize <= short
  BY <1>1, <1>3, <1>9
<1>11. CASE c < d
  BY <1>1, <1>3, <1>8, <1>10, <1>11
<1>12. CASE ~(c < d)
  <2>1. d \in 0..q
    BY <1>10, <1>12
  <2> QED
    BY <1>10, <1>12, <2>1
<1> QED
  BY <1>11, <1>12

-----------------------------------------------------------------------------
(* Reference counts *)

(* A block has finitely many holders. *)
LEMMA HoldersFinite ==
  ASSUME NEW b
  PROVE  Holders(b) \in SUBSET Owners /\ IsFiniteSet(Holders(b)) /\ Cardinality(Holders(b)) \in Nat
<1>1. IsFiniteSet(Owners)
  BY PoolAssumption, FS_Union DEF Owners
<1>2. Holders(b) \in SUBSET Owners
  BY DEF Holders
<1> QED
  BY <1>1, <1>2, FS_Subset, FS_CardinalityType

(* When the owners in D let go, a block keeps exactly its other holders, and *)
(* it returns to the pool when it had holders and all of them were in D.     *)
LEMMA ReleaseExact ==
  ASSUME RefcountExact, NEW D \in SUBSET Owners, NEW b \in Blocks
  PROVE  /\ RefAfter(D)[b] = Cardinality(Holders(b) \ D)
         /\ RefAfter(D)[b] \in Nat
         /\ b \in Returned(D) <=> Holders(b) # {} /\ Holders(b) \ D = {}
<1> DEFINE H == Holders(b)
<1>1. IsFiniteSet(H) /\ H \in SUBSET Owners /\ Cardinality(H) \in Nat
  BY HoldersFinite
<1>2. {o \in D : b \in Range(own[o])} = H \cap D
  BY DEF Holders
<1>3. refcount[b] = Cardinality(H)
  BY DEF RefcountExact
<1>4. RefAfter(D)[b] = Cardinality(H) - Cardinality(H \cap D)
  BY <1>2, <1>3 DEF RefAfter
<1> HIDE DEF H
<1>5. RefAfter(D)[b] = Cardinality(H \ D) /\ IsFiniteSet(H \ D)
  BY <1>1, <1>4, FS_Difference
<1>6. RefAfter(D)[b] \in Nat /\ (RefAfter(D)[b] = 0 <=> H \ D = {})
  BY <1>5, FS_CardinalityType, FS_EmptySet
<1>7. refcount[b] > 0 <=> H # {}
  BY <1>1, <1>3, FS_EmptySet
<1>8. b \in Returned(D) <=> refcount[b] > 0 /\ RefAfter(D)[b] = 0
  BY DEF Returned
<1> QED
  BY <1>5, <1>6, <1>7, <1>8 DEF H

(* After D let go, the pool offers exactly the blocks nobody else holds. *)
LEMMA AvailableExact ==
  ASSUME RefcountExact, FreeIffUnowned, NEW D \in SUBSET Owners, NEW b \in Blocks
  PROVE  /\ b \in free \cup Returned(D) <=> Holders(b) \ D = {}
         /\ b \in free <=> Holders(b) = {}
<1>1. b \in Returned(D) <=> Holders(b) # {} /\ Holders(b) \ D = {}
  BY ReleaseExact
<1>2. IsFiniteSet(Holders(b)) /\ refcount[b] = Cardinality(Holders(b))
  BY HoldersFinite DEF RefcountExact
<1>3. b \in free <=> Holders(b) = {}
  BY <1>2, FS_EmptySet DEF FreeIffUnowned
<1> QED
  BY <1>1, <1>3

-----------------------------------------------------------------------------
(* Tables *)

(* A table: blocks without repetition. *)
IsTable(t) == t \in Seq(Blocks) /\ IsInjective(t)

(* Fresh blocks, none of them in r's table, for the indices in new, which    *)
(* extend the table to `last` blocks.                                        *)
Patches(r, fresh, new, avail, last) ==
  /\ IsTable(own[r])
  /\ avail \subseteq Blocks /\ \A b \in Range(own[r]) : b \notin avail
  /\ fresh \in [new -> avail] /\ IsInjective(fresh)
  /\ last \in Nat /\ \A i : i \in 1..last <=> i \in 1..Len(own[r]) \/ i \in new

(* A patched table is a table of the old blocks that were not replaced and   *)
(* of fresh ones.                                                            *)
LEMMA PatchedTable ==
  ASSUME NEW r, NEW avail, NEW new, NEW fresh, NEW last, Patches(r, fresh, new, avail, last)
  PROVE  /\ IsTable(Patched(r, fresh))
         /\ Len(Patched(r, fresh)) = last
         /\ Range(Patched(r, fresh)) \subseteq Range(own[r]) \cup avail
         /\ Range(fresh) \subseteq avail
         /\ new \cap (1..Len(own[r])) = {} =>
              Range(Patched(r, fresh)) = Range(own[r]) \cup Range(fresh)
<1> DEFINE t == Patched(r, fresh)
           o == own[r]
<1>1. Len(o) \in Nat /\ DOMAIN o = 1..Len(o) /\ \A i \in 1..Len(o) : o[i] \in Blocks /\ o[i] \notin avail
  BY LenProperties, ElementOfSeq DEF Range, Patches, IsTable
<1>2. /\ fresh \in [new -> avail] /\ DOMAIN fresh = new /\ avail \subseteq Blocks
      /\ last \in Nat /\ \A i : i \in 1..last <=> i \in 1..Len(o) \/ i \in new
  BY DEF Patches
<1>3. /\ \A i, j \in new : fresh[i] = fresh[j] => i = j
      /\ \A i, j \in 1..Len(o) : o[i] = o[j] => i = j
  BY <1>1, <1>2, Zenon DEF IsInjective, Patches, IsTable
<1>4. t = [i \in 1..last |-> IF i \in new THEN fresh[i] ELSE o[i]]
  <2>1. DOMAIN own[r] \cup DOMAIN fresh = 1..last
    BY <1>1, <1>2
  <2>2. \A i : i \in DOMAIN fresh <=> i \in new
    BY <1>2
  <2> QED
    BY <2>1, <2>2 DEF Patched
<1> HIDE DEF t, o
<1>5. \A i \in 1..last : \/ i \in new /\ t[i] = fresh[i] /\ t[i] \in avail
                         \/ i \in 1..Len(o) /\ i \notin new /\ t[i] = o[i] /\ t[i] \in Blocks /\ t[i] \notin avail
  BY <1>1, <1>2, <1>4
<1>6. t \in Seq(Blocks) /\ Len(t) = last /\ DOMAIN t = 1..last
  BY <1>2, <1>4, <1>5
<1>7. \A i, j \in 1..last : t[i] = t[j] => i = j
  BY <1>3, <1>5
<1>8. \A x \in Range(t) : x \in Range(o) \/ x \in avail
  <2>1. TAKE x \in Range(t)
  <2>2. PICK i \in 1..last : x = t[i]
    BY <1>6 DEF Range
  <2> QED
    BY <1>1, <1>5, <2>2 DEF Range
<1>9. Range(fresh) \subseteq avail
  BY <1>2 DEF Range
<1>10. ASSUME new \cap (1..Len(o)) = {}
       PROVE  Range(t) = Range(o) \cup Range(fresh)
  <2>1. \A x \in Range(t) : x \in Range(o) \cup Range(fresh)
    <3>1. TAKE x \in Range(t)
    <3>2. PICK i \in 1..last : x = t[i]
      BY <1>6 DEF Range
    <3> QED
      BY <1>1, <1>2, <1>5, <3>2 DEF Range
  <2>2. \A x \in Range(fresh) : x \in Range(t)
    <3>1. TAKE x \in Range(fresh)
    <3>2. PICK i \in new : x = fresh[i]
      BY <1>2 DEF Range
    <3>3. i \in 1..last /\ t[i] = x
      BY <1>2, <1>4, <3>2
    <3> QED
      BY <1>6, <3>3 DEF Range
  <2>3. \A x \in Range(o) : x \in Range(t)
    <3>1. TAKE x \in Range(o)
    <3>2. PICK i \in 1..Len(o) : x = o[i]
      BY <1>1 DEF Range
    <3>3. i \in 1..last /\ i \notin new
      BY <1>2, <1>10, <3>2
    <3>4. t[i] = x
      BY <1>4, <3>2, <3>3
    <3> QED
      BY <1>6, <3>3, <3>4 DEF Range
  <2> QED
    BY <2>1, <2>2, <2>3
<1>11. IsTable(t)
  BY <1>6, <1>7, Zenon DEF IsInjective, IsTable
<1>12. Range(t) \subseteq Range(own[r]) \cup avail
  BY <1>8 DEF o
<1> QED
  BY <1>6, <1>9, <1>10, <1>11, <1>12, Zenon DEF t, o

-----------------------------------------------------------------------------
(* The accounting of the pool *)

(* Types and counts of the pool. *)
Accounted ==
  /\ own \in [Owners -> Seq(Blocks)]
  /\ refcount \in [Blocks -> Nat]
  /\ free \subseteq Blocks
  /\ RefcountExact /\ FreeIffUnowned

(* A block that one request outside S holds alone stays with it. *)
OthersKeep(S) ==
  \A q \in Requests, b \in Blocks : q \notin S /\ Holders(b) = {q} => Holders(b)' = {q}

(* Counts and free list follow from the new holders of every block. *)
LEMMA AccountedStep ==
  ASSUME own' \in [Owners -> Seq(Blocks)], \A o \in Owners : IsInjective(own'[o]),
         refcount' \in [Blocks -> Nat], free' \subseteq Blocks,
         \A b \in Blocks : /\ refcount'[b] = Cardinality(Holders(b)')
                           /\ b \in free' <=> Holders(b)' = {}
  PROVE  Accounted'
<1>1. \A b \in Blocks : refcount'[b] = 0 <=> Holders(b)' = {}
  <2>1. TAKE b \in Blocks
  <2>2. Holders(b)' \subseteq Owners /\ IsFiniteSet(Owners)
    BY PoolAssumption, FS_Union DEF Holders, Owners
  <2>3. IsFiniteSet(Holders(b)')
    BY <2>2, FS_Subset
  <2> QED
    BY <2>3, FS_EmptySet
<1>2. FreeIffUnowned'
  BY <1>1 DEF FreeIffUnowned
<1>3. RefcountExact'
  BY DEF RefcountExact
<1> QED
  BY <1>2, <1>3 DEF Accounted, Owners

(* r's table becomes tbl, made of its own blocks and of blocks the pool      *)
(* offers once the entries in E are evicted; the siblings fork it.           *)
Takes(r, E, siblings, tbl) ==
  /\ r \in Requests /\ E \subseteq Entries
  /\ siblings \subseteq Requests /\ r \notin siblings
  /\ \A s \in siblings : own[s] = <<>>
  /\ IsTable(tbl)
  /\ \A b \in Range(tbl) : b \in Range(own[r]) \/ b \in free \cup Returned(E)
  /\ own' = [o \in Owners |-> IF o = r \/ o \in siblings THEN tbl
                              ELSE IF o \in E THEN <<>> ELSE own[o]]
  /\ refcount' = [b \in Blocks |->
       (IF b \in Range(tbl) \ Range(own[r]) THEN 1
        ELSE RefAfter(E)[b] - (IF b \in Range(own[r]) \ Range(tbl) THEN 1 ELSE 0))
       + (IF b \in Range(tbl) THEN Cardinality(siblings) ELSE 0)]
  /\ free' = ((free \cup Returned(E)) \ (Range(tbl) \ Range(own[r])))
               \cup {b \in Range(own[r]) \ Range(tbl) : RefAfter(E)[b] = 1}

(* Taking blocks keeps counts and free list exact, and touches no block that *)
(* only another request holds.                                               *)
LEMMA TakeBlocks ==
  ASSUME Accounted, NEW r, NEW E, NEW siblings, NEW tbl, Takes(r, E, siblings, tbl)
  PROVE  Accounted' /\ OthersKeep(siblings \cup {r})
<1> DEFINE old == Range(own[r])
           cur == Range(tbl)
<1>0. /\ r \in Requests /\ E \subseteq Entries
      /\ siblings \subseteq Requests /\ r \notin siblings
      /\ \A s \in siblings : own[s] = <<>>
      /\ tbl \in Seq(Blocks) /\ IsInjective(tbl)
      /\ RefcountExact /\ FreeIffUnowned
  BY DEF Takes, IsTable, Accounted
<1>0a. \A b \in Range(tbl) : b \in Range(own[r]) \/ b \in free \cup Returned(E)
  BY DEF Takes
<1>0b. own' = [o \in Owners |-> IF o = r \/ o \in siblings THEN tbl
                                ELSE IF o \in E THEN <<>> ELSE own[o]]
  BY DEF Takes
<1>0c. refcount' = [b \in Blocks |->
         (IF b \in Range(tbl) \ Range(own[r]) THEN 1
          ELSE RefAfter(E)[b] - (IF b \in Range(own[r]) \ Range(tbl) THEN 1 ELSE 0))
         + (IF b \in Range(tbl) THEN Cardinality(siblings) ELSE 0)]
  BY DEF Takes
<1>0d. free' = ((free \cup Returned(E)) \ (Range(tbl) \ Range(own[r])))
                 \cup {b \in Range(own[r]) \ Range(tbl) : RefAfter(E)[b] = 1}
  BY DEF Takes
<1>1. /\ own \in [Owners -> Seq(Blocks)] /\ refcount \in [Blocks -> Nat] /\ free \subseteq Blocks
      /\ r \in Owners /\ siblings \subseteq Owners /\ E \subseteq Owners
      /\ r \notin E /\ siblings \cap E = {}
  BY <1>0, PoolAssumption DEF Accounted, Owners
<1>2. <<>> \in Seq(Blocks) /\ IsInjective(<<>>) /\ Range(<<>>) = {}
  BY EmptySeq DEF IsInjective, Range
<1>3. IsFiniteSet(siblings) /\ Cardinality(siblings) \in Nat
  BY <1>0, PoolAssumption, FS_Subset, FS_CardinalityType
<1>4. own' \in [Owners -> Seq(Blocks)]
  BY <1>0, <1>0b, <1>1, <1>2
<1>5. \A o \in Owners : IsInjective(own'[o])
  <2>1. TAKE o \in Owners
  <2>2. IsInjective(own[o])
    BY <1>0 DEF RefcountExact
  <2>3. own'[o] \in {tbl, <<>>, own[o]}
    BY <1>0b
  <2> QED
    BY <1>0, <1>2, <2>2, <2>3
<1>6. \A o \in Owners : Range(own'[o]) = IF o = r \/ o \in siblings THEN cur
                                        ELSE IF o \in E THEN {} ELSE Range(own[o])
  BY <1>0b, <1>2
<1>7. \A b \in Blocks : \A s \in siblings : s \notin Holders(b)
  BY <1>0, <1>1, <1>2 DEF Holders
<1>8. \A b \in Blocks : r \in Holders(b) <=> b \in old
  BY <1>1 DEF Holders
<1>9. \A b \in Blocks : b \in cur =>
        b \in old \/ Holders(b) \ E = {}
  <2>1. TAKE b \in Blocks
  <2>2. b \in free \cup Returned(E) <=> Holders(b) \ E = {}
    BY <1>0, <1>1, AvailableExact
  <2> QED
    BY <1>0a, <2>2
<1>10. \A b \in Blocks :
         Holders(b)' = (Holders(b) \ (E \cup {r})) \cup (IF b \in cur THEN {r} \cup siblings ELSE {})
  <2>1. TAKE b \in Blocks
  <2>2. Holders(b)' = {o \in Owners : b \in Range(own'[o])}
    BY DEF Holders, Owners
  <2>3. \A o \in Owners : o \in Holders(b) <=> b \in Range(own[o])
    BY DEF Holders
  <2>4. Holders(b) \subseteq Owners
    BY DEF Holders
  <2> HIDE DEF cur
  <2> QED
    BY <1>1, <1>6, <1>7, <2>2, <2>3, <2>4
<1> HIDE DEF old, cur
<1>11. \A b \in Blocks :
         /\ refcount'[b] = Cardinality(Holders(b)')
         /\ refcount'[b] \in Nat
         /\ b \in free' <=> Holders(b)' = {}
  <2>1. TAKE b \in Blocks
  <2> DEFINE H == Holders(b)
  <2>2. IsFiniteSet(H) /\ siblings \cap H = {}
    BY <1>7, HoldersFinite
  <2>3. RefAfter(E)[b] = Cardinality(H \ E) /\ RefAfter(E)[b] \in Nat
    BY <1>0, <1>1, ReleaseExact
  <2>4. refcount'[b] = (IF b \in cur \ old THEN 1
                        ELSE RefAfter(E)[b] - (IF b \in old \ cur THEN 1 ELSE 0))
                       + (IF b \in cur THEN Cardinality(siblings) ELSE 0)
    BY <1>0c DEF old, cur
  <2>5. b \in free' <=> \/ Holders(b) \ E = {} /\ ~(b \in cur \ old)
                        \/ b \in old \ cur /\ RefAfter(E)[b] = 1
    <3>1. b \in free \cup Returned(E) <=> Holders(b) \ E = {}
      BY <1>0, <1>1, AvailableExact
    <3> QED
      BY <1>0d, <3>1 DEF old, cur
  <2>6. /\ r \in H => Cardinality(H \ (E \cup {r})) = Cardinality(H \ E) - 1
        /\ r \notin H => Cardinality(H \ (E \cup {r})) = Cardinality(H \ E)
        /\ r \in H => Cardinality((H \ (E \cup {r})) \cup {r} \cup siblings)
                        = Cardinality(H \ E) + Cardinality(siblings)
        /\ H \ E = {} => Cardinality((H \ (E \cup {r})) \cup {r} \cup siblings)
                           = 1 + Cardinality(siblings)
    <3>0. /\ IsFiniteSet(H) /\ IsFiniteSet(siblings) /\ r \notin E /\ r \notin siblings
          /\ \A o \in siblings : o \notin H /\ o \notin E
      BY <1>0, <1>1, <1>3, <2>2
    <3> HIDE DEF H
    <3>1. IsFiniteSet(H \ E) /\ Cardinality(H \ E) \in Nat
      BY <3>0, FS_Difference, FS_CardinalityType
    <3>2. H \ (E \cup {r}) = (H \ E) \ {r}
      BY <3>0
    <3>3. Cardinality((H \ E) \ {r}) = IF r \in H \ E THEN Cardinality(H \ E) - 1 ELSE Cardinality(H \ E)
      BY <3>0, <3>1, FS_RemoveElement
    <3>4. ASSUME r \in H
          PROVE  Cardinality((H \ (E \cup {r})) \cup {r} \cup siblings) = Cardinality(H \ E) + Cardinality(siblings)
      <4>1. (H \ (E \cup {r})) \cup {r} \cup siblings = (H \ E) \cup siblings
        BY <3>0, <3>4
      <4>2. (H \ E) \cap siblings = {}
        BY <3>0
      <4>3. Cardinality(siblings) \in Nat /\ Cardinality({}) = 0
        BY <3>0, FS_CardinalityType, FS_EmptySet
      <4>4. Cardinality((H \ E) \cup siblings)
              = Cardinality(H \ E) + Cardinality(siblings) - Cardinality((H \ E) \cap siblings)
        BY <3>0, <3>1, FS_Union
      <4>5. Cardinality((H \ E) \cap siblings) = 0
        BY <3>0, <4>2, <4>3, Zenon
      <4>6. Cardinality((H \ E) \cup siblings) = Cardinality(H \ E) + Cardinality(siblings)
        BY <3>0, <3>1, <4>3, <4>4, <4>5
      <4> QED
        BY <3>0, <4>1, <4>6, Zenon
    <3>5. ASSUME H \ E = {}
          PROVE  Cardinality((H \ (E \cup {r})) \cup {r} \cup siblings) = 1 + Cardinality(siblings)
      <4>1. (H \ (E \cup {r})) \cup {r} \cup siblings = siblings \cup {r}
        BY <3>0, <3>5
      <4>2. Cardinality(siblings) \in Nat
        BY <3>0, FS_CardinalityType
      <4>3. Cardinality(siblings \cup {r}) = Cardinality(siblings) + 1
        BY <3>0, FS_AddElement
      <4>4. Cardinality(siblings \cup {r}) = 1 + Cardinality(siblings)
        BY <3>0, <4>2, <4>3
      <4> QED
        BY <3>0, <4>1, <4>4, Zenon
    <3>6. Cardinality(H \ (E \cup {r})) = Cardinality((H \ E) \ {r})
      BY <3>2, Zenon
    <3> DEFINE c == Cardinality(H \ (E \cup {r}))
               d == Cardinality((H \ E) \ {r})
    <3>7. /\ r \in H => c = Cardinality(H \ E) - 1
          /\ r \notin H => c = Cardinality(H \ E)
      <4>1. c = d /\ d = IF r \in H \ E THEN Cardinality(H \ E) - 1 ELSE Cardinality(H \ E)
        BY <3>3, <3>6
      <4> HIDE DEF c, d
      <4> QED
        BY <3>0, <4>1
    <3> QED
      BY <3>4, <3>5, <3>7, Zenon
  <2>7. r \in H => r \in H \ E
    BY <1>1
  <2>8. IsFiniteSet(H \ E) /\ Cardinality(H \ E) \in Nat /\ (Cardinality(H \ E) = 0 <=> H \ E = {})
    BY <2>2, FS_Difference, FS_CardinalityType, FS_EmptySet
  <2>9. IsFiniteSet(H \ (E \cup {r})) /\ Cardinality(H \ (E \cup {r})) \in Nat
        /\ (Cardinality(H \ (E \cup {r})) = 0 <=> H \ (E \cup {r}) = {})
    BY <2>2, FS_Difference, FS_CardinalityType, FS_EmptySet
  <2>10. r \in H <=> b \in old
    BY <1>8
  <2>11. CASE b \in cur
    <3>1. Holders(b)' = (H \ (E \cup {r})) \cup {r} \cup siblings
      BY <1>10, <2>11
    <3>2. b \in old \/ H \ E = {}
      BY <1>9, <2>11
    <3>3. CASE b \in old
      <4>1. refcount'[b] = Cardinality(H \ E) + Cardinality(siblings)
        BY <1>3, <2>3, <2>4, <2>8, <2>11, <3>3
      <4>2. refcount'[b] = Cardinality(Holders(b)')
        BY <2>6, <2>10, <3>1, <3>3, <4>1
      <4> QED
        BY <1>3, <2>5, <2>7, <2>8, <2>10, <2>11, <3>1, <3>3, <4>1, <4>2
    <3>4. CASE b \notin old
      <4>1. refcount'[b] = 1 + Cardinality(siblings)
        BY <1>3, <2>4, <2>11, <3>4
      <4>2. refcount'[b] = Cardinality(Holders(b)')
        BY <2>6, <3>1, <3>2, <3>4, <4>1
      <4> QED
        BY <1>3, <2>5, <2>11, <3>1, <3>4, <4>1, <4>2
    <3> QED
      BY <3>3, <3>4
  <2>12. CASE b \notin cur
    <3>1. Holders(b)' = H \ (E \cup {r})
      BY <1>10, <2>12
    <3>2. CASE b \in old
      <4>1. refcount'[b] = Cardinality(H \ E) - 1
        BY <2>3, <2>4, <2>8, <2>12, <3>2
      <4>2. refcount'[b] = Cardinality(Holders(b)')
        BY <2>6, <2>10, <3>1, <3>2, <4>1
      <4>3. H \ E # {}
        BY <2>7, <2>10, <3>2
      <4>4. b \in free' <=> Cardinality(H \ E) = 1
        BY <2>3, <2>5, <2>12, <3>2, <4>3
      <4> QED
        BY <2>6, <2>8, <2>9, <2>10, <3>1, <3>2, <4>1, <4>2, <4>4
    <3>3. CASE b \notin old
      <4>1. refcount'[b] = Cardinality(H \ E)
        BY <2>3, <2>4, <2>8, <2>12, <3>3
      <4>2. refcount'[b] = Cardinality(Holders(b)')
        BY <2>6, <2>10, <3>1, <3>3, <4>1
      <4>3. Holders(b)' = H \ E
        BY <2>10, <3>1, <3>3
      <4> QED
        BY <2>5, <2>8, <2>12, <3>3, <4>1, <4>2, <4>3
    <3> QED
      BY <3>2, <3>3
  <2> QED
    BY <2>11, <2>12
<1>12. refcount' \in [Blocks -> Nat]
  BY <1>0c, <1>11
<1>13. free' \subseteq Blocks
  <2>1. Returned(E) \subseteq Blocks /\ Range(own[r]) \subseteq Blocks
    BY <1>1, RangeOfSeq DEF Returned
  <2> QED
    BY <1>0d, <1>1, <2>1
<1>14. Accounted'
  BY <1>4, <1>5, <1>11, <1>12, <1>13, AccountedStep
<1>15. OthersKeep(siblings \cup {r})
  <2>1. SUFFICES ASSUME NEW q \in Requests, NEW b \in Blocks,
                        q # r, q \notin siblings, Holders(b) = {q}
                 PROVE  Holders(b)' = {q}
    BY DEF OthersKeep
  <2>2. q \notin E
    BY <1>0, PoolAssumption
  <2>3. b \notin cur
    BY <1>8, <1>9, <2>1, <2>2
  <2> QED
    BY <1>10, <2>1, <2>2, <2>3
<1> QED
  BY <1>14, <1>15

(* The owners in D let go of their blocks, and e, which holds nothing else,  *)
(* takes blocks of the donor.                                                *)
HandsOver(D, e, donor, tbl) ==
  /\ D \subseteq Owners /\ donor \in Owners
  /\ e \in Owners /\ (e \in D \/ own[e] = <<>>)
  /\ IsTable(tbl) /\ Range(tbl) \subseteq Range(own[donor])
  /\ own' = [o \in Owners |-> IF o = e THEN tbl ELSE IF o \in D THEN <<>> ELSE own[o]]
  /\ refcount' = [b \in Blocks |-> RefAfter(D)[b] + (IF b \in Range(tbl) THEN 1 ELSE 0)]
  /\ free' = free \cup (Returned(D) \ Range(tbl))

(* Handing blocks over keeps counts and free list exact, and touches no      *)
(* block that only another request holds.                                    *)
LEMMA HandOver ==
  ASSUME Accounted, NEW D, NEW e, NEW donor, NEW tbl, HandsOver(D, e, donor, tbl)
  PROVE  Accounted' /\ OthersKeep(D \cup {e, donor})
<1> DEFINE cur == Range(tbl)
<1>0. /\ D \in SUBSET Owners /\ donor \in Owners /\ e \in Owners
      /\ e \in D \/ own[e] = <<>>
      /\ tbl \in Seq(Blocks) /\ IsInjective(tbl)
      /\ RefcountExact /\ FreeIffUnowned
  BY DEF HandsOver, IsTable, Accounted
<1>0a. Range(tbl) \subseteq Range(own[donor])
  BY DEF HandsOver
<1>0b. own' = [o \in Owners |-> IF o = e THEN tbl ELSE IF o \in D THEN <<>> ELSE own[o]]
  BY DEF HandsOver
<1>0c. refcount' = [b \in Blocks |-> RefAfter(D)[b] + (IF b \in Range(tbl) THEN 1 ELSE 0)]
  BY DEF HandsOver
<1>0d. free' = free \cup (Returned(D) \ Range(tbl))
  BY DEF HandsOver
<1>1. own \in [Owners -> Seq(Blocks)] /\ refcount \in [Blocks -> Nat] /\ free \subseteq Blocks
  BY DEF Accounted
<1>2. <<>> \in Seq(Blocks) /\ IsInjective(<<>>) /\ Range(<<>>) = {}
  BY EmptySeq DEF IsInjective, Range
<1>3. own' \in [Owners -> Seq(Blocks)]
  BY <1>0, <1>0b, <1>1, <1>2
<1>4. \A o \in Owners : IsInjective(own'[o])
  <2>1. TAKE o \in Owners
  <2>2. IsInjective(own[o]) /\ own'[o] \in {tbl, <<>>, own[o]}
    BY <1>0, <1>0b DEF RefcountExact
  <2> QED
    BY <1>0, <1>2, <2>2
<1>5. \A o \in Owners : Range(own'[o]) = IF o = e THEN cur ELSE IF o \in D THEN {} ELSE Range(own[o])
  BY <1>0b, <1>2
<1>6. \A b \in Blocks : e \notin Holders(b) \ D
  BY <1>0, <1>2 DEF Holders
<1>7. \A b \in Blocks : b \in cur => donor \in Holders(b)
  BY <1>0, <1>0a DEF Holders
<1>8. \A b \in Blocks : Holders(b)' = (Holders(b) \ D) \cup (IF b \in cur THEN {e} ELSE {})
  <2>1. TAKE b \in Blocks
  <2>2. Holders(b)' = {o \in Owners : b \in Range(own'[o])}
    BY DEF Holders, Owners
  <2>3. Holders(b) \subseteq Owners /\ \A o \in Owners : o \in Holders(b) <=> b \in Range(own[o])
    BY DEF Holders
  <2> HIDE DEF cur
  <2> QED
    BY <1>0, <1>5, <1>6, <2>2, <2>3
<1> HIDE DEF cur
<1>9. \A b \in Blocks :
        /\ refcount'[b] = Cardinality(Holders(b)')
        /\ refcount'[b] \in Nat
        /\ b \in free' <=> Holders(b)' = {}
  <2>1. TAKE b \in Blocks
  <2> DEFINE rest == Holders(b) \ D
  <2>2. IsFiniteSet(rest) /\ Cardinality(rest) \in Nat
    BY HoldersFinite, FS_Difference, FS_CardinalityType
  <2>3. refcount'[b] = Cardinality(rest) + (IF b \in cur THEN 1 ELSE 0)
    BY <1>0, <1>0c, <1>1, ReleaseExact DEF cur
  <2>4. b \in free' <=> (b \in free \/ (b \in free \cup Returned(D) /\ b \notin cur))
    BY <1>0d DEF cur
  <2>5. b \in free \cup Returned(D) <=> rest = {}
    BY <1>0, AvailableExact
  <2>6. b \in free <=> Holders(b) = {}
    BY <1>0, AvailableExact
  <2>7. Holders(b)' = rest \cup (IF b \in cur THEN {e} ELSE {}) /\ e \notin rest
    BY <1>6, <1>8
  <2>8. b \in cur => b \notin free
    BY <1>7, <2>6
  <2>9. b \in free => rest = {}
    BY <2>6
  <2> HIDE DEF rest
  <2>10. CASE b \in cur
    <3>1. Holders(b)' = rest \cup {e}
      BY <2>7, <2>10
    <3>2. Cardinality(rest \cup {e}) = Cardinality(rest) + 1
      BY <2>2, <2>7, FS_AddElement
    <3>3. refcount'[b] = Cardinality(Holders(b)') /\ Holders(b)' # {}
      BY <2>2, <2>3, <2>10, <3>1, <3>2
    <3> QED
      BY <2>2, <2>3, <2>4, <2>8, <2>10, <3>3
  <2>11. CASE b \notin cur
    <3>1. Holders(b)' = rest
      BY <2>7, <2>11
    <3> QED
      BY <2>2, <2>3, <2>4, <2>5, <2>9, <2>11, <3>1
  <2> QED
    BY <2>10, <2>11
<1>10. refcount' \in [Blocks -> Nat]
  BY <1>0c, <1>9
<1>11. free' \subseteq Blocks
  BY <1>0d, <1>1 DEF Returned
<1>12. Accounted'
  BY <1>3, <1>4, <1>9, <1>10, <1>11, AccountedStep
<1>13. OthersKeep(D \cup {e, donor})
  <2>1. SUFFICES ASSUME NEW q \in Requests, NEW b \in Blocks,
                        q \notin D, q # e, q # donor, Holders(b) = {q}
                 PROVE  Holders(b)' = {q}
    BY DEF OthersKeep
  <2>2. b \notin cur
    BY <1>7, <2>1
  <2> QED
    BY <1>8, <2>1, <2>2
<1> QED
  BY <1>12, <1>13

-----------------------------------------------------------------------------
(* The indices that take a block extend the old table to a longer one. *)
LEMMA NewBlocksExtend ==
  ASSUME NEW r \in Requests, own[r] \in Seq(Blocks), text[r] \in Seq(Tokens), NEW count \in Nat,
         NEW need, need = BlocksFor(Len(text[r]) + count),
         NEW last, last = IF Len(own[r]) > need THEN Len(own[r]) ELSE need
  PROVE  /\ need \in Nat /\ last \in Nat /\ need <= last
         /\ Len(text[r]) + count <= need * BlockSize
         /\ \A i : i \in 1..last <=> i \in 1..Len(own[r]) \/ i \in Growth(r, count)
         /\ \A i : i \in 1..last <=> i \in 1..Len(own[r]) \/ i \in NewBlocks(r, count)
<1>1. Len(own[r]) \in Nat /\ Len(text[r]) \in Nat
  BY LenProperties
<1>2. need \in Nat /\ Len(text[r]) + count <= need * BlockSize
  <2>1. Len(text[r]) + count \in Nat
    BY <1>1
  <2> QED
    BY <2>1, BlocksForCovers
<1>3. Growth(r, count) = (Len(own[r]) + 1)..need
  BY DEF Growth
<1>4. Copied(r, count) \subseteq 1..Len(own[r])
  <2>1. BlockIndex(Len(text[r])) \in Nat /\ BlockIndex(Len(text[r])) >= 1
    <3>1. Len(text[r]) \div BlockSize \in Nat
      BY <1>1, BlockOfNat
    <3>2. BlockIndex(Len(text[r])) = Len(text[r]) \div BlockSize + 1
      BY DEF BlockIndex
    <3> QED
      BY <3>1, <3>2
  <2>2. \A i \in Copied(r, count) : i \in BlockIndex(Len(text[r]))..need /\ i <= Len(own[r])
    BY DEF Copied
  <2> QED
    BY <1>1, <1>2, <2>1, <2>2
<1>5. last \in Nat /\ need <= last
  BY <1>1, <1>2
<1>6. \A i : i \in 1..last <=> i \in 1..Len(own[r]) \/ i \in Growth(r, count)
  BY <1>1, <1>2, <1>3
<1>7. \A i : i \in 1..last <=> i \in 1..Len(own[r]) \/ i \in NewBlocks(r, count)
  BY <1>4, <1>6, Zenon DEF NewBlocks
<1> QED
  BY <1>2, <1>5, <1>6, <1>7

(* ... and so do the indices of the growth alone. *)
LEMMA GrowthExtends ==
  ASSUME NEW r \in Requests, own[r] \in Seq(Blocks), text[r] \in Seq(Tokens), NEW count \in Nat,
         NEW need, need = BlocksFor(Len(text[r]) + count),
         NEW last, last = IF Len(own[r]) > need THEN Len(own[r]) ELSE need
  PROVE  \A i : i \in 1..last <=> i \in 1..Len(own[r]) \/ i \in Growth(r, count)
<1>1. Len(own[r]) \in Nat /\ Len(text[r]) + count \in Nat
  BY LenProperties
<1>2. need \in Nat
  BY <1>1, BlocksForCovers
<1>3. Growth(r, count) = (Len(own[r]) + 1)..need
  BY DEF Growth
<1> QED
  BY <1>1, <1>2, <1>3

(* A prefix of a table without repetition is one too. *)
LEMMA TablePrefix ==
  ASSUME NEW t, IsTable(t), NEW n \in 0..Len(t)
  PROVE  /\ IsTable(SubSeq(t, 1, n))
         /\ Len(SubSeq(t, 1, n)) = n
         /\ Range(SubSeq(t, 1, n)) = {t[i] : i \in 1..n}
         /\ Range(SubSeq(t, 1, n)) \subseteq Range(t)
<1> DEFINE p == SubSeq(t, 1, n)
<1>1. Len(t) \in Nat /\ DOMAIN t = 1..Len(t) /\ \A i \in 1..Len(t) : t[i] \in Blocks
  BY LenProperties, ElementOfSeq DEF IsTable
<1>2. n \in Nat /\ n <= Len(t) /\ \A i \in 1..n : t[i] \in Blocks
  BY <1>1
<1>3. p \in Seq(Blocks) /\ Len(p) = n /\ \A i \in 1..n : p[i] = t[i]
  BY <1>2, SubSeqProperties
<1>4. DOMAIN p = 1..n
  BY <1>3, LenProperties
<1>5. \A i, j \in 1..Len(t) : t[i] = t[j] => i = j
  BY <1>1, Zenon DEF IsInjective, IsTable
<1>6. \A i, j \in 1..n : p[i] = p[j] => i = j
  BY <1>1, <1>2, <1>3, <1>5
<1> HIDE DEF p
<1>7. IsTable(p)
  BY <1>3, <1>4, <1>6, Zenon DEF IsInjective, IsTable
<1>8. Range(p) = {t[i] : i \in 1..n}
  BY <1>3, <1>4 DEF Range
<1>9. Range(p) \subseteq Range(t)
  BY <1>1, <1>2, <1>8 DEF Range
<1> QED
  BY <1>3, <1>7, <1>8, <1>9 DEF p

-----------------------------------------------------------------------------
(* The slots of q's open window are there and are q's alone. *)
PrivateWindow(q) ==
  window[q] > 0 =>
    /\ Len(text[q]) + window[q] <= Capacity(q)
    /\ \A b \in Range(own[q]) : Holders(b) = {q}

(* When blocks of the requests in S moved, the others' windows keep their slots. *)
LEMMA OtherWindows ==
  ASSUME IInv, NEW S, OthersKeep(S),
         NEW q \in Requests, q \notin S,
         own'[q] = own[q], text'[q] = text[q], window'[q] = window[q]
  PROVE  PrivateWindow(q)'
<1>1. SUFFICES ASSUME window'[q] > 0
               PROVE  /\ Len(text'[q]) + window'[q] <= Capacity(q)'
                      /\ \A b \in Range(own'[q]) : Holders(b)' = {q}
  BY DEF PrivateWindow
<1>2. /\ Len(text[q]) + window[q] <= Capacity(q)
      /\ \A b \in Range(own[q]) : Holders(b) = {q}
  BY <1>1 DEF IInv, PlannedSlotsPrivate
<1>3. Range(own[q]) \subseteq Blocks
  BY RangeOfSeq DEF IInv, TypeOK, Owners
<1> QED
  BY <1>2, <1>3 DEF Capacity, OthersKeep

(* ... and a request of S that is in no window does not matter. *)
LEMMA WindowsUndisturbed ==
  ASSUME IInv, NEW S \in SUBSET Requests, \A q \in S : window'[q] = 0,
         \A q \in Requests \ S : own'[q] = own[q] /\ text'[q] = text[q] /\ window'[q] = window[q],
         OthersKeep(S)
  PROVE  PlannedSlotsPrivate'
<1>1. \A q \in Requests : PrivateWindow(q)'
  <2>1. TAKE q \in Requests
  <2>2. CASE q \in S
    BY <2>2 DEF PrivateWindow
  <2>3. CASE q \notin S
    BY <2>3, OtherWindows
  <2> QED
    BY <2>2, <2>3
<1> QED
  BY <1>1 DEF PrivateWindow, PlannedSlotsPrivate

(* What IInv asks of a state, apart from the flags of the requests. *)
Sound ==
  /\ Accounted /\ PlannedSlotsPrivate
  /\ text \in [Requests -> Seq(Tokens)] /\ key \in [Entries -> Seq(Tokens)] /\ lru \in Seq(Entries)
  /\ \A q \in Requests : Len(text[q]) <= Capacity(q)
  /\ \A e \in Entries : Len(own[e]) * BlockSize = Len(key[e])

LEMMA IInvSound ==
  ASSUME IInv
  PROVE  Sound
  BY DEF IInv, TypeOK, TablesCover, Sound, Accounted

(* Appending keeps the cache sound: a chunk, a token or a draft of which     *)
(* `kept` tokens stay, and the fork of the siblings.                         *)
LEMMA AppendStep ==
  ASSUME IInv, NEW r \in Requests, window[r] = 0,
         NEW toks \in Seq(Tokens), NEW kept \in 0..Len(toks),
         NEW siblings \in SUBSET Requests, r \notin siblings,
         \A s \in siblings : own[s] = <<>> /\ window[s] = 0,
         AppendKV(r, toks, kept, siblings), window' = window
  PROVE  Sound'
<1> DEFINE new     == NewBlocks(r, Len(toks))
           evicted == Evicted(Cardinality(new))
           all     == text[r] \o toks
           keep    == SubSeq(all, 1, Len(text[r]) + kept)
           last    == IF Len(own[r]) > BlocksFor(Len(all)) THEN Len(own[r]) ELSE BlocksFor(Len(all))
           end     == IF kept < Len(toks) /\ BlocksFor(Len(keep)) < last
                      THEN BlocksFor(Len(keep)) ELSE last
           Tbl(f)    == SubSeq(Patched(r, f), 1, end)
           Gained(f) == Range(Tbl(f)) \ Range(own[r])
           Lost(f)   == Range(own[r]) \ Range(Tbl(f))
<1>1. /\ own \in [Owners -> Seq(Blocks)] /\ text \in [Requests -> Seq(Tokens)]
      /\ key \in [Entries -> Seq(Tokens)] /\ lru \in Seq(Entries) /\ free \subseteq Blocks
      /\ Accounted /\ RefcountExact /\ FreeIffUnowned
      /\ r \in Owners /\ own[r] \in Seq(Blocks) /\ text[r] \in Seq(Tokens) /\ IsTable(own[r])
  BY IInvSound DEF Sound, Accounted, RefcountExact, Owners, IsTable
<1>2. PICK fresh \in [new -> free \cup Returned(evicted)] :
        /\ IsInjective(fresh)
        /\ own' = [o \in Owners |-> IF o = r \/ o \in siblings THEN Tbl(fresh)
                                    ELSE IF o \in evicted THEN <<>> ELSE own[o]]
        /\ refcount' = [b \in Blocks |->
             (IF b \in Gained(fresh) THEN 1
              ELSE RefAfter(evicted)[b] - (IF b \in Lost(fresh) THEN 1 ELSE 0))
             + (IF b \in Range(Tbl(fresh)) THEN Cardinality(siblings) ELSE 0)]
        /\ free' = ((free \cup Returned(evicted)) \ Gained(fresh))
                     \cup {b \in Lost(fresh) : RefAfter(evicted)[b] = 1}
  BY Zenon DEF AppendKV
<1>3. /\ text' = [q \in Requests |-> IF q = r \/ q \in siblings THEN keep ELSE text[q]]
      /\ key' = [e \in Entries |-> IF e \in evicted THEN <<>> ELSE key[e]]
      /\ lru' = AfterEviction(Cardinality(new))
  BY Zenon DEF AppendKV
<1>4. evicted \subseteq Entries /\ evicted \subseteq Owners /\ r \notin evicted /\ lru' \in Seq(Entries)
  BY <1>1, <1>3, EvictedAreEntries, PoolAssumption DEF Owners
<1>5. /\ Len(toks) \in Nat /\ Len(text[r]) \in Nat /\ Len(own[r]) \in Nat
      /\ all \in Seq(Tokens) /\ Len(all) = Len(text[r]) + Len(toks)
  BY <1>1, LenProperties, ConcatProperties
<1>6. keep \in Seq(Tokens) /\ Len(keep) = Len(text[r]) + kept
  <2>1. \A i \in 1..(Len(text[r]) + kept) : all[i] \in Tokens
    BY <1>5, ElementOfSeq
  <2> HIDE DEF all
  <2> QED
    BY <1>5, <2>1, SubSeqProperties
<1> HIDE DEF all, keep
<1>7. /\ BlocksFor(Len(all)) \in Nat /\ last \in Nat /\ BlocksFor(Len(all)) <= last
      /\ Len(all) <= BlocksFor(Len(all)) * BlockSize
      /\ \A i : i \in 1..last <=> i \in 1..Len(own[r]) \/ i \in new
  <2>1. BlocksFor(Len(all)) = BlocksFor(Len(text[r]) + Len(toks))
    BY <1>5, Zenon
  <2>2. Len(toks) \in Nat /\ r \in Requests
    BY <1>5
  <2> DEFINE need == BlocksFor(Len(all))
  <2>3. last = IF Len(own[r]) > need THEN Len(own[r]) ELSE need
    OBVIOUS
  <2> HIDE DEF last, need
  <2>4. need = BlocksFor(Len(text[r]) + Len(toks))
    BY <2>1 DEF need
  <2>5. /\ need \in Nat /\ last \in Nat /\ need <= last
        /\ Len(text[r]) + Len(toks) <= need * BlockSize
        /\ \A i : i \in 1..last <=> i \in 1..Len(own[r]) \/ i \in new
    <3>1. own[r] \in Seq(Blocks) /\ text[r] \in Seq(Tokens)
      BY <1>1
    <3>2. need \in Nat /\ last \in Nat
      BY <3>1, <2>2, <2>3, <2>4, NewBlocksExtend
    <3>3. need <= last /\ Len(text[r]) + Len(toks) <= need * BlockSize
      BY <3>1, <2>2, <2>3, <2>4, NewBlocksExtend
    <3>4. \A i : i \in 1..last <=> i \in 1..Len(own[r]) \/ i \in new
      BY ONLY <3>1, <2>2, <2>3, <2>4, NewBlocksExtend
    <3> QED
      BY <3>2, <3>3, <3>4
  <2> QED
    BY <1>5, <2>5, Zenon DEF need
<1>8. BlocksFor(Len(keep)) \in Nat /\ Len(keep) <= BlocksFor(Len(keep)) * BlockSize
  <2>1. Len(keep) \in Nat
    BY <1>6, LenProperties
  <2> QED
    BY <2>1, BlocksForCovers
<1>9. end \in 0..last
  BY <1>7, <1>8
<1>10. Len(keep) <= end * BlockSize
  <2>1. CASE end = BlocksFor(Len(keep))
    BY <1>8, <2>1
  <2>2. CASE end = last
    <3>1. BlockSize \in Nat /\ BlockSize > 0
      BY PoolAssumption
    <3>2. BlocksFor(Len(all)) * BlockSize <= last * BlockSize
      BY <1>7, <3>1, TimesMonotonic
    <3>3. Len(keep) <= Len(all)
      BY <1>5, <1>6
    <3>4. BlocksFor(Len(all)) * BlockSize \in Nat /\ last * BlockSize \in Nat
      BY <1>7, <3>1
    <3>5. Len(keep) <= last * BlockSize
      <4> HIDE DEF last, end
      <4> QED
        BY <1>5, <1>6, <1>7, <3>2, <3>3, <3>4
    <3> HIDE DEF last
    <3> QED
      BY <2>2, <3>5, Zenon
  <2> QED
    BY <2>1, <2>2
<1> DEFINE avail == free \cup Returned(evicted)
           full  == Patched(r, fresh)
           tbl   == Tbl(fresh)
<1>11. avail \subseteq Blocks
  BY <1>1 DEF Returned
<1>12. \A b \in Range(own[r]) : b \notin avail
  <2>1. SUFFICES ASSUME NEW b \in Range(own[r]), b \in avail PROVE FALSE
    OBVIOUS
  <2>2. Holders(b) \ evicted = {}
    BY <1>1, <1>4, <1>11, <2>1, AvailableExact
  <2>3. r \in Holders(b)
    BY <1>1, <2>1 DEF Holders
  <2> QED
    BY <1>4, <2>2, <2>3
<1>13. /\ IsTable(full) /\ Len(full) = last
       /\ \A b \in Range(full) : b \in Range(own[r]) \/ b \in avail
  <2>1. Patches(r, fresh, new, avail, last)
    BY <1>1, <1>2, <1>7, <1>11, <1>12 DEF Patches
  <2> HIDE DEF new, avail, last
  <2>2. /\ IsTable(Patched(r, fresh)) /\ Len(Patched(r, fresh)) = last
        /\ Range(Patched(r, fresh)) \subseteq Range(own[r]) \cup avail
    BY <2>1, PatchedTable
  <2> QED
    BY <2>2, Zenon DEF full
<1> HIDE DEF last, end, new, evicted, full
<1>14. /\ IsTable(tbl) /\ Len(tbl) = end
       /\ Range(tbl) \subseteq Range(full)
  <2>1. tbl = SubSeq(full, 1, end)
    BY DEF full
  <2>2. end \in 0..Len(full)
    BY <1>9, <1>13
  <2> HIDE DEF tbl
  <2> QED
    BY <1>13, <2>1, <2>2, TablePrefix, Zenon
<1>15. \A b \in Range(tbl) : b \in Range(own[r]) \/ b \in free \cup Returned(evicted)
  BY <1>13, <1>14
<1> HIDE DEF tbl, avail
<1>16. /\ own' = [o \in Owners |-> IF o = r \/ o \in siblings THEN tbl
                                   ELSE IF o \in evicted THEN <<>> ELSE own[o]]
       /\ refcount' = [b \in Blocks |->
            (IF b \in Range(tbl) \ Range(own[r]) THEN 1
             ELSE RefAfter(evicted)[b] - (IF b \in Range(own[r]) \ Range(tbl) THEN 1 ELSE 0))
            + (IF b \in Range(tbl) THEN Cardinality(siblings) ELSE 0)]
       /\ free' = ((free \cup Returned(evicted)) \ (Range(tbl) \ Range(own[r])))
                    \cup {b \in Range(own[r]) \ Range(tbl) : RefAfter(evicted)[b] = 1}
  BY <1>2, Zenon DEF tbl
<1>17. Accounted' /\ OthersKeep(siblings \cup {r})
  <2>1. \A s \in siblings : own[s] = <<>>
    OBVIOUS
  <2>2. Takes(r, evicted, siblings, tbl)
    BY <1>4, <1>14, <1>15, <1>16, <2>1, Zenon DEF Takes
  <2> QED
    BY <1>1, <2>2, TakeBlocks, Zenon
<1>18. \A q \in Requests : q \notin evicted
  BY <1>4, PoolAssumption
<1>19. PlannedSlotsPrivate'
  <2> DEFINE S == siblings \cup {r}
  <2>1. S \in SUBSET Requests /\ \A q \in S : window'[q] = 0
    OBVIOUS
  <2>2. \A q \in Requests \ S : own'[q] = own[q] /\ text'[q] = text[q] /\ window'[q] = window[q]
    BY <1>3, <1>16, <1>18 DEF Owners
  <2> QED
    BY <1>17, <2>1, <2>2, WindowsUndisturbed
<1>20. text' \in [Requests -> Seq(Tokens)]
  BY <1>1, <1>3, <1>6
<1>21. key' \in [Entries -> Seq(Tokens)]
  BY <1>1, <1>3, EmptySeq
<1>22. \A q \in Requests : Len(text'[q]) <= Capacity(q)'
  <2>1. TAKE q \in Requests
  <2>2. CASE q = r \/ q \in siblings
    BY <1>3, <1>10, <1>14, <1>16, <2>2 DEF Owners, Capacity
  <2>3. CASE ~(q = r \/ q \in siblings)
    <3>1. text'[q] = text[q] /\ own'[q] = own[q]
      BY <1>3, <1>16, <1>18, <2>3 DEF Owners
    <3> QED
      BY <3>1 DEF IInv, TablesCover, Capacity
  <2> QED
    BY <2>2, <2>3
<1>23. \A e \in Entries : Len(own'[e]) * BlockSize = Len(key'[e])
  <2>1. TAKE e \in Entries
  <2>2. own'[e] = (IF e \in evicted THEN <<>> ELSE own[e]) /\ key'[e] = (IF e \in evicted THEN <<>> ELSE key[e])
    BY <1>3, <1>16, PoolAssumption DEF Owners
  <2>3. Len(own[e]) * BlockSize = Len(key[e])
    BY DEF IInv, TablesCover
  <2>4. Len(<<>>) = 0 /\ 0 * BlockSize = 0
    BY PoolAssumption
  <2> QED
    BY <2>2, <2>3, <2>4
<1> QED
  BY <1>4, <1>17, <1>19, <1>20, <1>21, <1>22, <1>23 DEF Sound

-----------------------------------------------------------------------------
(* A table that only grows, by fresh blocks at its end, after E was evicted. *)
Grows(r, new, last, E, fresh) ==
  /\ r \in Requests /\ E \subseteq Entries
  /\ fresh \in [new -> free \cup Returned(E)] /\ IsInjective(fresh)
  /\ last \in Nat
  /\ \A i : i \in 1..last <=> i \in 1..Len(own[r]) \/ i \in new
  /\ \A i \in new : i \notin 1..Len(own[r])
  /\ own' = [o \in Owners |-> IF o = r THEN Patched(r, fresh) ELSE IF o \in E THEN <<>> ELSE own[o]]
  /\ refcount' = [b \in Blocks |-> IF b \in Range(fresh) THEN 1 ELSE RefAfter(E)[b]]
  /\ free' = (free \cup Returned(E)) \ Range(fresh)

LEMMA GrowStep ==
  ASSUME Accounted, NEW r, NEW new, NEW last, NEW E, NEW fresh, Grows(r, new, last, E, fresh)
  PROVE  /\ Accounted' /\ OthersKeep({r})
         /\ Len(own'[r]) = last
         /\ Range(own'[r]) = Range(own[r]) \cup Range(fresh)
         /\ \A b \in Range(own[r]) : b \notin Range(fresh)
<1> DEFINE avail == free \cup Returned(E)
           tbl   == Patched(r, fresh)
<1>1. /\ r \in Requests /\ r \in Owners /\ E \subseteq Entries /\ E \subseteq Owners /\ r \notin E
      /\ own \in [Owners -> Seq(Blocks)] /\ refcount \in [Blocks -> Nat] /\ avail \subseteq Blocks
      /\ IsTable(own[r]) /\ RefcountExact /\ FreeIffUnowned
  BY PoolAssumption DEF Grows, Accounted, Owners, IsTable, RefcountExact, Returned
<1>2. \A b \in Range(own[r]) : b \notin avail
  <2>1. SUFFICES ASSUME NEW b \in Range(own[r]), b \in avail PROVE FALSE
    OBVIOUS
  <2>2. Holders(b) \ E = {}
    BY <1>1, <2>1, AvailableExact
  <2>3. r \in Holders(b)
    BY <1>1, <2>1 DEF Holders
  <2> QED
    BY <1>1, <2>2, <2>3
<1>3. Patches(r, fresh, new, avail, last)
  BY <1>1, <1>2 DEF Grows, Patches
<1>4. \A i \in new : i \notin 1..Len(own[r])
  BY DEF Grows
<1>5. own' = [o \in Owners |-> IF o = r THEN tbl ELSE IF o \in E THEN <<>> ELSE own[o]]
  BY DEF Grows
<1>6. refcount' = [b \in Blocks |-> IF b \in Range(fresh) THEN 1 ELSE RefAfter(E)[b]]
  BY DEF Grows
<1>7. free' = avail \ Range(fresh)
  BY DEF Grows
<1> HIDE DEF avail, tbl
<1>8. IsTable(tbl) /\ Len(tbl) = last /\ Range(fresh) \subseteq avail
  BY <1>3, PatchedTable DEF tbl
<1>9. Range(tbl) = Range(own[r]) \cup Range(fresh)
  <2>1. new \cap (1..Len(own[r])) = {}
    BY <1>4
  <2> QED
    BY <1>3, <2>1, PatchedTable DEF tbl
<1>10. \A b \in Range(own[r]) : b \notin Range(fresh)
  BY <1>2, <1>8
<1>11. /\ Range(tbl) \ Range(own[r]) = Range(fresh)
       /\ Range(own[r]) \ Range(tbl) = {}
  BY <1>9, <1>10
<1>12. \A b \in Blocks : RefAfter(E)[b] \in Nat
  BY <1>1, ReleaseExact
<1>13. Takes(r, E, {}, tbl)
  <2>1. own' = [o \in Owners |-> IF o = r \/ o \in {} THEN tbl
                                 ELSE IF o \in E THEN <<>> ELSE own[o]]
    BY <1>5
  <2>2. refcount' = [b \in Blocks |->
          (IF b \in Range(tbl) \ Range(own[r]) THEN 1
           ELSE RefAfter(E)[b] - (IF b \in Range(own[r]) \ Range(tbl) THEN 1 ELSE 0))
          + (IF b \in Range(tbl) THEN Cardinality({}) ELSE 0)]
    BY <1>6, <1>11, <1>12, FS_EmptySet
  <2>3. free' = ((free \cup Returned(E)) \ (Range(tbl) \ Range(own[r])))
                  \cup {b \in Range(own[r]) \ Range(tbl) : RefAfter(E)[b] = 1}
    BY <1>7, <1>11 DEF avail
  <2>4. \A b \in Range(tbl) : b \in Range(own[r]) \/ b \in free \cup Returned(E)
    BY <1>8, <1>9 DEF avail
  <2> QED
    BY <1>1, <1>8, <2>1, <2>2, <2>3, <2>4, Zenon DEF Takes
<1>14. Accounted' /\ OthersKeep({} \cup {r})
  BY <1>13, TakeBlocks, Zenon
<1>15. OthersKeep({r})
  BY <1>14 DEF OthersKeep
<1>16. own'[r] = tbl
  BY <1>1, <1>5
<1> QED
  BY <1>8, <1>9, <1>10, <1>14, <1>15, <1>16

(* A block with one reference that r holds is r's alone. *)
LEMMA SoleHolder ==
  ASSUME RefcountExact, NEW r \in Owners, NEW b \in Blocks, b \in Range(own[r]), refcount[b] = 1
  PROVE  Holders(b) = {r}
<1>1. IsFiniteSet(Holders(b)) /\ Cardinality(Holders(b)) = 1
  BY HoldersFinite DEF RefcountExact
<1>2. PICK x : Holders(b) = {x}
  BY <1>1, FS_Singleton
<1>3. r \in Holders(b)
  BY DEF Holders
<1> QED
  BY <1>2, <1>3

-----------------------------------------------------------------------------
(* The actions, one by one *)

(* Opening a window reserves its blocks; they and the old ones are private. *)
LEMMA OpenWindowStep ==
  ASSUME IInv, NEW r \in Requests, NEW steps \in 1..MaxWrite, OpenWindow(r, steps)
  PROVE  IInv'
<1> DEFINE new     == Growth(r, steps)
           E       == Evicted(Cardinality(new))
           need    == BlocksFor(Len(text[r]) + steps)
           last    == IF Len(own[r]) > need THEN Len(own[r]) ELSE need
<1>1. /\ Accounted /\ RefcountExact /\ Sound /\ r \in Owners
      /\ own \in [Owners -> Seq(Blocks)] /\ own[r] \in Seq(Blocks) /\ text[r] \in Seq(Tokens)
      /\ text \in [Requests -> Seq(Tokens)] /\ key \in [Entries -> Seq(Tokens)] /\ lru \in Seq(Entries)
      /\ steps \in Nat /\ window \in [Requests -> 0..MaxWrite]
      /\ prefilled \in [Requests -> BOOLEAN] /\ dead \in BOOLEAN
  BY IInvSound, PoolAssumption DEF Sound, Accounted, Owners, IInv, TypeOK
<1>2. PICK fresh \in [new -> free \cup Returned(E)] :
        /\ IsInjective(fresh)
        /\ own' = [o \in Owners |->
             IF o = r THEN Patched(r, fresh) ELSE IF o \in E THEN <<>> ELSE own[o]]
        /\ refcount' = [b \in Blocks |-> IF b \in Range(fresh) THEN 1 ELSE RefAfter(E)[b]]
        /\ free' = (free \cup Returned(E)) \ Range(fresh)
  BY Zenon DEF OpenWindow, Private
<1>3. /\ prefilled[r] /\ window[r] = 0
      /\ \A b \in Range(own[r]) : refcount[b] = 1
      /\ window' = [window EXCEPT ![r] = steps]
      /\ key' = [e \in Entries |-> IF e \in E THEN <<>> ELSE key[e]]
      /\ lru' = AfterEviction(Cardinality(new))
      /\ text' = text /\ prefilled' = prefilled /\ dead' = dead
  BY DEF OpenWindow, Private
<1>4. E \subseteq Entries /\ lru' \in Seq(Entries)
  BY <1>1, <1>3, EvictedAreEntries
<1>5. /\ need \in Nat /\ last \in Nat /\ need <= last
      /\ Len(text[r]) + steps <= need * BlockSize
      /\ \A i : i \in 1..last <=> i \in 1..Len(own[r]) \/ i \in new
  <2>1. own[r] \in Seq(Blocks) /\ text[r] \in Seq(Tokens) /\ steps \in Nat
    BY <1>1
  <2>2. need = BlocksFor(Len(text[r]) + steps)
    OBVIOUS
  <2>3. last = IF Len(own[r]) > need THEN Len(own[r]) ELSE need
    OBVIOUS
  <2> HIDE DEF last, need
  <2>4. need \in Nat /\ last \in Nat /\ need <= last /\ Len(text[r]) + steps <= need * BlockSize
    BY ONLY r \in Requests, <2>1, <2>2, <2>3, NewBlocksExtend
  <2>5. \A i : i \in 1..last <=> i \in 1..Len(own[r]) \/ i \in Growth(r, steps)
    <3> DEFINE n == Len(text[r]) + steps
    <3>1. \A m, l : m = BlocksFor(n) /\ l = (IF Len(own[r]) > m THEN Len(own[r]) ELSE m) =>
            \A i : i \in 1..l <=> i \in 1..Len(own[r]) \/ i \in Growth(r, steps)
      BY ONLY r \in Requests, <2>1, GrowthExtends
    <3> HIDE DEF n
    <3> QED
      BY <2>2, <2>3, <3>1, Zenon DEF n
  <2>6. \A i : i \in 1..last <=> i \in 1..Len(own[r]) \/ i \in new
    BY <2>5, Zenon DEF new
  <2> QED
    BY <2>4, <2>6
<1>6. \A i \in new : i \notin 1..Len(own[r])
  BY <1>1, <1>5, LenProperties DEF Growth
<1>7. Grows(r, new, last, E, fresh)
  <2> HIDE DEF last, new, E
  <2> QED
    BY <1>2, <1>4, <1>5, <1>6 DEF Grows
<1> HIDE DEF last, new, E, need
<1>8. /\ Accounted' /\ OthersKeep({r})
      /\ Len(own'[r]) = last
      /\ Range(own'[r]) = Range(own[r]) \cup Range(fresh)
      /\ \A b \in Range(own[r]) : b \notin Range(fresh)
  BY <1>1, <1>7, GrowStep
<1>9. \A q \in Requests : q \notin E
  BY <1>4, PoolAssumption
<1>10. \A q \in Requests : q # r => own'[q] = own[q] /\ text'[q] = text[q] /\ window'[q] = window[q]
  BY <1>1, <1>2, <1>3, <1>9 DEF Owners
<1>11. Len(text[r]) + steps <= last * BlockSize
  <2>1. need * BlockSize <= last * BlockSize
    BY <1>5, TimesMonotonic
  <2>2. need * BlockSize \in Nat /\ last * BlockSize \in Nat /\ Len(text[r]) \in Nat
    BY <1>1, <1>5, LenProperties, PoolAssumption
  <2> QED
    BY <1>1, <1>5, <2>1, <2>2
<1>12. \A b \in Range(own'[r]) : b \in Blocks /\ refcount'[b] = 1
  <2>1. TAKE b \in Range(own'[r])
  <2>2. b \in Blocks
    BY <1>1, <1>8, RangeOfSeq DEF Accounted
  <2>3. CASE b \in Range(fresh)
    BY <1>2, <2>2, <2>3
  <2>4. CASE b \notin Range(fresh)
    <3>1. b \in Range(own[r]) /\ refcount[b] = 1
      BY <1>3, <1>8, <2>4
    <3>2. Holders(b) = {r}
      BY <1>1, <2>2, <3>1, SoleHolder
    <3>3. Holders(b) \ E = {r}
      BY <1>9, <3>2
    <3>4. RefAfter(E)[b] = Cardinality(Holders(b) \ E)
      BY <1>1, <1>4, <2>2, ReleaseExact DEF Owners
    <3>5. RefAfter(E)[b] = 1
      BY <3>3, <3>4, FS_Singleton
    <3> QED
      BY <1>2, <2>2, <2>4, <3>5
  <2> QED
    BY <2>3, <2>4
<1>13. \A b \in Range(own'[r]) : Holders(b)' = {r}
  <2>1. TAKE b \in Range(own'[r])
  <2>2. b \in Blocks /\ refcount'[b] = Cardinality(Holders(b)') /\ refcount'[b] = 1
    BY <1>8, <1>12 DEF Accounted, RefcountExact
  <2>3. Holders(b)' \subseteq Owners /\ IsFiniteSet(Owners)
    BY PoolAssumption, FS_Union DEF Holders, Owners
  <2>4. IsFiniteSet(Holders(b)')
    BY <2>3, FS_Subset
  <2>5. PICK x : Holders(b)' = {x}
    BY <2>2, <2>4, FS_Singleton
  <2>6. r \in Holders(b)'
    BY <1>1, <2>1 DEF Holders, Owners
  <2> QED
    BY <2>5, <2>6
<1>14. PlannedSlotsPrivate'
  <2>1. \A q \in Requests : PrivateWindow(q)'
    <3>1. TAKE q \in Requests
    <3>2. CASE q = r
      BY <1>1, <1>3, <1>8, <1>11, <1>13, <3>2 DEF PrivateWindow, Capacity
    <3>3. CASE q # r
      BY <1>8, <1>10, <3>3, OtherWindows
    <3> QED
      BY <3>2, <3>3
  <2> QED
    BY <2>1 DEF PrivateWindow, PlannedSlotsPrivate
<1>15. TypeOK'
  <2>1. window' \in [Requests -> 0..MaxWrite]
    BY <1>1, <1>3
  <2>2. key' \in [Entries -> Seq(Tokens)]
    BY <1>1, <1>3, EmptySeq
  <2>3. /\ own' \in [Owners -> Seq(Blocks)] /\ refcount' \in [Blocks -> Nat] /\ free' \subseteq Blocks
    BY <1>8 DEF Accounted, Owners
  <2> QED
    BY <1>1, <1>3, <1>4, <2>1, <2>2, <2>3 DEF TypeOK, Owners
<1>16. TablesCover'
  <2>1. \A q \in Requests : Len(text'[q]) <= Capacity(q)'
    <3>1. TAKE q \in Requests
    <3>2. CASE q = r
      <4>1. Len(text[r]) \in Nat /\ last * BlockSize \in Nat
        BY <1>1, <1>5, LenProperties, PoolAssumption
      <4> QED
        BY <1>1, <1>3, <1>8, <1>11, <3>2, <4>1 DEF Capacity
    <3>3. CASE q # r
      BY <1>1, <1>10, <3>3 DEF Sound, Capacity
    <3> QED
      BY <3>2, <3>3
  <2>2. \A e \in Entries : Len(own'[e]) * BlockSize = Len(key'[e])
    <3>1. TAKE e \in Entries
    <3>2. own'[e] = (IF e \in E THEN <<>> ELSE own[e]) /\ key'[e] = (IF e \in E THEN <<>> ELSE key[e])
      BY <1>2, <1>3, PoolAssumption DEF Owners
    <3>3. Len(<<>>) = 0 /\ 0 * BlockSize = 0 /\ Len(own[e]) * BlockSize = Len(key[e])
      BY <1>1, PoolAssumption DEF Sound
    <3> QED
      BY <3>2, <3>3
  <2>3. \A q \in Requests : window'[q] > 0 => prefilled'[q]
    BY <1>1, <1>3 DEF IInv, TablesCover
  <2> QED
    BY <2>1, <2>2, <2>3 DEF TablesCover, Capacity
<1> QED
  BY <1>8, <1>14, <1>15, <1>16 DEF IInv, Accounted

(* Sound, with the flags of the requests, is IInv. *)
LEMMA FlagsComplete ==
  ASSUME Sound', window' \in [Requests -> 0..MaxWrite], prefilled' \in [Requests -> BOOLEAN],
         dead' \in BOOLEAN, \A q \in Requests : window'[q] > 0 => prefilled'[q]
  PROVE  IInv'
<1>1. TypeOK'
  BY DEF TypeOK, Sound, Accounted, Owners
<1>2. TablesCover'
  BY DEF TablesCover, Sound, Capacity
<1> QED
  BY <1>1, <1>2 DEF IInv, Sound, Accounted

(* Entries that give their blocks back lose their key too. *)
LEMMA EntriesEmptied ==
  ASSUME IInv, NEW E,
         \A e \in Entries : /\ own'[e] = IF e \in E THEN <<>> ELSE own[e]
                            /\ key'[e] = IF e \in E THEN <<>> ELSE key[e]
  PROVE  \A e \in Entries : Len(own'[e]) * BlockSize = Len(key'[e])
<1>1. TAKE e \in Entries
<1>2. Len(<<>>) = 0 /\ 0 * BlockSize = 0 /\ Len(own[e]) * BlockSize = Len(key[e])
  BY PoolAssumption DEF IInv, TablesCover
<1> QED
  BY <1>2

(* A dry pool leaves a cache that is still accounted for. *)
LEMMA OutOfBlocksStep ==
  ASSUME IInv, NEW r \in Requests, NEW count \in 1..MaxWrite, OutOfBlocks(r, count)
  PROVE  IInv'
<1> DEFINE E     == Oldest(Len(lru))
           grow  == Growth(r, count)
           got   == IF Cardinality(grow) <= Cardinality(free \cup Returned(E)) THEN grow ELSE {}
           need  == BlocksFor(Len(text[r]) + count)
           most  == IF Len(own[r]) > need THEN Len(own[r]) ELSE need
           last  == IF got = {} THEN Len(own[r]) ELSE most
<1>1. /\ Accounted /\ Sound /\ r \in Owners
      /\ own \in [Owners -> Seq(Blocks)] /\ own[r] \in Seq(Blocks) /\ text[r] \in Seq(Tokens)
      /\ text \in [Requests -> Seq(Tokens)] /\ key \in [Entries -> Seq(Tokens)] /\ lru \in Seq(Entries)
      /\ count \in Nat /\ window \in [Requests -> 0..MaxWrite]
      /\ prefilled \in [Requests -> BOOLEAN]
      /\ Len(own[r]) \in Nat /\ Len(text[r]) \in Nat
  BY IInvSound, PoolAssumption, LenProperties DEF Sound, Accounted, Owners, IInv, TypeOK
<1>2. PICK fresh \in [got -> free \cup Returned(E)] :
        /\ IsInjective(fresh)
        /\ own' = [o \in Owners |->
             IF o = r THEN Patched(r, fresh) ELSE IF o \in E THEN <<>> ELSE own[o]]
        /\ refcount' = [b \in Blocks |-> IF b \in Range(fresh) THEN 1 ELSE RefAfter(E)[b]]
        /\ free' = (free \cup Returned(E)) \ Range(fresh)
  BY Zenon DEF OutOfBlocks
<1>3. /\ key' = [e \in Entries |-> IF e \in E THEN <<>> ELSE key[e]]
      /\ lru' = <<>> /\ dead' = TRUE
      /\ text' = text /\ prefilled' = prefilled /\ window' = window
      /\ window[r] = 0
  BY DEF OutOfBlocks
<1>4. \A q \in Requests : window[q] > 0 => prefilled[q]
  BY DEF IInv, TablesCover
<1>6. E \subseteq Entries
  BY <1>1, ElementOfSeq DEF Oldest
<1>7. need \in Nat
  BY <1>1, NewBlocksExtend
<1>8. \A i : i \in 1..most <=> i \in 1..Len(own[r]) \/ i \in grow
  <2>1. most = IF Len(own[r]) > need THEN Len(own[r]) ELSE need
    OBVIOUS
  <2>2. need = BlocksFor(Len(text[r]) + count)
    OBVIOUS
  <2> HIDE DEF most, need
  <2> QED
    BY <1>1, <2>1, <2>2, GrowthExtends
<1>9. \A i \in grow : i \notin 1..Len(own[r])
  BY <1>1, <1>7 DEF Growth
<1>10. /\ last \in Nat /\ Len(own[r]) <= last
       /\ \A i : i \in 1..last <=> i \in 1..Len(own[r]) \/ i \in got
       /\ \A i \in got : i \notin 1..Len(own[r])
  <2>1. most \in Nat /\ Len(own[r]) <= most
    BY <1>1, <1>7
  <2>2. got \in {grow, {}}
    OBVIOUS
  <2> HIDE DEF most, grow, got
  <2> QED
    BY <1>1, <1>8, <1>9, <2>1, <2>2
<1>11. Grows(r, got, last, E, fresh)
  <2> HIDE DEF last, got, E
  <2> QED
    BY <1>2, <1>6, <1>10 DEF Grows
<1> HIDE DEF last, got, E, need, most, grow
<1>12. Accounted' /\ OthersKeep({r}) /\ Len(own'[r]) = last
  BY <1>1, <1>11, GrowStep
<1>13. \A q \in Requests : q \notin E
  BY <1>6, PoolAssumption
<1>14. \A q \in Requests : q # r => own'[q] = own[q] /\ text'[q] = text[q] /\ window'[q] = window[q]
  BY <1>1, <1>2, <1>3, <1>13 DEF Owners
<1>15. PlannedSlotsPrivate'
  <2>1. \A q \in Requests \ {r} : own'[q] = own[q] /\ text'[q] = text[q] /\ window'[q] = window[q]
    BY <1>14
  <2>2. \A q \in {r} : window'[q] = 0
    BY <1>3
  <2>3. {r} \in SUBSET Requests
    OBVIOUS
  <2> QED
    BY <1>12, <2>1, <2>2, <2>3, WindowsUndisturbed
<1>16. \A q \in Requests : Len(text'[q]) <= Capacity(q)'
  <2>1. TAKE q \in Requests
  <2>2. Len(text[q]) <= Len(own[q]) * BlockSize
    BY DEF IInv, TablesCover, Capacity
  <2>3. CASE q = r
    <3>1. Len(own[r]) * BlockSize <= last * BlockSize
      BY <1>1, <1>10, TimesMonotonic
    <3>2. Len(own[r]) * BlockSize \in Nat /\ last * BlockSize \in Nat
      BY <1>1, <1>10, PoolAssumption
    <3>3. Len(text[r]) <= last * BlockSize
      BY <1>1, <2>2, <2>3, <3>1, <3>2
    <3> QED
      BY <1>3, <1>12, <2>3, <3>3 DEF Capacity
  <2>4. CASE q # r
    BY <1>14, <2>2, <2>4 DEF Capacity
  <2> QED
    BY <2>3, <2>4
<1>17. \A e \in Entries : Len(own'[e]) * BlockSize = Len(key'[e])
  <2>1. \A e \in Entries : /\ own'[e] = IF e \in E THEN <<>> ELSE own[e]
                           /\ key'[e] = IF e \in E THEN <<>> ELSE key[e]
    BY <1>2, <1>3, PoolAssumption DEF Owners
  <2> QED
    BY <2>1, EntriesEmptied
<1>18. key' \in [Entries -> Seq(Tokens)] /\ lru' \in Seq(Entries) /\ text' \in [Requests -> Seq(Tokens)]
  BY <1>1, <1>3, EmptySeq
<1>19. Sound'
  BY <1>12, <1>15, <1>16, <1>17, <1>18 DEF Sound
<1> QED
  BY <1>1, <1>3, <1>4, <1>19, FlagsComplete

(* An empty table, and the facts every step below starts from. *)
LEMMA EmptyTable == IsTable(<<>>) /\ Range(<<>>) = {} /\ Len(<<>>) = 0
  BY EmptySeq DEF IsTable, IsInjective, Range

LEMMA Facts ==
  ASSUME IInv
  PROVE  /\ Accounted /\ Sound /\ RefcountExact
         /\ own \in [Owners -> Seq(Blocks)] /\ \A o \in Owners : IsTable(own[o])
         /\ text \in [Requests -> Seq(Tokens)] /\ key \in [Entries -> Seq(Tokens)]
         /\ lru \in Seq(Entries) /\ Range(lru) \subseteq Entries
         /\ window \in [Requests -> 0..MaxWrite] /\ prefilled \in [Requests -> BOOLEAN]
         /\ dead \in BOOLEAN
         /\ \A q \in Requests : window[q] > 0 => prefilled[q]
         /\ \A q \in Requests : Len(text[q]) <= Len(own[q]) * BlockSize
         /\ \A e \in Entries : Len(own[e]) * BlockSize = Len(key[e])
<1>1. Range(lru) \subseteq Entries
  BY RangeOfSeq DEF IInv, TypeOK
<1>2. \A o \in Owners : IsTable(own[o])
  BY DEF IInv, TypeOK, RefcountExact, IsTable
<1> QED
  BY <1>1, <1>2, IInvSound DEF IInv, TypeOK, TablesCover, Sound, Accounted, Capacity

(* Releasing without keeping anything is a hand-over of nothing. *)
LEMMA ReleaseStep ==
  ASSUME IInv, NEW D \in SUBSET Owners, NEW e \in D,
         own' = [o \in Owners |-> IF o \in D THEN <<>> ELSE own[o]],
         refcount' = RefAfter(D), free' = free \cup Returned(D)
  PROVE  Accounted' /\ OthersKeep(D)
<1>1. \A b \in Blocks : RefAfter(D)[b] \in Nat
  BY Facts, ReleaseExact
<1>2. RefAfter(D) = [b \in Blocks |-> RefAfter(D)[b] + (IF b \in Range(<<>>) THEN 1 ELSE 0)]
  <2>1. RefAfter(D) = [b \in Blocks |-> RefAfter(D)[b]]
    BY DEF RefAfter
  <2> QED
    BY <1>1, <2>1, EmptyTable
<1>3. own' = [o \in Owners |-> IF o = e THEN <<>> ELSE IF o \in D THEN <<>> ELSE own[o]]
  OBVIOUS
<1>4. HandsOver(D, e, e, <<>>)
  BY <1>2, <1>3, EmptyTable DEF HandsOver
<1>5. Accounted' /\ OthersKeep(D \cup {e, e})
  BY <1>4, Facts, HandOver, Zenon
<1> QED
  BY <1>5 DEF OthersKeep

LEMMA DropStep ==
  ASSUME IInv, NEW r \in Requests, Drop(r)
  PROVE  IInv'
<1>1. /\ own' = [own EXCEPT ![r] = <<>>]
      /\ refcount' = RefAfter({r}) /\ free' = free \cup Returned({r})
      /\ text' = [text EXCEPT ![r] = <<>>]
      /\ prefilled' = [prefilled EXCEPT ![r] = FALSE]
      /\ window' = [window EXCEPT ![r] = 0]
      /\ key' = key /\ lru' = lru /\ dead' = dead
  BY DEF Drop
<1>2. own' = [o \in Owners |-> IF o \in {r} THEN <<>> ELSE own[o]]
  BY <1>1, Facts
<1>3. Accounted' /\ OthersKeep({r})
  BY <1>1, <1>2, ReleaseStep DEF Owners
<1>4. own'[r] = <<>> /\ text'[r] = <<>> /\ window'[r] = 0
  BY <1>1, Facts DEF Owners
<1>5. \A q \in Requests \ {r} : own'[q] = own[q] /\ text'[q] = text[q] /\ window'[q] = window[q]
  BY <1>1, Facts DEF Owners
<1>6. PlannedSlotsPrivate'
  BY <1>3, <1>4, <1>5, WindowsUndisturbed
<1>7. \A q \in Requests : Len(text'[q]) <= Capacity(q)'
  <2>1. TAKE q \in Requests
  <2>2. CASE q = r
    <3>1. Len(text'[r]) = 0 /\ Len(own'[r]) * BlockSize = 0
      BY <1>4, EmptyTable, PoolAssumption
    <3> QED
      BY <2>2, <3>1 DEF Capacity
  <2>3. CASE q # r
    BY <1>5, <2>3, Facts DEF Capacity
  <2> QED
    BY <2>2, <2>3
<1>8. \A e \in Entries : Len(own'[e]) * BlockSize = Len(key'[e])
  BY <1>1, Facts, PoolAssumption DEF Owners
<1>9. text' \in [Requests -> Seq(Tokens)]
  BY <1>1, Facts, EmptySeq
<1>10. Sound'
  BY <1>1, <1>3, <1>6, <1>7, <1>8, <1>9, Facts DEF Sound
<1>11. \A q \in Requests : window'[q] > 0 => prefilled'[q]
  BY <1>1, <1>4, <1>5, Facts
<1>12. /\ window' \in [Requests -> 0..MaxWrite] /\ prefilled' \in [Requests -> BOOLEAN]
       /\ dead' \in BOOLEAN
  BY <1>1, Facts, PoolAssumption
<1> QED
  BY <1>10, <1>11, <1>12, FlagsComplete

LEMMA ClearStep ==
  ASSUME IInv, Clear
  PROVE  IInv'
<1> DEFINE D == Range(lru)
<1>1. /\ lru # <<>>
      /\ own' = [o \in Owners |-> IF o \in D THEN <<>> ELSE own[o]]
      /\ refcount' = RefAfter(D) /\ free' = free \cup Returned(D)
      /\ key' = [e \in Entries |-> IF e \in D THEN <<>> ELSE key[e]]
      /\ lru' = <<>>
      /\ text' = text /\ prefilled' = prefilled /\ window' = window /\ dead' = dead
  BY DEF Clear
<1>2. D \in SUBSET Owners /\ \A q \in Requests : q \notin D
  BY Facts, PoolAssumption DEF Owners
<1>3. lru[1] \in D
  <2>1. Len(lru) \in Nat /\ Len(lru) > 0
    BY <1>1, Facts, EmptySeq, LenProperties
  <2> QED
    BY <2>1, Facts, LenProperties DEF Range
<1> HIDE DEF D
<1>4. Accounted' /\ OthersKeep(D)
  BY <1>1, <1>2, <1>3, ReleaseStep
<1>5. OthersKeep({})
  BY <1>2, <1>4 DEF OthersKeep
<1>6. \A q \in Requests : own'[q] = own[q]
  <2>1. \A q \in Requests : q \in Owners /\ q \notin D
    BY <1>2 DEF Owners
  <2> QED
    BY <1>1, <2>1
<1>7. PlannedSlotsPrivate'
  <2>1. \A q \in Requests \ {} : own'[q] = own[q] /\ text'[q] = text[q] /\ window'[q] = window[q]
    BY <1>1, <1>6
  <2>2. {} \in SUBSET Requests /\ \A q \in {} : window'[q] = 0
    OBVIOUS
  <2> QED
    BY <1>5, <2>1, <2>2, WindowsUndisturbed
<1>8. \A q \in Requests : Len(text'[q]) <= Capacity(q)'
  BY <1>1, <1>6, Facts DEF Capacity
<1>9. \A e \in Entries : /\ own'[e] = IF e \in D THEN <<>> ELSE own[e]
                         /\ key'[e] = IF e \in D THEN <<>> ELSE key[e]
  BY <1>1 DEF Owners
<1>10. \A e \in Entries : Len(own'[e]) * BlockSize = Len(key'[e])
  BY <1>9, EntriesEmptied
<1>11. key' \in [Entries -> Seq(Tokens)] /\ lru' \in Seq(Entries)
  BY <1>1, Facts, EmptySeq
<1>12. Sound'
  BY <1>1, <1>4, <1>7, <1>8, <1>10, <1>11, Facts DEF Sound
<1> QED
  BY <1>1, <1>12, Facts, FlagsComplete

LEMMA LookupHitStep ==
  ASSUME IInv, NEW r \in Requests, NEW prompt \in Prompts, LookupHit(r, prompt)
  PROVE  IInv'
<1>1. PICK i \in DOMAIN lru :
        LET m      == MatchBlocks(lru[i], prompt)
            reused == SubSeq(own[lru[i]], 1, m)
        IN  /\ own' = [own EXCEPT ![r] = reused]
            /\ text' = [text EXCEPT ![r] = SubSeq(prompt, 1, m * BlockSize)]
            /\ refcount' = [b \in Blocks |-> refcount[b] + (IF b \in Range(reused) THEN 1 ELSE 0)]
            /\ lru' = Append(Without(lru, {lru[i]}), lru[i])
  BY Zenon DEF LookupHit, Reused
<1> DEFINE e      == lru[i]
           m      == MatchBlocks(e, prompt)
           reused == SubSeq(own[e], 1, m)
<1>2. /\ free' = free /\ prefilled' = prefilled /\ window' = window
      /\ key' = key /\ dead' = dead
      /\ ~prefilled[r] /\ own[r] = <<>>
  BY DEF LookupHit, Reused
<1>3. e \in Entries /\ r \in Owners /\ e \in Owners /\ e # r
  BY Facts, PoolAssumption, ElementOfSeq, LenProperties DEF Owners
<1>4. prompt \in Seq(Tokens) /\ Len(prompt) > 0
  <2>1. PICK n \in 1..MaxLen : prompt \in [1..n -> Tokens]
    BY DEF Prompts
  <2>2. n \in Nat /\ n > 0
    BY <2>1
  <2> QED
    BY <2>1, <2>2, IsASeq
<1>5. m \in 0..Len(own[e]) /\ m * BlockSize < Len(prompt)
  <2>1. key[e] \in Seq(Tokens) /\ Len(key[e]) = Len(own[e]) * BlockSize /\ Len(own[e]) \in Nat
    BY <1>3, Facts, LenProperties
  <2> HIDE DEF e
  <2> QED
    BY <1>3, <1>4, <2>1, MatchInRange
<1>6. IsTable(reused) /\ Len(reused) = m /\ Range(reused) \subseteq Range(own[e])
  <2>1. IsTable(own[e])
    BY <1>3, Facts
  <2> HIDE DEF e, m
  <2> QED
    BY <1>5, <2>1, TablePrefix
<1>7. /\ own' = [own EXCEPT ![r] = reused]
      /\ text' = [text EXCEPT ![r] = SubSeq(prompt, 1, m * BlockSize)]
      /\ refcount' = [b \in Blocks |-> refcount[b] + (IF b \in Range(reused) THEN 1 ELSE 0)]
      /\ lru' = Append(Without(lru, {e}), e)
  BY <1>1
<1> HIDE DEF reused, m, e
<1>8. Accounted' /\ OthersKeep({r, e})
  <2>1. own' = [o \in Owners |-> IF o = r THEN reused ELSE IF o \in {} THEN <<>> ELSE own[o]]
    BY <1>7, Facts
  <2>2. \A b \in Blocks : RefAfter({})[b] = refcount[b]
    <3>1. TAKE b \in Blocks
    <3>2. {o \in {} : b \in Range(own[o])} = {}
      OBVIOUS
    <3>3. Cardinality({o \in {} : b \in Range(own[o])}) = 0
      BY <3>2, FS_EmptySet, Zenon
    <3>4. RefAfter({})[b] = refcount[b] - Cardinality({o \in {} : b \in Range(own[o])})
      BY DEF RefAfter
    <3>5. refcount[b] \in Nat
      BY Facts DEF Accounted
    <3> QED
      BY <3>3, <3>4, <3>5
  <2>3. refcount' = [b \in Blocks |-> RefAfter({})[b] + (IF b \in Range(reused) THEN 1 ELSE 0)]
    BY <1>7, <2>2
  <2>4. Returned({}) = {}
    <3>1. \A b \in Blocks : ~(refcount[b] > 0 /\ refcount[b] = 0)
      BY Facts DEF Accounted
    <3> QED
      BY <2>2, <3>1 DEF Returned
  <2>5. free' = free \cup (Returned({}) \ Range(reused))
    BY <1>2, <2>4
  <2>6. HandsOver({}, r, e, reused)
    BY <1>2, <1>3, <1>6, <2>1, <2>3, <2>5 DEF HandsOver
  <2>7. Accounted' /\ OthersKeep({} \cup {r, e})
    BY <2>6, Facts, HandOver, Zenon
  <2> QED
    BY <2>7 DEF OthersKeep
<1>9. OthersKeep({r})
  BY <1>3, <1>8, PoolAssumption DEF OthersKeep
<1>10. own'[r] = reused /\ text'[r] = SubSeq(prompt, 1, m * BlockSize) /\ window'[r] = 0
  <2>1. window[r] = 0
    BY <1>2, Facts
  <2> QED
    BY <1>2, <1>3, <1>7, <2>1, Facts
<1>11. \A q \in Requests \ {r} : own'[q] = own[q] /\ text'[q] = text[q] /\ window'[q] = window[q]
  BY <1>2, <1>7, Facts DEF Owners
<1>12. PlannedSlotsPrivate'
  BY <1>9, <1>10, <1>11, WindowsUndisturbed
<1>13. m \in Nat /\ m * BlockSize \in Nat
  <2>1. m \in Nat
    BY <1>3, <1>5, Facts, LenProperties
  <2> QED
    BY <2>1, PoolAssumption
<1>14. text'[r] \in Seq(Tokens) /\ Len(text'[r]) = m * BlockSize
  <2>1. \A k \in 1..(m * BlockSize) : prompt[k] \in Tokens
    BY <1>4, <1>5, <1>13, ElementOfSeq, LenProperties
  <2> QED
    BY <1>10, <1>13, <2>1, SubSeqProperties
<1>15. \A q \in Requests : Len(text'[q]) <= Capacity(q)'
  <2>1. TAKE q \in Requests
  <2>2. CASE q = r
    BY <1>6, <1>10, <1>13, <1>14, <2>2 DEF Capacity
  <2>3. CASE q # r
    BY <1>11, <2>3, Facts DEF Capacity
  <2> QED
    BY <2>2, <2>3
<1>16. \A f \in Entries : Len(own'[f]) * BlockSize = Len(key'[f])
  BY <1>2, <1>7, Facts, PoolAssumption DEF Owners
<1>17. text' \in [Requests -> Seq(Tokens)]
  BY <1>7, <1>10, <1>14, Facts
<1>18. lru' \in Seq(Entries)
  <2>1. Without(lru, {e}) \in Seq(Entries)
    BY Facts, WithoutIsSeq
  <2> QED
    BY <1>3, <1>7, <2>1, AppendProperties
<1>19. Sound'
  BY <1>2, <1>8, <1>12, <1>15, <1>16, <1>17, <1>18, Facts DEF Sound
<1>20. window' \in [Requests -> 0..MaxWrite] /\ prefilled' \in [Requests -> BOOLEAN] /\ dead' \in BOOLEAN
  BY <1>2, Facts
<1>21. \A q \in Requests : window'[q] > 0 => prefilled'[q]
  BY <1>2, Facts
<1> QED
  BY <1>19, <1>20, <1>21, FlagsComplete

LEMMA WindowSteps ==
  ASSUME IInv, NEW r \in Requests,
         (\E t \in Tokens : PlannedDecode(r, t)) \/ CloseWindow(r)
  PROVE  IInv'
<1>0. PICK t : CloseWindow(r) \/ (t \in Tokens /\ PlannedDecode(r, t))
  <2>1. ASSUME NEW t \in Tokens, PlannedDecode(r, t)
        PROVE  \E u : CloseWindow(r) \/ (u \in Tokens /\ PlannedDecode(r, u))
    <3>1. t \in Tokens /\ PlannedDecode(r, t)
      BY <2>1
    <3> QED
      BY <3>1, Zenon
  <2>2. CASE CloseWindow(r)
    BY <2>2, Zenon
  <2> QED
    BY <2>1, <2>2
<1>1. /\ free' = free /\ refcount' = refcount /\ own' = own /\ prefilled' = prefilled
      /\ key' = key /\ lru' = lru /\ dead' = dead
      /\ window[r] > 0 /\ window[r] \in Nat /\ Len(text[r]) \in Nat
  BY <1>0, Facts, LenProperties DEF PlannedDecode, CloseWindow
<1>2. \/ /\ t \in Tokens
         /\ window' = [window EXCEPT ![r] = @ - 1]
         /\ text' = [text EXCEPT ![r] = Append(@, t)]
      \/ window' = [window EXCEPT ![r] = 0] /\ text' = text
  BY <1>0 DEF PlannedDecode, CloseWindow
<1>3. /\ \A q \in Requests \ {r} : window'[q] = window[q] /\ text'[q] = text[q]
      /\ window'[r] \in 0..window[r]
      /\ \/ text'[r] = text[r]
         \/ t \in Tokens /\ text'[r] = Append(text[r], t) /\ window'[r] = window[r] - 1
  BY <1>1, <1>2, Facts
<1>4. /\ Len(text[r]) + window[r] <= Capacity(r)
      /\ \A b \in Range(own[r]) : Holders(b) = {r}
  BY <1>1 DEF IInv, PlannedSlotsPrivate
<1>5. text'[r] \in Seq(Tokens) /\ Len(text'[r]) + window'[r] <= Capacity(r) /\ Len(text'[r]) \in Nat
  <2>1. t \in Tokens =>
          Append(text[r], t) \in Seq(Tokens) /\ Len(Append(text[r], t)) = Len(text[r]) + 1
    BY Facts, AppendProperties
  <2>2. Capacity(r) \in Nat
    BY Facts, LenProperties, PoolAssumption DEF Capacity, IsTable, Owners
  <2>3. CASE text'[r] = text[r]
    <3>1. text[r] \in Seq(Tokens)
      BY Facts
    <3> QED
      BY <1>1, <1>3, <1>4, <2>2, <2>3, <3>1
  <2>4. CASE t \in Tokens /\ text'[r] = Append(text[r], t) /\ window'[r] = window[r] - 1
    BY <1>1, <1>4, <2>1, <2>2, <2>4
  <2> QED
    BY <1>3, <2>3, <2>4
<1>6. \A q \in Requests : Capacity(q)' = Capacity(q)
  BY <1>1 DEF Capacity
<1>7. \A b \in Blocks : Holders(b)' = Holders(b)
  BY <1>1 DEF Holders, Owners
<1>8. Accounted'
  <2>1. RefcountExact' /\ FreeIffUnowned'
    BY <1>1, <1>7, Facts DEF Accounted, RefcountExact, FreeIffUnowned, Owners
  <2> QED
    BY <1>1, <2>1, Facts DEF Accounted, Owners
<1>9. PlannedSlotsPrivate'
  <2>1. OthersKeep({r})
    BY <1>7 DEF OthersKeep
  <2>2. \A q \in Requests : PrivateWindow(q)'
    <3>1. TAKE q \in Requests
    <3>2. CASE q = r
      <4>1. \A b \in Range(own[r]) : Holders(b)' = {r}
        BY <1>4, <1>7, Facts, RangeOfSeq DEF IsTable, Owners
      <4> QED
        BY <1>1, <1>5, <1>6, <3>2, <4>1 DEF PrivateWindow
    <3>3. CASE q # r
      BY <1>1, <1>3, <2>1, <3>3, OtherWindows
    <3> QED
      BY <3>2, <3>3
  <2> QED
    BY <2>2 DEF PrivateWindow, PlannedSlotsPrivate
<1>10. \A q \in Requests : Len(text'[q]) <= Capacity(q)'
  <2>1. TAKE q \in Requests
  <2>2. CASE q = r
    <3>1. Capacity(r) \in Nat /\ window'[r] \in Nat
      BY <1>1, <1>3, Facts, LenProperties, PoolAssumption DEF Capacity, IsTable, Owners
    <3> QED
      BY <1>5, <1>6, <2>2, <3>1
  <2>3. CASE q # r
    BY <1>3, <1>6, <2>3, Facts DEF Capacity
  <2> QED
    BY <2>2, <2>3
<1>11. text' \in [Requests -> Seq(Tokens)]
  BY <1>2, <1>5, Facts
<1>12. window' \in [Requests -> 0..MaxWrite]
  <2>1. window[r] \in 0..MaxWrite /\ MaxWrite \in Nat
    BY Facts, PoolAssumption
  <2>2. window[r] - 1 \in 0..MaxWrite /\ 0 \in 0..MaxWrite
    BY <1>1, <2>1
  <2>3. window \in [Requests -> 0..MaxWrite]
    BY Facts
  <2> QED
    BY <1>2, <2>2, <2>3
<1>13. \A q \in Requests : window'[q] > 0 => prefilled'[q]
  BY <1>1, <1>3, Facts
<1>14. \A e \in Entries : Len(own'[e]) * BlockSize = Len(key'[e])
  BY <1>1, Facts
<1>15. Sound'
  BY <1>1, <1>8, <1>9, <1>10, <1>11, <1>14, Facts DEF Sound
<1> QED
  BY <1>1, <1>12, <1>13, <1>15, Facts, FlagsComplete

(* Finishing hands the whole blocks to a new entry; the superseded entries,  *)
(* the one over the cap and the table let go of theirs.                      *)
LEMMA FinishStep ==
  ASSUME IInv, NEW r \in Requests, Finish(r)
  PROVE  IInv'
<1> DEFINE n          == IF PrefixCache THEN Len(text[r]) \div BlockSize ELSE 0
           tokens     == SubSeq(text[r], 1, n * BlockSize)
           superseded == {f \in Range(lru) : n > 0 /\ IsPrefixOf(key[f], tokens)}
           rest       == Without(lru, superseded)
           popped     == IF n > 0 /\ Len(rest) + 1 > MaxEntries THEN {rest[1]} ELSE {}
           dropped    == superseded \cup popped \cup {r}
           donated    == {own[r][i] : i \in 1..n}
           tbl        == SubSeq(own[r], 1, n)
<1>1. PICK e \in {f \in Entries : own[f] = <<>>} :
        /\ own' = [o \in Owners |-> IF o = e THEN tbl ELSE IF o \in dropped THEN <<>> ELSE own[o]]
        /\ key' = [f \in Entries |-> IF f = e THEN tokens
                                     ELSE IF f \in dropped THEN <<>> ELSE key[f]]
        /\ lru' = Without(rest, popped) \o (IF n > 0 THEN <<e>> ELSE <<>>)
  BY Zenon DEF Finish
<1>2. /\ refcount' = [b \in Blocks |-> RefAfter(dropped)[b] + (IF b \in donated THEN 1 ELSE 0)]
      /\ free' = free \cup (Returned(dropped) \ donated)
      /\ text' = [text EXCEPT ![r] = <<>>]
      /\ prefilled' = [prefilled EXCEPT ![r] = FALSE]
      /\ window' = window /\ dead' = dead /\ window[r] = 0
  BY Zenon DEF Finish
<1>3. /\ e \in Entries /\ own[e] = <<>> /\ e \in Owners /\ r \in Owners /\ e # r
      /\ own[r] \in Seq(Blocks) /\ text[r] \in Seq(Tokens) /\ IsTable(own[r])
      /\ Len(text[r]) \in Nat /\ Len(own[r]) \in Nat
  BY Facts, LenProperties, PoolAssumption DEF Owners, IsTable
<1>4. n \in 0..Len(own[r]) /\ n \in Nat /\ n * BlockSize <= Len(text[r]) /\ n * BlockSize \in Nat
  <2>1. Len(text[r]) <= Len(own[r]) * BlockSize
    BY Facts
  <2>2. /\ Len(text[r]) \div BlockSize \in 0..Len(own[r])
        /\ (Len(text[r]) \div BlockSize) * BlockSize <= Len(text[r])
    BY <1>3, <2>1, WholeBlocks
  <2>3. 0 * BlockSize = 0 /\ BlockSize \in Nat
    BY PoolAssumption
  <2>4. n \in 0..Len(own[r]) /\ n * BlockSize <= Len(text[r])
    <3>1. CASE PrefixCache
      BY <2>2, <3>1
    <3>2. CASE ~PrefixCache
      BY <1>3, <2>3, <3>2
    <3> QED
      BY <3>1, <3>2
  <2> HIDE DEF n
  <2>5. n \in Nat
    BY <1>3, <2>4
  <2> QED
    BY <2>3, <2>4, <2>5
<1> HIDE DEF n
<1>5. tokens \in Seq(Tokens) /\ Len(tokens) = n * BlockSize
  <2>1. \A k \in 1..(n * BlockSize) : text[r][k] \in Tokens
    BY <1>3, <1>4, ElementOfSeq
  <2> QED
    BY <1>4, <2>1, SubSeqProperties
<1>6. IsTable(tbl) /\ Len(tbl) = n /\ Range(tbl) = donated /\ Range(tbl) \subseteq Range(own[r])
  BY <1>3, <1>4, TablePrefix
<1> HIDE DEF tokens, tbl, donated
<1>7. superseded \subseteq Entries
  BY Facts
<1> HIDE DEF superseded
<1>8. rest \in Seq(Entries)
  BY Facts, WithoutIsSeq
<1> HIDE DEF rest
<1>9. popped \subseteq Entries
  <2>1. CASE n > 0 /\ Len(rest) + 1 > MaxEntries
    <3>1. Len(rest) \in Nat /\ MaxEntries \in Nat /\ MaxEntries > 0
      BY <1>8, LenProperties, PoolAssumption
    <3>2. rest[1] \in Entries
      BY <1>8, <2>1, <3>1, ElementOfSeq
    <3> QED
      BY <2>1, <3>2
  <2>2. CASE ~(n > 0 /\ Len(rest) + 1 > MaxEntries)
    BY <2>2
  <2> QED
    BY <2>1, <2>2
<1> HIDE DEF popped
<1>10. dropped \subseteq Owners /\ \A q \in Requests : q \in dropped <=> q = r
  BY <1>7, <1>9, PoolAssumption DEF Owners
<1> HIDE DEF dropped
<1>11. HandsOver(dropped, e, r, tbl)
  BY <1>1, <1>2, <1>3, <1>6, <1>10, Zenon DEF HandsOver
<1>12. Accounted' /\ OthersKeep(dropped \cup {e, r})
  BY <1>11, Facts, HandOver, Zenon
<1>13. OthersKeep({r})
  BY <1>3, <1>10, <1>12, PoolAssumption DEF OthersKeep
<1>14. own'[r] = <<>> /\ text'[r] = <<>> /\ window'[r] = 0
  BY <1>1, <1>2, <1>3, <1>10, Facts
<1>15. \A q \in Requests \ {r} : own'[q] = own[q] /\ text'[q] = text[q] /\ window'[q] = window[q]
  <2>1. TAKE q \in Requests \ {r}
  <2>2. q \in Owners /\ q # e /\ q \notin dropped
    BY <1>3, <1>10, PoolAssumption DEF Owners
  <2> QED
    BY <1>1, <1>2, <2>2, Facts
<1>16. PlannedSlotsPrivate'
  BY <1>13, <1>14, <1>15, WindowsUndisturbed
<1>17. \A q \in Requests : Len(text'[q]) <= Capacity(q)'
  <2>1. TAKE q \in Requests
  <2>2. CASE q = r
    <3>1. Len(text'[r]) = 0 /\ Len(own'[r]) * BlockSize = 0
      BY <1>14, EmptyTable, PoolAssumption
    <3> QED
      BY <2>2, <3>1 DEF Capacity
  <2>3. CASE q # r
    BY <1>15, <2>3, Facts DEF Capacity
  <2> QED
    BY <2>2, <2>3
<1>18. \A f \in Entries : Len(own'[f]) * BlockSize = Len(key'[f])
  <2>1. TAKE f \in Entries
  <2>2. f \in Owners /\ Len(<<>>) = 0 /\ 0 * BlockSize = 0 /\ Len(own[f]) * BlockSize = Len(key[f])
    BY Facts, PoolAssumption DEF Owners
  <2>3. /\ own'[f] = IF f = e THEN tbl ELSE IF f \in dropped THEN <<>> ELSE own[f]
        /\ key'[f] = IF f = e THEN tokens ELSE IF f \in dropped THEN <<>> ELSE key[f]
    BY <1>1, <2>2
  <2> QED
    BY <1>5, <1>6, <2>2, <2>3
<1>19. key' \in [Entries -> Seq(Tokens)]
  BY <1>1, <1>5, Facts, EmptySeq
<1>20. text' \in [Requests -> Seq(Tokens)]
  BY <1>2, Facts, EmptySeq
<1>21. lru' \in Seq(Entries)
  <2>1. Without(rest, popped) \in Seq(Entries)
    BY <1>8, WithoutIsSeq
  <2>2. (IF n > 0 THEN <<e>> ELSE <<>>) \in Seq(Entries)
    BY <1>3
  <2> DEFINE last == IF n > 0 THEN <<e>> ELSE <<>>
  <2>3. last \in Seq(Entries) /\ lru' = Without(rest, popped) \o last
    BY <1>1, <2>2
  <2> HIDE DEF last
  <2> QED
    BY <2>1, <2>3, ConcatProperties
<1>22. Sound'
  BY <1>12, <1>16, <1>17, <1>18, <1>19, <1>20, <1>21 DEF Sound
<1>23. /\ window' \in [Requests -> 0..MaxWrite] /\ prefilled' \in [Requests -> BOOLEAN]
       /\ dead' \in BOOLEAN
  BY <1>2, Facts
<1>24. \A q \in Requests : window'[q] > 0 => prefilled'[q]
  BY <1>2, <1>3, Facts
<1> QED
  BY <1>22, <1>23, <1>24, FlagsComplete

(* A chunk of a prompt, with or without the fork of the siblings. *)
LEMMA PrefillChunkStep ==
  ASSUME IInv, NEW r \in Requests, NEW toks \in Chunks, PrefillChunk(r, toks)
  PROVE  IInv'
<1>1. toks \in Seq(Tokens) /\ Len(toks) \in Nat
  <2>1. PICK n \in 1..MaxWrite : toks \in [1..n -> Tokens]
    BY DEF Chunks
  <2> QED
    BY <2>1, IsASeq, LenProperties
<1>2. ~prefilled[r] /\ window' = window /\ dead' = dead
  BY DEF PrefillChunk
<1>3. \A q \in Requests : ~prefilled[q] => window[q] = 0
  BY Facts
<1>4. PICK siblings \in SUBSET Unstarted(r) :
        /\ AppendKV(r, toks, Len(toks), siblings)
        /\ \/ prefilled' = prefilled
           \/ prefilled' = [q \in Requests |-> prefilled[q] \/ q = r \/ q \in siblings]
  <2>1. {} \in SUBSET Unstarted(r)
    OBVIOUS
  <2> QED
    BY <2>1, Zenon DEF PrefillChunk
<1>5. /\ siblings \in SUBSET Requests /\ r \notin siblings
      /\ \A s \in siblings : own[s] = <<>> /\ window[s] = 0
  BY <1>3 DEF Unstarted
<1>6. Sound'
  <2>1. window[r] = 0 /\ Len(toks) \in 0..Len(toks)
    BY <1>1, <1>2, <1>3
  <2> QED
    BY <1>1, <1>2, <1>4, <1>5, <2>1, AppendStep
<1>7. prefilled' \in [Requests -> BOOLEAN] /\ \A q \in Requests : prefilled[q] => prefilled'[q]
  <2>1. CASE prefilled' = prefilled
    BY <2>1, Facts
  <2>2. CASE prefilled' = [q \in Requests |-> prefilled[q] \/ q = r \/ q \in siblings]
    BY <2>2, Zenon
  <2> QED
    BY <1>4, <2>1, <2>2
<1> QED
  BY <1>2, <1>6, <1>7, Facts, FlagsComplete

(* One token, or a draft of which a prefix is kept. *)
LEMMA DecodeVerifyStep ==
  ASSUME IInv, NEW r \in Requests, NEW toks \in Seq(Tokens), NEW kept \in 0..Len(toks),
         AppendKV(r, toks, kept, {}), window[r] = 0,
         UNCHANGED <<prefilled, window, dead>>
  PROVE  IInv'
<1>1. {} \in SUBSET Requests /\ r \notin {} /\ \A s \in {} : own[s] = <<>> /\ window[s] = 0
  OBVIOUS
<1>2. Sound'
  BY <1>1, AppendStep
<1> QED
  BY <1>2, Facts, FlagsComplete

-----------------------------------------------------------------------------
LEMMA InitIInv ==
  ASSUME Init
  PROVE  IInv
<1>1. /\ free = Blocks /\ refcount = [b \in Blocks |-> 0] /\ own = [o \in Owners |-> <<>>]
      /\ text = [r \in Requests |-> <<>>] /\ prefilled = [r \in Requests |-> FALSE]
      /\ window = [r \in Requests |-> 0] /\ key = [e \in Entries |-> <<>>]
      /\ lru = <<>> /\ dead = FALSE
  BY DEF Init
<1>2. <<>> \in Seq(Blocks) /\ <<>> \in Seq(Tokens) /\ <<>> \in Seq(Entries)
  BY EmptySeq
<1>3. TypeOK
  <2>1. 0 \in 0..MaxWrite /\ 0 \in Nat
    BY PoolAssumption
  <2>2. /\ refcount \in [Blocks -> Nat] /\ window \in [Requests -> 0..MaxWrite]
        /\ free \subseteq Blocks /\ prefilled \in [Requests -> BOOLEAN] /\ dead \in BOOLEAN
    BY <1>1, <2>1
  <2>3. own \in [Owners -> Seq(Blocks)]
    BY <1>1, <1>2, Zenon
  <2>4. text \in [Requests -> Seq(Tokens)] /\ key \in [Entries -> Seq(Tokens)] /\ lru \in Seq(Entries)
    BY <1>1, <1>2, Zenon
  <2> QED
    BY <2>2, <2>3, <2>4 DEF TypeOK
<1>4. RefcountExact /\ FreeIffUnowned
  <2>1. \A o \in Owners : IsInjective(own[o]) /\ Range(own[o]) = {}
    BY <1>1, EmptyTable DEF IsTable
  <2>2. \A b \in Blocks : Holders(b) = {}
    BY <2>1 DEF Holders
  <2>3. \A b \in Blocks : refcount[b] = Cardinality(Holders(b))
    BY <1>1, <2>2, FS_EmptySet
  <2> QED
    BY <1>1, <2>1, <2>3 DEF RefcountExact, FreeIffUnowned
<1>5. PlannedSlotsPrivate
  BY <1>1 DEF PlannedSlotsPrivate
<1>6. TablesCover
  <2>1. Len(<<>>) = 0 /\ 0 * BlockSize = 0
    BY PoolAssumption
  <2> QED
    BY <1>1, <2>1 DEF TablesCover, Capacity, Owners
<1> QED
  BY <1>3, <1>4, <1>5, <1>6 DEF IInv

LEMMA NextIInv ==
  ASSUME IInv, Next
  PROVE  IInv'
<1>1. ASSUME NEW r \in Requests, NEW toks \in Chunks, PrefillChunk(r, toks)
      PROVE  IInv'
  BY <1>1, PrefillChunkStep
<1>2. ASSUME NEW r \in Requests, NEW t \in Tokens, Decode(r, t)
      PROVE  IInv'
  <2> DEFINE toks == <<t>>
  <2>1. toks \in Seq(Tokens) /\ 1 \in 0..Len(toks)
    OBVIOUS
  <2>2. AppendKV(r, toks, 1, {}) /\ window[r] = 0 /\ UNCHANGED <<prefilled, window, dead>>
    BY <1>2 DEF Decode
  <2> HIDE DEF toks
  <2> QED
    BY <2>1, <2>2, DecodeVerifyStep
<1>3. ASSUME NEW r \in Requests, NEW t \in Tokens, PlannedDecode(r, t)
      PROVE  IInv'
  BY <1>3, WindowSteps
<1>4. ASSUME NEW r \in Requests, NEW toks \in Chunks, NEW kept \in 1..MaxWrite, Verify(r, toks, kept)
      PROVE  IInv'
  <2>1. toks \in Seq(Tokens) /\ Len(toks) \in Nat
    <3>1. PICK n \in 1..MaxWrite : toks \in [1..n -> Tokens]
      BY DEF Chunks
    <3> QED
      BY <3>1, IsASeq, LenProperties
  <2>2. /\ AppendKV(r, toks, kept, {}) /\ window[r] = 0 /\ UNCHANGED <<prefilled, window, dead>>
        /\ kept \in 1..Len(toks)
    BY <1>4 DEF Verify
  <2>3. kept \in 0..Len(toks)
    BY <2>1, <2>2
  <2> QED
    BY <2>1, <2>2, <2>3, DecodeVerifyStep
<1>5. ASSUME NEW r \in Requests, NEW n \in 1..MaxWrite, OpenWindow(r, n) \/ OutOfBlocks(r, n)
      PROVE  IInv'
  BY <1>5, OpenWindowStep, OutOfBlocksStep
<1>6. ASSUME NEW r \in Requests, CloseWindow(r)
      PROVE  IInv'
  BY <1>6, WindowSteps
<1>7. ASSUME NEW r \in Requests, Finish(r) \/ Drop(r)
      PROVE  IInv'
  BY <1>7, FinishStep, DropStep
<1>8. ASSUME NEW r \in Requests, NEW prompt \in Prompts, LookupHit(r, prompt)
      PROVE  IInv'
  BY <1>8, LookupHitStep
<1>9. ASSUME Clear
      PROVE  IInv'
  BY <1>9, ClearStep
<1> QED
  BY <1>1, <1>2, <1>3, <1>4, <1>5, <1>6, <1>7, <1>8, <1>9 DEF Next

LEMMA StutterIInv ==
  ASSUME IInv, UNCHANGED vars
  PROVE  IInv'
  BY DEF vars, IInv, TypeOK, RefcountExact, FreeIffUnowned, PlannedSlotsPrivate, TablesCover,
         Holders, Capacity, Owners

(* The accounting invariant holds in every reachable state, whatever the     *)
(* pool, the requests, the block size and the cap of the prefix cache.       *)
THEOREM Accounting == Spec => []IInv
<1>1. Init => IInv
  BY InitIInv
<1>2. IInv /\ [Next]_vars => IInv'
  BY NextIInv, StutterIInv
<1> QED
  BY <1>1, <1>2, PTL DEF Spec

(* The state of the pool, the tables and the prefix cache keeps its types.   *)
THEOREM TypeCorrect == Spec => []TypeOK
<1>1. IInv => TypeOK
  BY DEF IInv
<1> QED
  BY <1>1, Accounting, PTL

(* BlockAllocator: a reference count is the number of tables and entries     *)
(* that hold the block, and no table holds a block twice.                    *)
THEOREM CountsExact == Spec => []RefcountExact
<1>1. IInv => RefcountExact
  BY DEF IInv
<1> QED
  BY <1>1, Accounting, PTL

(* BlockAllocator.free: no block leaks, and none is free while it is held.   *)
THEOREM NoLeak == Spec => []FreeIffUnowned
<1>1. IInv => FreeIffUnowned
  BY DEF IInv
<1> QED
  BY <1>1, Accounting, PTL

(* build_decode_window_plan: the slots fixed when a window opens stay inside *)
(* the table and belong to its request alone until the window is drained.    *)
THEOREM WindowSlotsStayPrivate == Spec => []PlannedSlotsPrivate
<1>1. IInv => PlannedSlotsPrivate
  BY DEF IInv
<1> QED
  BY <1>1, Accounting, PTL

-----------------------------------------------------------------------------
(* What the blocks hold *)

(* The tokens the blocks of an owner were filled with. *)
Filled(o) == IF o \in Requests THEN text[o] ELSE key[o]

(* The position stored at offset o of a table's i-th block. *)
Slot(i, o) == (i - 1) * BlockSize + o

Offsets == 0..(BlockSize - 1)

(* Every slot of the table that one of the tokens fills holds the history    *)
(* that ends with it.                                                        *)
Holds(mem, tbl, toks) ==
  \A i \in 1..Len(tbl), o \in Offsets :
    Slot(i, o) < Len(toks) => mem[tbl[i]][o] = SubSeq(toks, 1, Slot(i, o) + 1)

(* The inductive invariant of the contents, beside IInv. *)
Content ==
  /\ DOMAIN kv = Blocks
  /\ \A o \in Owners : Holds(kv, own[o], Filled(o))

-----------------------------------------------------------------------------
(* Slots and prefixes *)

(* Every position is a slot of the block that BlockIndex names. *)
LEMMA SlotOfPosition ==
  ASSUME NEW pos \in Nat
  PROVE  /\ BlockIndex(pos) \in Nat /\ BlockIndex(pos) >= 1
         /\ pos % BlockSize \in Offsets
         /\ Slot(BlockIndex(pos), pos % BlockSize) = pos
<1>1. BlockSize \in Nat /\ BlockSize > 0
  BY PoolAssumption
<1>2. /\ pos \div BlockSize \in Nat
      /\ pos = BlockSize * (pos \div BlockSize) + (pos % BlockSize)
      /\ pos % BlockSize \in 0..(BlockSize - 1)
  BY <1>1
<1> DEFINE d == pos \div BlockSize
           m == pos % BlockSize
<1>3. d \in Nat /\ m \in 0..(BlockSize - 1) /\ pos = BlockSize * d + m
  BY <1>2
<1>4. BlockIndex(pos) = d + 1
  BY DEF BlockIndex
<1> HIDE DEF d
<1> HIDE DEF m
<1>5. Slot(d + 1, m) = (d + 1 - 1) * BlockSize + m
  BY <1>1, <1>3 DEF Slot
<1>6. d + 1 - 1 = d /\ d * BlockSize = BlockSize * d
  BY <1>1, <1>3
<1>7. Slot(BlockIndex(pos), m) = pos
  BY <1>1, <1>3, <1>4, <1>5, <1>6
<1> QED
  BY <1>3, <1>4, <1>7 DEF m, Offsets

(* A slot is a position of its block, and of no earlier or later one. *)
LEMMA SlotBounds ==
  ASSUME NEW i \in Nat, i >= 1, NEW o \in Offsets
  PROVE  /\ Slot(i, o) \in Nat /\ (i - 1) * BlockSize \in Nat /\ i * BlockSize \in Nat
         /\ (i - 1) * BlockSize <= Slot(i, o) /\ Slot(i, o) < i * BlockSize
<1>1. BlockSize \in Nat /\ BlockSize > 0 /\ i - 1 \in Nat /\ o \in Nat /\ o < BlockSize
  BY PoolAssumption DEF Offsets
<1>2. i * BlockSize = (i - 1) * BlockSize + BlockSize /\ (i - 1) * BlockSize \in Nat
  BY <1>1
<1> QED
  BY <1>1, <1>2 DEF Slot

(* A slot below n positions lies within the q blocks that hold them. *)
LEMMA SlotWithin ==
  ASSUME NEW i \in Nat, i >= 1, NEW o \in Offsets, NEW q \in Nat, Slot(i, o) < q * BlockSize
  PROVE  i <= q
<1>1. SUFFICES ASSUME q + 1 <= i PROVE FALSE
  OBVIOUS
<1>2. q <= i - 1 /\ i - 1 \in Nat
  BY <1>1
<1>3. q * BlockSize <= (i - 1) * BlockSize
  BY <1>2, TimesMonotonic
<1>4. q * BlockSize \in Nat
  BY PoolAssumption
<1> QED
  BY <1>3, <1>4, SlotBounds

(* Sequences that agree on their first n members have the same prefix. *)
LEMMA SamePrefix ==
  ASSUME NEW S, NEW s \in Seq(S), NEW t \in Seq(S), NEW n \in Nat, n <= Len(s), n <= Len(t),
         \A k \in 1..n : s[k] = t[k]
  PROVE  SubSeq(s, 1, n) = SubSeq(t, 1, n)
<1>1. Len(s) \in Nat /\ Len(t) \in Nat
  BY LenProperties
<1>2. (\A k \in 1..n : s[k] \in S) /\ (\A k \in 1..n : t[k] \in S)
  BY <1>1, ElementOfSeq
<1>3. /\ SubSeq(s, 1, n) \in Seq(S) /\ Len(SubSeq(s, 1, n)) = n
      /\ \A k \in 1..n : SubSeq(s, 1, n)[k] = s[k]
  BY <1>2, SubSeqProperties
<1>4. /\ SubSeq(t, 1, n) \in Seq(S) /\ Len(SubSeq(t, 1, n)) = n
      /\ \A k \in 1..n : SubSeq(t, 1, n)[k] = t[k]
  BY <1>2, SubSeqProperties
<1> QED
  BY <1>3, <1>4, SeqEqual

(* The prefix of n tokens, and the tokens it starts with. *)
LEMMA PrefixOf ==
  ASSUME NEW S, NEW s \in Seq(S), NEW n \in Nat, n <= Len(s)
  PROVE  /\ SubSeq(s, 1, n) \in Seq(S) /\ Len(SubSeq(s, 1, n)) = n
         /\ \A k \in 1..n : SubSeq(s, 1, n)[k] = s[k]
<1>1. \A k \in 1..n : s[k] \in S
  BY LenProperties, ElementOfSeq
<1> QED
  BY <1>1, SubSeqProperties

(* tbl2 and toks2 are a prefix of tbl and toks, up to spare blocks behind    *)
(* the tokens, and the blocks kept their slots.                              *)
Continues(mem2, tbl2, toks2, mem, tbl, toks) ==
  /\ tbl \in Seq(Blocks) /\ toks \in Seq(Tokens) /\ Len(toks) <= Len(tbl) * BlockSize
  /\ tbl2 \in Seq(Blocks) /\ toks2 \in Seq(Tokens) /\ Len(toks2) <= Len(toks)
  /\ \A i \in 1..Len(tbl2) : i <= Len(tbl) => tbl2[i] = tbl[i] /\ mem2[tbl[i]] = mem[tbl[i]]
  /\ \A k \in 1..Len(toks2) : toks2[k] = toks[k]

(* ... then it holds what the other one held. *)
LEMMA HoldsPrefix ==
  ASSUME NEW mem2, NEW tbl2, NEW toks2, NEW mem, NEW tbl, NEW toks,
         Continues(mem2, tbl2, toks2, mem, tbl, toks), Holds(mem, tbl, toks)
  PROVE  Holds(mem2, tbl2, toks2)
<1> USE DEF Continues
<1>1. SUFFICES ASSUME NEW i \in 1..Len(tbl2), NEW o \in Offsets, Slot(i, o) < Len(toks2)
               PROVE  mem2[tbl2[i]][o] = SubSeq(toks2, 1, Slot(i, o) + 1)
  BY DEF Holds
<1>2. Len(tbl) \in Nat /\ Len(tbl2) \in Nat /\ Len(toks) \in Nat /\ Len(toks2) \in Nat
  BY LenProperties
<1> DEFINE n == Slot(i, o) + 1
<1>3. i \in Nat /\ i >= 1
  BY <1>2
<1>4. Slot(i, o) \in Nat
  BY <1>3, SlotBounds
<1>5. n \in Nat /\ n <= Len(toks2) /\ n <= Len(toks) /\ Slot(i, o) < Len(toks)
  BY <1>1, <1>2, <1>4
<1>6. i \in 1..Len(tbl)
  <2>1. Len(tbl) * BlockSize \in Nat
    BY <1>2, PoolAssumption
  <2>2. Slot(i, o) < Len(tbl) * BlockSize
    BY <1>2, <1>4, <1>5, <2>1
  <2> QED
    BY <1>2, <1>3, <2>2, SlotWithin
<1>7. mem2[tbl2[i]][o] = SubSeq(toks, 1, n)
  <2>1. mem2[tbl2[i]] = mem[tbl[i]]
    BY <1>2, <1>6
  <2>2. mem[tbl[i]][o] = SubSeq(toks, 1, n)
    BY <1>5, <1>6, Zenon DEF Holds
  <2> QED
    BY <2>1, <2>2
<1> HIDE DEF n
<1>8. \A k \in 1..n : toks2[k] = toks[k]
  BY <1>2, <1>5
<1>9. SubSeq(toks2, 1, n) = SubSeq(toks, 1, n)
  BY <1>5, <1>8, SamePrefix
<1> QED
  BY <1>7, <1>9 DEF n

(* An empty table holds no tokens. *)
LEMMA HoldsNothing ==
  ASSUME NEW mem, NEW toks
  PROVE  Holds(mem, <<>>, toks)
<1>1. \A i \in 1..Len(<<>>) : FALSE
  BY EmptyTable
<1> QED
  BY <1>1 DEF Holds

-----------------------------------------------------------------------------
(* What an append does to the tables and the memory *)

(* The tokens the table of r holds after the append. *)
Kept(r, toks, kept) == SubSeq(text[r] \o toks, 1, Len(text[r]) + kept)

(* r and its siblings end with table tbl: old blocks of r that nobody else   *)
(* reads, or that the append does not reach, and blocks the pool offered     *)
(* after the evictions in E.                                                 *)
Appended(r, toks, kept, siblings, E, tbl) ==
  /\ IsTable(tbl)
  /\ \A i \in 1..Len(tbl) :
       \/ i \in NewBlocks(r, Len(toks)) /\ tbl[i] \in free \cup Returned(E)
       \/ i \in 1..Len(own[r]) /\ i \notin Copied(r, Len(toks)) /\ tbl[i] = own[r][i]
  /\ kept < Len(toks) => Len(tbl) <= BlocksFor(Len(text[r]) + kept)
  /\ own' = [o \in Owners |-> IF o = r \/ o \in siblings THEN tbl
                              ELSE IF o \in E THEN <<>> ELSE own[o]]
  /\ text' = [q \in Requests |-> IF q = r \/ q \in siblings THEN Kept(r, toks, kept) ELSE text[q]]
  /\ key' = [e \in Entries |-> IF e \in E THEN <<>> ELSE key[e]]
  /\ kv' = [b \in Blocks |->
       IF b \in Range(tbl) THEN BlockAfter(r, toks, CHOOSE i \in 1..Len(tbl) : tbl[i] = b)
       ELSE IF b \in free' THEN Blank ELSE kv[b]]

LEMMA AppendEffect ==
  ASSUME IInv, NEW r \in Requests, NEW toks \in Seq(Tokens), NEW kept \in 0..Len(toks),
         NEW siblings \in SUBSET Requests, AppendKV(r, toks, kept, siblings)
  PROVE  \E tbl : Appended(r, toks, kept, siblings, Evicted(Cardinality(NewBlocks(r, Len(toks)))), tbl)
<1> DEFINE new     == NewBlocks(r, Len(toks))
           E       == Evicted(Cardinality(new))
           all     == text[r] \o toks
           keep    == Kept(r, toks, kept)
           last    == IF Len(own[r]) > BlocksFor(Len(all)) THEN Len(own[r]) ELSE BlocksFor(Len(all))
           end     == IF kept < Len(toks) /\ BlocksFor(Len(keep)) < last
                      THEN BlocksFor(Len(keep)) ELSE last
           Tbl(f)  == SubSeq(Patched(r, f), 1, end)
           avail   == free \cup Returned(E)
<1>1. PICK fresh \in [new -> avail] :
        /\ IsInjective(fresh)
        /\ own' = [o \in Owners |-> IF o = r \/ o \in siblings THEN Tbl(fresh)
                                    ELSE IF o \in E THEN <<>> ELSE own[o]]
        /\ kv' = [b \in Blocks |->
             IF b \in Range(Tbl(fresh))
             THEN BlockAfter(r, toks, CHOOSE i \in 1..end : Tbl(fresh)[i] = b)
             ELSE IF b \in free' THEN Blank ELSE kv[b]]
  BY Zenon DEF AppendKV, Kept
<1>2. /\ text' = [q \in Requests |-> IF q = r \/ q \in siblings THEN keep ELSE text[q]]
      /\ key' = [e \in Entries |-> IF e \in E THEN <<>> ELSE key[e]]
  BY Zenon DEF AppendKV, Kept
<1>3. /\ own[r] \in Seq(Blocks) /\ text[r] \in Seq(Tokens) /\ IsTable(own[r])
      /\ RefcountExact /\ FreeIffUnowned /\ r \in Owners
      /\ Len(toks) \in Nat /\ Len(text[r]) \in Nat /\ Len(own[r]) \in Nat
  BY Facts, LenProperties DEF Accounted, IsTable, Owners
<1>4. all \in Seq(Tokens) /\ Len(all) = Len(text[r]) + Len(toks)
  BY <1>3, ConcatProperties
<1>5. keep \in Seq(Tokens) /\ Len(keep) = Len(text[r]) + kept
  <2>1. Len(text[r]) + kept \in Nat /\ Len(text[r]) + kept <= Len(all)
    BY <1>3, <1>4
  <2>2. keep = SubSeq(all, 1, Len(text[r]) + kept)
    BY DEF Kept
  <2> HIDE DEF all, keep
  <2> QED
    BY <1>4, <2>1, <2>2, PrefixOf
<1>6. /\ BlocksFor(Len(all)) \in Nat /\ BlocksFor(Len(keep)) \in Nat /\ last \in Nat
      /\ \A i : i \in 1..last <=> i \in 1..Len(own[r]) \/ i \in new
  <2> DEFINE need == BlocksFor(Len(all))
  <2>1. need = BlocksFor(Len(text[r]) + Len(toks))
    BY <1>4, Zenon
  <2>2. last = IF Len(own[r]) > need THEN Len(own[r]) ELSE need
    OBVIOUS
  <2>3. BlocksFor(Len(keep)) \in Nat
    <3>1. Len(keep) \in Nat
      BY <1>3, <1>5
    <3> HIDE DEF keep
    <3> QED
      BY <3>1, BlocksForCovers
  <2> HIDE DEF last, need
  <2>4. need \in Nat /\ last \in Nat
    BY <1>3, <2>1, <2>2, NewBlocksExtend
  <2>5. own[r] \in Seq(Blocks) /\ text[r] \in Seq(Tokens) /\ Len(toks) \in Nat /\ r \in Requests
    BY <1>3
  <2>6. \A i : i \in 1..last <=> i \in 1..Len(own[r]) \/ i \in new
    BY ONLY <2>1, <2>2, <2>5, NewBlocksExtend
  <2> QED
    BY <2>3, <2>4, <2>6 DEF need
<1>7. end \in 0..last /\ (kept < Len(toks) => end <= BlocksFor(Len(keep)))
  <2> HIDE DEF last, keep, all
  <2> QED
    BY <1>6
<1> DEFINE full == Patched(r, fresh)
           tbl  == Tbl(fresh)
<1>8. E \subseteq Entries /\ E \subseteq Owners /\ r \notin E /\ avail \subseteq Blocks
  <2>1. E \subseteq Entries
    BY Facts, EvictedAreEntries
  <2> HIDE DEF E
  <2> QED
    BY <2>1, Facts, PoolAssumption DEF Owners, Returned, Accounted
<1>9. \A b \in Range(own[r]) : b \notin avail
  <2>1. SUFFICES ASSUME NEW b \in Range(own[r]), b \in avail PROVE FALSE
    OBVIOUS
  <2>2. Holders(b) \ E = {}
    BY <1>3, <1>8, <2>1, AvailableExact
  <2>3. r \in Holders(b)
    BY <1>3, <2>1 DEF Holders
  <2> QED
    BY <1>8, <2>2, <2>3, Zenon
<1>10. IsTable(full) /\ Len(full) = last
  <2>1. Patches(r, fresh, new, avail, last)
    BY <1>1, <1>3, <1>6, <1>8, <1>9 DEF Patches
  <2> HIDE DEF new, avail, last, E
  <2> QED
    BY <2>1, PatchedTable DEF full
<1>11. \A i \in 1..last : full[i] = IF i \in new THEN fresh[i] ELSE own[r][i]
  <2>1. DOMAIN own[r] = 1..Len(own[r]) /\ DOMAIN fresh = new
    BY <1>1, <1>3, LenProperties
  <2>2. \A i \in 1..last : i \in DOMAIN own[r] \cup DOMAIN fresh
    BY <1>6, <2>1
  <2> HIDE DEF new, last
  <2> QED
    BY <2>1, <2>2 DEF full, Patched
<1>12. \A i \in new : fresh[i] \in avail
  BY <1>1
<1> HIDE DEF last, end, avail, full, new, E
<1>13. tbl = SubSeq(full, 1, end)
  BY DEF full
<1> HIDE DEF Tbl
<1>14. /\ IsTable(tbl) /\ Len(tbl) = end
       /\ \A i \in 1..end : tbl[i] = full[i]
  <2>1. end \in 0..Len(full) /\ end \in Nat /\ end <= Len(full)
    BY <1>6, <1>7, <1>10
  <2>2. IsTable(SubSeq(full, 1, end)) /\ Len(SubSeq(full, 1, end)) = end
    BY <1>10, <2>1, TablePrefix
  <2>3. \A i \in 1..end : SubSeq(full, 1, end)[i] = full[i]
    BY <1>10, <2>1, PrefixOf DEF IsTable
  <2> QED
    BY <1>13, <2>2, <2>3
<1> HIDE DEF tbl
<1>15. \A i \in 1..Len(tbl) :
         \/ i \in NewBlocks(r, Len(toks)) /\ tbl[i] \in free \cup Returned(E)
         \/ i \in 1..Len(own[r]) /\ i \notin Copied(r, Len(toks)) /\ tbl[i] = own[r][i]
  <2>1. TAKE i \in 1..Len(tbl)
  <2>2. i \in 1..last /\ tbl[i] = full[i]
    BY <1>6, <1>7, <1>14, <2>1
  <2>3. CASE i \in new
    <3>1. tbl[i] \in avail
      BY <1>11, <1>12, <2>2, <2>3
    <3> QED
      BY <2>3, <3>1 DEF new, avail
  <2>4. CASE i \notin new
    <3>1. tbl[i] = own[r][i] /\ i \in 1..Len(own[r])
      BY <1>6, <1>11, <2>2, <2>4
    <3>2. i \notin Copied(r, Len(toks))
      BY <2>4 DEF new, NewBlocks
    <3> QED
      BY <3>1, <3>2
  <2> QED
    BY <2>3, <2>4
<1>16. kept < Len(toks) => Len(tbl) <= BlocksFor(Len(text[r]) + kept)
  BY <1>5, <1>7, <1>14
<1>17. own' = [o \in Owners |-> IF o = r \/ o \in siblings THEN tbl
                               ELSE IF o \in E THEN <<>> ELSE own[o]]
  BY <1>1 DEF tbl
<1>18. kv' = [b \in Blocks |->
         IF b \in Range(tbl) THEN BlockAfter(r, toks, CHOOSE i \in 1..Len(tbl) : tbl[i] = b)
         ELSE IF b \in free' THEN Blank ELSE kv[b]]
  <2> DEFINE At(n, b) == CHOOSE i \in 1..n : tbl[i] = b
  <2>1. kv' = [b \in Blocks |->
         IF b \in Range(tbl) THEN BlockAfter(r, toks, At(end, b))
         ELSE IF b \in free' THEN Blank ELSE kv[b]]
    BY <1>1, Zenon DEF tbl
  <2> HIDE DEF At
  <2>2. kv' = [b \in Blocks |->
         IF b \in Range(tbl) THEN BlockAfter(r, toks, At(Len(tbl), b))
         ELSE IF b \in free' THEN Blank ELSE kv[b]]
    BY <1>14, <2>1, Zenon
  <2> QED
    BY <2>2 DEF At
<1>19. Appended(r, toks, kept, siblings, E, tbl)
  BY <1>2, <1>14, <1>15, <1>16, <1>17, <1>18, Zenon DEF Appended
<1> QED
  BY <1>19, Zenon DEF E, new

-----------------------------------------------------------------------------
(* A block the append writes without copying it *)

(* The more blocks are needed, the more entries are evicted. *)
LEMMA EvictedMonotonic ==
  ASSUME lru \in Seq(Entries), free \subseteq Blocks,
         NEW m \in Nat, NEW n \in Nat, m <= n
  PROVE  Evicted(m) \subseteq Evicted(n)
<1> DEFINE pool(k) == Cardinality(free \cup Returned(Oldest(k)))
<1>1. \A k : pool(k) \in Nat
  <2>1. TAKE k
  <2>2. free \cup Returned(Oldest(k)) \in SUBSET Blocks
    BY DEF Returned
  <2> QED
    BY <2>2, PoolAssumption, FS_Subset, FS_CardinalityType
<1>2. \A k, need : Suffices(k, need) <=> k = Len(lru) \/ pool(k) >= need
  BY DEF Suffices
<1> HIDE DEF pool
<1>3. \A k : Suffices(k, n) => Suffices(k, m)
  BY <1>1, <1>2
<1>4. /\ Len(lru) \in Nat
      /\ Evictions(m) \in 0..Len(lru) /\ Evictions(n) \in 0..Len(lru)
      /\ Suffices(Evictions(n), n)
      /\ \A k \in 0..(Evictions(m) - 1) : ~Suffices(k, m)
  BY EvictionsLeast, LenProperties
<1>5. Evictions(m) <= Evictions(n)
  <2>1. ~(Evictions(n) \in 0..(Evictions(m) - 1))
    BY <1>3, <1>4
  <2> QED
    BY <1>4, <2>1
<1> QED
  BY <1>4, <1>5 DEF Evicted, Oldest

(* An old block of r that the append reaches and does not copy is r's alone  *)
(* once the entries are evicted.                                             *)
LEMMA NotCopiedIsSole ==
  ASSUME IInv, NEW r \in Requests, NEW count \in Nat, NEW i \in 1..Len(own[r]),
         BlockIndex(Len(text[r])) <= i, i <= BlocksFor(Len(text[r]) + count),
         i \notin Copied(r, count),
         NEW q \in Owners, own[r][i] \in Range(own[q]),
         q \notin Evicted(Cardinality(NewBlocks(r, count)))
  PROVE  q = r
<1> DEFINE b == own[r][i]
           grow == Growth(r, count)
           E == Evicted(Cardinality(grow))
           need == BlocksFor(Len(text[r]) + count)
<1>1. /\ RefcountExact /\ lru \in Seq(Entries) /\ free \subseteq Blocks /\ r \in Owners
      /\ own[r] \in Seq(Blocks) /\ text[r] \in Seq(Tokens)
      /\ Len(own[r]) \in Nat /\ Len(text[r]) \in Nat
  BY Facts, LenProperties DEF Accounted, Owners
<1>2. b \in Blocks /\ b \in Range(own[r])
  BY <1>1, ElementOfSeq, LenProperties DEF Range
<1>3. need \in Nat
  <2>1. Len(text[r]) + count \in Nat
    BY <1>1
  <2> QED
    BY <2>1, BlocksForCovers
<1>4. RefAfter(E)[b] <= 1
  <2>1. BlockIndex(Len(text[r])) \in Nat
    BY <1>1, SlotOfPosition
  <2>2. i \in BlockIndex(Len(text[r]))..need
    BY <1>1, <1>3, <2>1
  <2>3. E \subseteq Owners
    BY <1>1, EvictedAreEntries DEF Owners
  <2>4. RefAfter(E)[b] \in Nat
    BY <1>1, <1>2, <2>3, ReleaseExact
  <2>5. ~(RefAfter(E)[b] > 1)
    BY <1>1, <2>2 DEF Copied
  <2> QED
    BY <2>4, <2>5
<1>5. E \subseteq Evicted(Cardinality(NewBlocks(r, count)))
  <2>1. grow \subseteq NewBlocks(r, count)
    BY DEF NewBlocks
  <2>2. NewBlocks(r, count) \subseteq 1..(Len(own[r]) + need)
    <3>1. BlockIndex(Len(text[r])) \in Nat /\ BlockIndex(Len(text[r])) >= 1
      BY <1>1, SlotOfPosition
    <3>2. \A j \in Copied(r, count) : j \in 1..(Len(own[r]) + need)
      BY <1>1, <1>3, <3>1 DEF Copied
    <3>3. \A j \in grow : j \in 1..(Len(own[r]) + need)
      BY <1>1, <1>3 DEF Growth
    <3> QED
      BY <3>2, <3>3 DEF NewBlocks
  <2>3. IsFiniteSet(NewBlocks(r, count))
    <3> DEFINE top == Len(own[r]) + need
    <3>1. top \in Int
      BY <1>1, <1>3
    <3>2. NewBlocks(r, count) \subseteq 1..top
      BY <2>2
    <3> HIDE DEF top
    <3>3. IsFiniteSet(1..top)
      BY <3>1, FS_Interval
    <3> QED
      BY <3>2, <3>3, FS_Subset
  <2> HIDE DEF grow
  <2>4. /\ IsFiniteSet(grow) /\ Cardinality(grow) \in Nat
        /\ Cardinality(NewBlocks(r, count)) \in Nat
        /\ Cardinality(grow) <= Cardinality(NewBlocks(r, count))
    BY <2>1, <2>3, FS_Subset, FS_CardinalityType
  <2> QED
    BY <1>1, <2>4, EvictedMonotonic DEF E
<1>6. E \subseteq Owners
  BY <1>1, EvictedAreEntries DEF Owners
<1>7. r \notin E /\ q \notin E
  <2>1. E \subseteq Entries
    BY <1>1, EvictedAreEntries
  <2> HIDE DEF E
  <2> QED
    BY <1>5, <2>1, PoolAssumption
<1> HIDE DEF E, b
<1> DEFINE H == Holders(b) \ E
<1>8. r \in H /\ q \in H
  BY <1>1, <1>2, <1>7 DEF Holders, b
<1>9. IsFiniteSet(H) /\ Cardinality(H) \in Nat /\ Cardinality(H) <= 1
  <2>1. RefAfter(E)[b] = Cardinality(H)
    BY <1>1, <1>2, <1>6, ReleaseExact
  <2>2. IsFiniteSet(H) /\ Cardinality(H) \in Nat
    BY HoldersFinite, FS_Difference, FS_CardinalityType
  <2> QED
    BY <1>4, <2>1, <2>2
<1> HIDE DEF H
<1>10. Cardinality(H) = 1
  <2>1. Cardinality(H) # 0
    BY <1>8, <1>9, FS_EmptySet
  <2> QED
    BY <1>9, <2>1
<1>11. PICK x : H = {x}
  BY <1>9, <1>10, FS_Singleton
<1> QED
  BY <1>8, <1>11

(* A slot the append fills lies in a block the append reaches. *)
LEMMA SlotReached ==
  ASSUME NEW m \in Nat, NEW n \in Nat, NEW i \in Nat, i >= 1, NEW o \in Offsets,
         m <= Slot(i, o), Slot(i, o) < n
  PROVE  BlockIndex(m) <= i /\ i <= BlocksFor(n)
<1>1. BlocksFor(n) \in Nat /\ n <= BlocksFor(n) * BlockSize /\ BlocksFor(n) * BlockSize \in Nat
  BY BlocksForCovers, PoolAssumption
<1>2. Slot(i, o) \in Nat /\ Slot(i, o) < i * BlockSize /\ i * BlockSize \in Nat
  BY SlotBounds
<1>3. i <= BlocksFor(n)
  <2>1. Slot(i, o) < BlocksFor(n) * BlockSize
    BY <1>1, <1>2
  <2> QED
    BY <1>1, <2>1, SlotWithin
<1>4. /\ BlockIndex(m) \in Nat /\ BlockIndex(m) >= 1 /\ m % BlockSize \in Offsets
      /\ Slot(BlockIndex(m), m % BlockSize) = m
  BY SlotOfPosition
<1>5. BlockIndex(m) <= i
  <2>1. Slot(BlockIndex(m), m % BlockSize) < i * BlockSize
    BY <1>2, <1>4
  <2> QED
    BY <1>4, <2>1, SlotWithin
<1> QED
  BY <1>3, <1>5

(* What an append leaves in the slots of the table's i-th block. *)
LEMMA BlockAfterSlot ==
  ASSUME NEW r, NEW toks, NEW i, NEW o \in Offsets
  PROVE  BlockAfter(r, toks, i)[o] =
           IF Slot(i, o) >= Len(text[r]) /\ Slot(i, o) < Len(text[r] \o toks)
           THEN SubSeq(text[r] \o toks, 1, Slot(i, o) + 1)
           ELSE (IF i <= Len(own[r]) THEN kv[own[r][i]] ELSE Blank)[o]
  BY Zenon DEF BlockAfter, Slot, Offsets

-----------------------------------------------------------------------------
(* The contents, action by action *)

(* After a step that kept the accounts, a held block is not on the free list. *)
LEMMA HeldNotFree ==
  ASSUME RefcountExact', FreeIffUnowned', NEW q \in Owners, NEW b \in Blocks, b \in Range(own'[q])
  PROVE  b \notin free'
<1>1. q \in Holders(b)'
  BY DEF Holders, Owners
<1>2. Holders(b)' \in SUBSET Owners /\ IsFiniteSet(Owners)
  BY PoolAssumption, FS_Union DEF Holders, Owners
<1>3. IsFiniteSet(Holders(b)') /\ Holders(b)' # {}
  BY <1>1, <1>2, FS_Subset
<1>4. Cardinality(Holders(b)') # 0
  BY <1>3, FS_EmptySet
<1>5. refcount'[b] = Cardinality(Holders(b)')
  BY DEF RefcountExact
<1> QED
  BY <1>4, <1>5 DEF FreeIffUnowned

(* The types the steps below use. *)
LEMMA ContentFacts ==
  ASSUME IInv, NEW q \in Owners
  PROVE  /\ own[q] \in Seq(Blocks) /\ Len(own[q]) \in Nat
         /\ Filled(q) \in Seq(Tokens) /\ Len(Filled(q)) \in Nat
         /\ Len(Filled(q)) <= Len(own[q]) * BlockSize
         /\ \A i \in 1..Len(own[q]) : own[q][i] \in Blocks /\ own[q][i] \in Range(own[q])
<1>1. own[q] \in Seq(Blocks) /\ Filled(q) \in Seq(Tokens)
  BY Facts DEF IsTable, Filled, Owners
<1>2. Len(own[q]) \in Nat /\ Len(Filled(q)) \in Nat
  BY <1>1, LenProperties
<1>3. Len(Filled(q)) <= Len(own[q]) * BlockSize
  <2>1. CASE q \in Requests
    BY <2>1, Facts DEF Filled
  <2>2. CASE q \notin Requests
    <3>1. q \in Entries
      BY <2>2 DEF Owners
    <3> QED
      BY <1>2, <2>2, <3>1, Facts DEF Filled
  <2> QED
    BY <2>1, <2>2
<1>4. \A i \in 1..Len(own[q]) : own[q][i] \in Blocks /\ own[q][i] \in Range(own[q])
  BY <1>1, ElementOfSeq, LenProperties DEF Range
<1> QED
  BY <1>1, <1>2, <1>3, <1>4

(* q's new table and tokens are what p held, up to some length; the table    *)
(* may have spare blocks behind them.                                        *)
Follows(q, p) ==
  /\ \A i \in 1..Len(own'[q]) : i <= Len(own[p]) => own'[q][i] = own[p][i]
  /\ Len(Filled(q)') <= Len(Filled(p))
  /\ \A k \in 1..Len(Filled(q)') : Filled(q)'[k] = Filled(p)[k]

(* A step that stores nothing, and touches only blocks it frees, keeps what  *)
(* every owner holds.                                                        *)
LEMMA ContentKept ==
  ASSUME IInv, IInv', Content, DOMAIN kv' = Blocks,
         \A b \in Blocks : b \notin free' => kv'[b] = kv[b],
         \A q \in Owners : \E p \in Owners : Follows(q, p)
  PROVE  Content'
<1>1. RefcountExact' /\ FreeIffUnowned' /\ TypeOK'
  BY DEF IInv
<1>2. ASSUME NEW q \in Owners
      PROVE  Holds(kv', own'[q], Filled(q)')
  <2>1. PICK p \in Owners : Follows(q, p)
    BY <1>2
  <2>2. own'[q] \in Seq(Blocks) /\ Filled(q)' \in Seq(Tokens)
    BY <1>1, <1>2 DEF TypeOK, Filled, Owners
  <2>3. \A i \in 1..Len(own'[q]) : i <= Len(own[p]) => own'[q][i] = own[p][i] /\ kv'[own[p][i]] = kv[own[p][i]]
    <3>1. TAKE i \in 1..Len(own'[q])
    <3>2. own'[q][i] \in Blocks /\ own'[q][i] \in Range(own'[q])
      BY <2>2, ElementOfSeq, LenProperties DEF Range
    <3>3. own'[q][i] \notin free'
      BY <1>1, <1>2, <3>2, HeldNotFree
    <3> QED
      BY <2>1, <3>2, <3>3 DEF Follows
  <2>4. /\ Holds(kv, own[p], Filled(p)) /\ own[p] \in Seq(Blocks) /\ Filled(p) \in Seq(Tokens)
        /\ Len(Filled(p)) <= Len(own[p]) * BlockSize
    BY ContentFacts DEF Content
  <2>5. /\ Len(Filled(q)') <= Len(Filled(p))
        /\ \A k \in 1..Len(Filled(q)') : Filled(q)'[k] = Filled(p)[k]
    BY <2>1 DEF Follows
  <2> DEFINE tbl2 == own'[q]
             toks2 == Filled(q)'
             mem2 == kv'
  <2>6. Continues(mem2, tbl2, toks2, kv, own[p], Filled(p))
    BY <2>2, <2>3, <2>4, <2>5 DEF Continues
  <2> HIDE DEF tbl2, toks2, mem2
  <2>7. Holds(mem2, tbl2, toks2)
    BY <2>4, <2>6, HoldsPrefix
  <2> QED
    BY <2>7 DEF tbl2, toks2, mem2
<1>3. \A q \in Owners : Holds(kv, own[q], Filled(q))'
  BY <1>2 DEF Holds, Offsets, Slot
<1> QED
  BY <1>3 DEF Content, Owners

(* Two ways to follow: an owner keeps what it has, or lets everything go. *)
LEMMA FollowsItself ==
  ASSUME IInv, NEW q \in Owners, own'[q] = own[q], Filled(q)' = Filled(q)
  PROVE  Follows(q, q)
  BY ContentFacts DEF Follows

LEMMA FollowsEmpty ==
  ASSUME IInv, NEW q \in Owners, own'[q] = <<>>, Filled(q)' = <<>>
  PROVE  Follows(q, q)
<1>1. Len(<<>>) = 0 /\ Len(Filled(q)) \in Nat
  BY EmptyTable, ContentFacts
<1> QED
  BY <1>1 DEF Follows

(* An append stores each token's history into blocks of its own table; what  *)
(* the others hold in a block it writes in place was stored before.          *)
LEMMA AppendContent ==
  ASSUME IInv, IInv', Content, NEW r \in Requests, NEW toks \in Seq(Tokens),
         NEW kept \in 0..Len(toks), NEW siblings \in SUBSET Requests,
         AppendKV(r, toks, kept, siblings)
  PROVE  Content'
<1> DEFINE E    == Evicted(Cardinality(NewBlocks(r, Len(toks))))
           all  == text[r] \o toks
           keep == Kept(r, toks, kept)
<1>1. PICK tbl : Appended(r, toks, kept, siblings, E, tbl)
  BY AppendEffect
<1>2. /\ IsTable(tbl) /\ tbl \in Seq(Blocks) /\ IsInjective(tbl)
      /\ own' = [o \in Owners |-> IF o = r \/ o \in siblings THEN tbl
                                  ELSE IF o \in E THEN <<>> ELSE own[o]]
      /\ text' = [q \in Requests |-> IF q = r \/ q \in siblings THEN keep ELSE text[q]]
      /\ key' = [e \in Entries |-> IF e \in E THEN <<>> ELSE key[e]]
      /\ kv' = [b \in Blocks |->
           IF b \in Range(tbl) THEN BlockAfter(r, toks, CHOOSE i \in 1..Len(tbl) : tbl[i] = b)
           ELSE IF b \in free' THEN Blank ELSE kv[b]]
  BY <1>1, Zenon DEF Appended, IsTable
<1>3. \A i \in 1..Len(tbl) :
        \/ i \in NewBlocks(r, Len(toks)) /\ tbl[i] \in free \cup Returned(E)
        \/ i \in 1..Len(own[r]) /\ i \notin Copied(r, Len(toks)) /\ tbl[i] = own[r][i]
  BY <1>1 DEF Appended
<1>4. /\ r \in Owners /\ E \subseteq Entries /\ E \subseteq Owners /\ r \notin E
      /\ Len(toks) \in Nat /\ Len(text[r]) \in Nat /\ text[r] \in Seq(Tokens) /\ Len(own[r]) \in Nat
      /\ RefcountExact /\ FreeIffUnowned /\ RefcountExact' /\ FreeIffUnowned'
      /\ Len(tbl) \in Nat /\ DOMAIN tbl = 1..Len(tbl)
  <2>1. E \subseteq Entries
    BY Facts, EvictedAreEntries
  <2> HIDE DEF E
  <2> QED
    BY <1>2, <2>1, Facts, PoolAssumption, LenProperties DEF Owners, Accounted, IInv, IsTable
<1> HIDE DEF E
<1>5. all \in Seq(Tokens) /\ Len(all) = Len(text[r]) + Len(toks)
  BY <1>4, ConcatProperties
<1>6. /\ keep \in Seq(Tokens) /\ Len(keep) = Len(text[r]) + kept /\ Len(keep) <= Len(all)
      /\ \A k \in 1..Len(keep) : keep[k] = all[k]
  <2>1. Len(text[r]) + kept \in Nat /\ Len(text[r]) + kept <= Len(all)
    BY <1>4, <1>5
  <2>2. keep = SubSeq(all, 1, Len(text[r]) + kept)
    BY DEF Kept
  <2> HIDE DEF all, keep
  <2> QED
    BY <1>5, <2>1, <2>2, PrefixOf
<1> HIDE DEF keep
<1>7. \A i \in 1..Len(tbl) : kv'[tbl[i]] = BlockAfter(r, toks, i)
  <2>1. TAKE i \in 1..Len(tbl)
  <2>2. tbl[i] \in Blocks /\ tbl[i] \in Range(tbl)
    BY <1>2, <1>4, ElementOfSeq DEF Range
  <2>3. \A j \in 1..Len(tbl) : tbl[j] = tbl[i] => j = i
    BY <1>2, <1>4, Zenon DEF IsInjective
  <2>4. (CHOOSE j \in 1..Len(tbl) : tbl[j] = tbl[i]) = i
    BY <2>3
  <2> QED
    BY <1>2, <2>2, <2>4
<1>8. \A i \in 1..Len(tbl), o \in Offsets :
        kv'[tbl[i]][o] =
          IF Slot(i, o) >= Len(text[r]) /\ Slot(i, o) < Len(all)
          THEN SubSeq(all, 1, Slot(i, o) + 1)
          ELSE (IF i <= Len(own[r]) THEN kv[own[r][i]] ELSE Blank)[o]
  BY <1>7, BlockAfterSlot
<1>9. Holds(kv', tbl, keep)
  <2>1. SUFFICES ASSUME NEW i \in 1..Len(tbl), NEW o \in Offsets, Slot(i, o) < Len(keep)
                 PROVE  kv'[tbl[i]][o] = SubSeq(keep, 1, Slot(i, o) + 1)
    BY DEF Holds
  <2> DEFINE n == Slot(i, o) + 1
  <2>2. i \in Nat /\ i >= 1 /\ Slot(i, o) \in Nat
    BY <1>4, SlotBounds
  <2>3. n \in Nat /\ n <= Len(keep) /\ n <= Len(all) /\ Len(keep) \in Nat /\ Len(all) \in Nat
    <3>1. Len(keep) \in Nat /\ Len(all) \in Nat
      BY <1>4, <1>5, <1>6
    <3> HIDE DEF all
    <3> QED
      BY <1>6, <2>1, <2>2, <3>1
  <2>4. SubSeq(keep, 1, n) = SubSeq(all, 1, n)
    <3> HIDE DEF n, all
    <3>1. \A k \in 1..n : keep[k] = all[k]
      BY <1>6, <2>3
    <3> QED
      BY <1>5, <1>6, <2>3, <3>1, SamePrefix
  <2>5. CASE Slot(i, o) >= Len(text[r])
    <3>1. Slot(i, o) < Len(all)
      BY <2>2, <2>3
    <3>2. kv'[tbl[i]][o] = SubSeq(all, 1, n)
      BY <1>8, <2>5, <3>1
    <3> QED
      BY <2>4, <3>2
  <2>6. CASE ~(Slot(i, o) >= Len(text[r]))
    <3>1. Slot(i, o) < Len(text[r]) /\ n <= Len(text[r])
      BY <1>4, <2>2, <2>6
    <3>2. i \in 1..Len(own[r])
      <4>1. Len(text[r]) <= Len(own[r]) * BlockSize /\ Len(own[r]) * BlockSize \in Nat
        BY <1>4, Facts, PoolAssumption
      <4>2. Slot(i, o) < Len(own[r]) * BlockSize
        BY <1>4, <2>2, <3>1, <4>1
      <4> QED
        BY <1>4, <2>2, <4>2, SlotWithin
    <3>3. kv'[tbl[i]][o] = kv[own[r][i]][o]
      BY <1>8, <2>6, <3>2
    <3>4. kv[own[r][i]][o] = SubSeq(text[r], 1, n)
      BY <1>4, <3>1, <3>2 DEF Content, Holds, Filled
    <3>5. SubSeq(text[r], 1, n) = SubSeq(all, 1, n)
      <4>1. \A k \in 1..n : text[r][k] = all[k]
        BY <1>4, <2>3, <3>1, ConcatProperties
      <4> HIDE DEF n, all
      <4> QED
        BY <1>4, <1>5, <2>3, <3>1, <4>1, SamePrefix
    <3> QED
      BY <2>4, <3>3, <3>4, <3>5
  <2> QED
    BY <2>5, <2>6
<1>10. ASSUME NEW q \in Owners, q # r, q \notin siblings, q \notin E
       PROVE  Holds(kv', own[q], Filled(q))
  <2>1. own'[q] = own[q]
    BY <1>2, <1>10
  <2>2. SUFFICES ASSUME NEW i \in 1..Len(own[q]), NEW o \in Offsets, Slot(i, o) < Len(Filled(q))
                 PROVE  kv'[own[q][i]][o] = kv[own[q][i]][o]
    BY DEF Content, Holds
  <2> DEFINE b == own[q][i]
  <2>3. b \in Blocks /\ b \in Range(own[q])
    BY <1>10, ContentFacts
  <2>4. b \notin free'
    BY <1>4, <1>10, <2>1, <2>3, HeldNotFree
  <2>5. CASE b \notin Range(tbl)
    BY <1>2, <2>3, <2>4, <2>5
  <2>6. CASE b \in Range(tbl)
    <3>1. PICK j \in 1..Len(tbl) : tbl[j] = b
      BY <1>4, <2>6 DEF Range
    <3>2. b \notin free \cup Returned(E)
      <4>1. q \in Holders(b) \ E
        BY <1>10, <2>3 DEF Holders
      <4> QED
        BY <1>4, <2>3, <4>1, AvailableExact
    <3>3. j \in 1..Len(own[r]) /\ j \notin Copied(r, Len(toks)) /\ own[r][j] = b
      BY <1>3, <3>1, <3>2
    <3>4. ~(Slot(j, o) >= Len(text[r]) /\ Slot(j, o) < Len(all))
      <4>1. SUFFICES ASSUME Slot(j, o) >= Len(text[r]), Slot(j, o) < Len(text[r]) + Len(toks)
                     PROVE  FALSE
        BY <1>5
      <4> HIDE DEF b
      <4>2. j \in Nat /\ j >= 1 /\ Len(text[r]) + Len(toks) \in Nat
        BY <1>4, <3>3
      <4>3. BlockIndex(Len(text[r])) <= j /\ j <= BlocksFor(Len(text[r]) + Len(toks))
        BY <1>4, <4>1, <4>2, SlotReached
      <4>4. own[r][j] \in Range(own[q])
        BY <2>3, <3>3
      <4>5. q = r
        BY <1>4, <1>10, <3>3, <4>3, <4>4, NotCopiedIsSole DEF E
      <4> QED
        BY <1>10, <4>5
    <3>5. j <= Len(own[r])
      BY <1>4, <3>3
    <3>6. kv'[tbl[j]][o] = kv[own[r][j]][o]
      BY <1>8, <3>4, <3>5
    <3> QED
      BY <3>1, <3>3, <3>6
  <2> QED
    BY <2>5, <2>6
<1>11. \A q \in Owners : Holds(kv', own'[q], Filled(q)')
  <2>1. TAKE q \in Owners
  <2>2. CASE q = r \/ q \in siblings
    <3>1. own'[q] = tbl /\ Filled(q)' = keep
      BY <1>2, <2>2 DEF Filled
    <3> QED
      BY <1>9, <3>1
  <2>3. CASE q # r /\ q \notin siblings /\ q \in E
    <3>1. own'[q] = <<>>
      BY <1>2, <2>3
    <3> QED
      BY <3>1, HoldsNothing
  <2>4. CASE q # r /\ q \notin siblings /\ q \notin E
    <3>1. own'[q] = own[q] /\ Filled(q)' = Filled(q)
      BY <1>2, <2>4 DEF Filled, Owners
    <3> QED
      BY <1>10, <2>4, <3>1
  <2> QED
    BY <2>2, <2>3, <2>4
<1>12. DOMAIN kv' = Blocks
  BY <1>2
<1>13. \A q \in Owners : Holds(kv, own[q], Filled(q))'
  BY <1>11 DEF Holds, Offsets, Slot
<1> QED
  BY <1>12, <1>13 DEF Content, Owners

(* A table that grew starts with its old blocks. *)
LEMMA PatchedKeeps ==
  ASSUME NEW r, own[r] \in Seq(Blocks), NEW fresh, \A i \in DOMAIN fresh : i > Len(own[r])
  PROVE  \A i \in 1..Len(own[r]) : Patched(r, fresh)[i] = own[r][i]
<1> TAKE i \in 1..Len(own[r])
<1>1. Len(own[r]) \in Nat /\ DOMAIN own[r] = 1..Len(own[r])
  BY LenProperties
<1>2. i \in DOMAIN own[r] /\ i \notin DOMAIN fresh
  BY <1>1
<1> QED
  BY <1>2 DEF Patched

(* Reserving the blocks of a window, or a dry pool, stores nothing. *)
LEMMA OpenWindowContent ==
  ASSUME IInv, IInv', Content, NEW r \in Requests, NEW n \in 1..MaxWrite,
         OpenWindow(r, n) \/ OutOfBlocks(r, n)
  PROVE  Content'
<1>1. PICK new, E, S, fresh :
        /\ new \in SUBSET Growth(r, n) /\ E \in SUBSET Entries /\ fresh \in [new -> S]
        /\ own' = [o \in Owners |-> IF o = r THEN Patched(r, fresh) ELSE IF o \in E THEN <<>> ELSE own[o]]
        /\ kv' = [b \in Blocks |-> IF b \in free' THEN Blank ELSE kv[b]]
        /\ key' = [e \in Entries |-> IF e \in E THEN <<>> ELSE key[e]]
        /\ text' = text
  <2>1. CASE OpenWindow(r, n)
    <3> DEFINE new == Growth(r, n)
               E   == Evicted(Cardinality(new))
               S   == free \cup Returned(E)
    <3>1. \E fresh \in [new -> S] :
            /\ own' = [o \in Owners |-> IF o = r THEN Patched(r, fresh) ELSE IF o \in E THEN <<>> ELSE own[o]]
            /\ kv' = [b \in Blocks |-> IF b \in free' THEN Blank ELSE kv[b]]
      BY <2>1, Zenon DEF OpenWindow
    <3>2. /\ key' = [e \in Entries |-> IF e \in E THEN <<>> ELSE key[e]]
          /\ text' = text
      BY <2>1, Zenon DEF OpenWindow
    <3>3. E \in SUBSET Entries /\ new \in SUBSET Growth(r, n)
      BY Facts, EvictedAreEntries
    <3> HIDE DEF new, E, S
    <3> QED
      BY <3>1, <3>2, <3>3, Zenon
  <2>2. CASE OutOfBlocks(r, n)
    <3> DEFINE E    == Oldest(Len(lru))
               S    == free \cup Returned(E)
               grow == Growth(r, n)
               new  == IF Cardinality(grow) <= Cardinality(S) THEN grow ELSE {}
    <3>1. \E fresh \in [new -> S] :
            /\ own' = [o \in Owners |-> IF o = r THEN Patched(r, fresh) ELSE IF o \in E THEN <<>> ELSE own[o]]
            /\ kv' = [b \in Blocks |-> IF b \in free' THEN Blank ELSE kv[b]]
      BY <2>2, Zenon DEF OutOfBlocks
    <3>2. /\ key' = [e \in Entries |-> IF e \in E THEN <<>> ELSE key[e]]
          /\ text' = text
      BY <2>2, Zenon DEF OutOfBlocks
    <3>3. E \in SUBSET Entries /\ new \in SUBSET Growth(r, n)
      BY Facts, ElementOfSeq DEF Oldest
    <3> HIDE DEF new, E, S
    <3> QED
      BY <3>1, <3>2, <3>3, Zenon
  <2> QED
    BY <2>1, <2>2
<1>2. ASSUME NEW q \in Owners
      PROVE  Follows(q, q)
  <2>1. CASE q = r
    <3>1. own'[r] = Patched(r, fresh) /\ Filled(r)' = Filled(r)
      BY <1>1, <1>2, <2>1 DEF Filled
    <3>2. n \in Nat /\ Len(own[r]) \in Nat /\ Len(Filled(r)) \in Nat /\ Len(own'[r]) \in Nat
      <4>1. own'[r] \in Seq(Blocks)
        BY DEF IInv, TypeOK, Owners
      <4> QED
        BY <1>2, <2>1, <4>1, ContentFacts, LenProperties
    <3>3. \A i \in 1..Len(own'[r]) : i <= Len(own[r]) => own'[r][i] = own[r][i]
      <4>0. own[r] \in Seq(Blocks) /\ \A i \in DOMAIN fresh : i > Len(own[r])
        <5>1. BlocksFor(Len(text[r]) + n) \in Nat
          <6>1. Len(text[r]) + n \in Nat
            BY <3>2, Facts, LenProperties
          <6> QED
            BY <6>1, BlocksForCovers
        <5>2. DOMAIN fresh \subseteq Growth(r, n)
          BY <1>1
        <5> QED
          BY <1>2, <2>1, <3>2, <5>1, <5>2, ContentFacts DEF Growth
      <4>1. \A i \in 1..Len(own[r]) : Patched(r, fresh)[i] = own[r][i]
        BY ONLY <4>0, PatchedKeeps
      <4> QED
        BY <3>1, <3>2, <4>1
    <3> QED
      BY <2>1, <3>1, <3>2, <3>3 DEF Follows
  <2>2. CASE q # r /\ q \in E
    <3>1. own'[q] = <<>> /\ Filled(q)' = <<>>
      BY <1>1, <2>2, PoolAssumption DEF Filled
    <3> QED
      BY <3>1, FollowsEmpty
  <2>3. CASE q # r /\ q \notin E
    <3>1. own'[q] = own[q] /\ Filled(q)' = Filled(q)
      BY <1>1, <2>3 DEF Filled, Owners
    <3> QED
      BY <3>1, FollowsItself
  <2> QED
    BY <2>1, <2>2, <2>3
<1>3. DOMAIN kv' = Blocks /\ \A b \in Blocks : b \notin free' => kv'[b] = kv[b]
  BY <1>1
<1> QED
  BY <1>2, <1>3, ContentKept

(* Letting go of a table, or of the whole cache, blanks what nobody holds. *)
LEMMA ReleaseContent ==
  ASSUME IInv, IInv', Content, Clear \/ \E r \in Requests : Drop(r)
  PROVE  Content'
<1>1. PICK D \in SUBSET Owners :
        /\ own' = [o \in Owners |-> IF o \in D THEN <<>> ELSE own[o]]
        /\ kv' = [b \in Blocks |-> IF b \in free' THEN Blank ELSE kv[b]]
        /\ \A q \in Owners : Filled(q)' = IF q \in D THEN <<>> ELSE Filled(q)
  <2>1. CASE Clear
    <3> DEFINE D == Range(lru)
    <3>1. /\ own' = [o \in Owners |-> IF o \in D THEN <<>> ELSE own[o]]
          /\ kv' = [b \in Blocks |-> IF b \in free' THEN Blank ELSE kv[b]]
          /\ key' = [e \in Entries |-> IF e \in D THEN <<>> ELSE key[e]]
          /\ text' = text
      BY <2>1 DEF Clear
    <3>2. D \in SUBSET Entries /\ D \in SUBSET Owners
      BY Facts DEF Owners
    <3> HIDE DEF D
    <3>3. \A q \in Owners : Filled(q)' = IF q \in D THEN <<>> ELSE Filled(q)
      BY <3>1, <3>2, PoolAssumption DEF Filled, Owners
    <3> QED
      BY <3>1, <3>2, <3>3, Zenon
  <2>2. CASE \E r \in Requests : Drop(r)
    <3>1. PICK r \in Requests : Drop(r)
      BY <2>2
    <3>2. /\ own' = [own EXCEPT ![r] = <<>>] /\ text' = [text EXCEPT ![r] = <<>>] /\ key' = key
          /\ kv' = [b \in Blocks |-> IF b \in free' THEN Blank ELSE kv[b]]
      BY <3>1 DEF Drop
    <3>3. own' = [o \in Owners |-> IF o \in {r} THEN <<>> ELSE own[o]] /\ {r} \in SUBSET Owners
      BY <3>2, Facts DEF Owners
    <3>4. \A q \in Owners : Filled(q)' = IF q \in {r} THEN <<>> ELSE Filled(q)
      BY <3>2, Facts DEF Filled
    <3> QED
      BY <3>2, <3>3, <3>4, Zenon
  <2> QED
    BY <2>1, <2>2
<1>2. ASSUME NEW q \in Owners
      PROVE  Follows(q, q)
  <2>1. CASE q \in D
    BY <1>1, <2>1, FollowsEmpty
  <2>2. CASE q \notin D
    BY <1>1, <2>2, FollowsItself
  <2> QED
    BY <2>1, <2>2
<1>3. DOMAIN kv' = Blocks /\ \A b \in Blocks : b \notin free' => kv'[b] = kv[b]
  BY <1>1
<1> QED
  BY <1>2, <1>3, ContentKept

(* A planned step stores into a block of its own request, and nowhere else. *)
LEMMA PlannedContent ==
  ASSUME IInv, IInv', Content, NEW r \in Requests, NEW t \in Tokens, PlannedDecode(r, t)
  PROVE  Content'
<1> DEFINE toks == <<t>>
           all  == text[r] \o toks
           at   == BlockIndex(Len(text[r]))
           b    == own[r][at]
<1>1. /\ window[r] > 0 /\ own' = own /\ key' = key
      /\ text' = [text EXCEPT ![r] = Append(@, t)]
      /\ kv' = [kv EXCEPT ![b] = BlockAfter(r, toks, at)]
  BY Zenon DEF PlannedDecode
<1>2. /\ r \in Owners /\ own[r] \in Seq(Blocks) /\ Len(own[r]) \in Nat /\ IsInjective(own[r])
      /\ text[r] \in Seq(Tokens) /\ Len(text[r]) \in Nat
      /\ Len(text[r]) <= Len(own[r]) * BlockSize /\ Filled(r) = text[r]
  BY Facts, LenProperties DEF Owners, IsTable, Filled
<1>3. /\ toks \in Seq(Tokens) /\ Len(toks) = 1
      /\ all \in Seq(Tokens) /\ Len(all) = Len(text[r]) + 1
      /\ \A k \in 1..Len(text[r]) : all[k] = text[r][k]
      /\ text'[r] = all
  <2>1. toks \in Seq(Tokens) /\ Len(toks) = 1
    OBVIOUS
  <2>2. text'[r] = Append(text[r], t)
    BY <1>1, Facts
  <2>3. Append(text[r], t) = all
    BY <1>2, AppendIsConcat
  <2> HIDE DEF toks
  <2> QED
    BY <1>2, <2>1, <2>2, <2>3, ConcatProperties
<1>4. /\ at \in 1..Len(own[r])
      /\ \A i \in 1..Len(own[r]), o \in Offsets : Slot(i, o) = Len(text[r]) => i = at
      /\ \A q \in Owners : b \in Range(own[q]) => q = r
      /\ b \in Blocks
  <2>1. /\ Len(text[r]) + window[r] <= Len(own[r]) * BlockSize
        /\ \A c \in Range(own[r]) : Holders(c) = {r}
    BY <1>1 DEF IInv, PlannedSlotsPrivate, Capacity
  <2>2. window[r] \in Nat /\ Len(own[r]) * BlockSize \in Nat
    BY <1>2, Facts, PoolAssumption
  <2>3. Len(text[r]) < Len(own[r]) * BlockSize
    BY <1>1, <1>2, <2>1, <2>2
  <2>4. /\ at \in Nat /\ at >= 1 /\ Len(text[r]) % BlockSize \in Offsets
        /\ Slot(at, Len(text[r]) % BlockSize) = Len(text[r])
    BY <1>2, SlotOfPosition
  <2>5. at \in 1..Len(own[r])
    BY <1>2, <2>3, <2>4, SlotWithin
  <2>6. b \in Blocks /\ b \in Range(own[r])
    BY <1>2, <2>5, ContentFacts
  <2>7. \A q \in Owners : b \in Range(own[q]) => q = r
    BY <2>1, <2>6 DEF Holders
  <2>8. ASSUME NEW i \in 1..Len(own[r]), NEW o \in Offsets, Slot(i, o) = Len(text[r])
        PROVE  i = at
    <3>1. i \in Nat /\ i >= 1
      BY <1>2
    <3>2. /\ Len(text[r]) < i * BlockSize /\ Len(text[r]) < at * BlockSize
      BY <2>4, <2>8, <3>1, SlotBounds
    <3>3. i <= at
      BY <2>4, <2>8, <3>1, <3>2, SlotWithin
    <3>4. at <= i
      BY <2>4, <3>1, <3>2, SlotWithin
    <3> QED
      BY <2>4, <3>1, <3>3, <3>4
  <2> QED
    BY <2>5, <2>6, <2>7, <2>8
<1> HIDE DEF at, b
<1>5. /\ DOMAIN kv' = Blocks /\ kv'[b] = BlockAfter(r, toks, at)
      /\ \A c \in Blocks : c # b => kv'[c] = kv[c]
  BY <1>1, <1>4 DEF Content
<1>6. Holds(kv', own[r], all)
  <2>1. SUFFICES ASSUME NEW i \in 1..Len(own[r]), NEW o \in Offsets, Slot(i, o) < Len(all)
                 PROVE  kv'[own[r][i]][o] = SubSeq(all, 1, Slot(i, o) + 1)
    BY DEF Holds
  <2> DEFINE n == Slot(i, o) + 1
  <2>2. Slot(i, o) \in Nat /\ own[r][i] \in Blocks
    <3>1. i \in Nat /\ i >= 1
      BY <1>2
    <3> QED
      BY <1>2, <3>1, SlotBounds, ElementOfSeq
  <2>3. n \in Nat /\ n <= Len(all)
    BY <1>2, <1>3, <2>1, <2>2
  <2>4. CASE Slot(i, o) < Len(text[r])
    <3>1. kv[own[r][i]][o] = SubSeq(text[r], 1, n)
      BY <1>2, <2>4 DEF Content, Holds
    <3>2. SubSeq(text[r], 1, n) = SubSeq(all, 1, n)
      <4>1. n <= Len(text[r])
        BY <1>2, <2>2, <2>4
      <4> HIDE DEF n, all
      <4>2. \A k \in 1..n : text[r][k] = all[k]
        BY <1>2, <1>3, <2>3, <4>1
      <4> QED
        BY <1>2, <1>3, <2>3, <4>1, <4>2, SamePrefix
    <3>3. kv'[own[r][i]][o] = kv[own[r][i]][o]
      <4>1. CASE own[r][i] # b
        BY <1>5, <2>2, <4>1
      <4>2. CASE own[r][i] = b
        <5>1. i = at
          <6>1. \A j, k \in 1..Len(own[r]) : own[r][j] = own[r][k] => j = k
            BY <1>2, LenProperties, Zenon DEF IsInjective
          <6> QED
            BY <1>4, <4>2, <6>1 DEF b
        <5>2. ~(Slot(at, o) >= Len(text[r]))
          BY <1>2, <2>2, <2>4, <5>1
        <5>3. at <= Len(own[r])
          BY <1>2, <1>4
        <5>4. BlockAfter(r, toks, at)[o] = kv[own[r][at]][o]
          BY <5>2, <5>3, BlockAfterSlot
        <5> QED
          BY <1>5, <4>2, <5>4 DEF b
      <4> QED
        BY <4>1, <4>2
    <3> QED
      BY <3>1, <3>2, <3>3
  <2>5. CASE ~(Slot(i, o) < Len(text[r]))
    <3>1. Slot(i, o) = Len(text[r])
      BY <1>2, <1>3, <2>1, <2>2, <2>5
    <3>2. i = at /\ own[r][i] = b
      BY <1>4, <3>1 DEF b
    <3>3. BlockAfter(r, toks, at)[o] = SubSeq(all, 1, Slot(at, o) + 1)
      <4>1. Slot(at, o) >= Len(text[r]) /\ Slot(at, o) < Len(text[r] \o toks)
        BY <1>2, <1>3, <3>1, <3>2
      <4> QED
        BY <4>1, BlockAfterSlot
    <3> QED
      BY <1>5, <3>2, <3>3
  <2> QED
    BY <2>4, <2>5
<1>7. \A q \in Owners : Holds(kv', own'[q], Filled(q)')
  <2>1. TAKE q \in Owners
  <2>2. CASE q = r
    <3>1. Filled(q)' = all /\ own'[q] = own[r]
      BY <1>1, <1>3, <2>2 DEF Filled
    <3> QED
      BY <1>6, <3>1
  <2>3. CASE q # r
    <3>1. Filled(q)' = Filled(q) /\ own'[q] = own[q]
      BY <1>1, <2>3, Facts DEF Filled
    <3>2. \A i \in 1..Len(own[q]) : kv'[own[q][i]] = kv[own[q][i]]
      BY <1>4, <1>5, <2>3, ContentFacts
    <3> QED
      BY <3>1, <3>2 DEF Content, Holds
  <2> QED
    BY <2>2, <2>3
<1>8. \A q \in Owners : Holds(kv, own[q], Filled(q))'
  BY <1>7 DEF Holds, Offsets, Slot
<1> QED
  BY <1>5, <1>8 DEF Content, Owners

(* Draining a window moves no block. *)
LEMMA CloseContent ==
  ASSUME IInv, Content, NEW r \in Requests, CloseWindow(r)
  PROVE  Content'
<1>1. kv' = kv /\ own' = own /\ text' = text /\ key' = key
  BY DEF CloseWindow
<1> QED
  BY <1>1 DEF Content, Holds, Filled, Offsets, Slot, Owners

(* The blocks of a match hold tokens of the prompt. *)
LEMMA MatchAgrees ==
  ASSUME NEW e \in Entries, key[e] \in Seq(Tokens), NEW q \in Nat, Len(key[e]) = q * BlockSize,
         NEW prompt \in Seq(Tokens), Len(prompt) > 0
  PROVE  \A k \in 1..(MatchBlocks(e, prompt) * BlockSize) : key[e][k] = prompt[k]
<1> DEFINE c == CommonPrefixLen(key[e], prompt)
           m == MatchBlocks(e, prompt)
           d == c \div BlockSize
<1>1. /\ c \in Nat /\ c <= Len(key[e]) /\ c <= Len(prompt) /\ Len(key[e]) \in Nat
      /\ SubSeq(key[e], 1, c) = SubSeq(prompt, 1, c)
  <2>1. /\ c \in 0..Len(key[e]) /\ c <= Len(prompt)
        /\ SubSeq(key[e], 1, c) = SubSeq(prompt, 1, c)
    BY CommonPrefixAgrees, Zenon
  <2> HIDE DEF c
  <2> QED
    BY <2>1, LenProperties
<1>2. m <= d
  <2>1. m = IF d < (Len(prompt) - 1) \div BlockSize THEN d ELSE (Len(prompt) - 1) \div BlockSize
    BY DEF MatchBlocks
  <2>2. d \in Int /\ (Len(prompt) - 1) \div BlockSize \in Int
    <3>1. Len(prompt) - 1 \in Nat
      BY LenProperties
    <3> HIDE DEF c
    <3> QED
      BY <1>1, <3>1, BlockOfNat
  <2> HIDE DEF m, d
  <2> QED
    BY <2>1, <2>2
<1> HIDE DEF c, m
<1>3. d \in Nat /\ d * BlockSize <= c
  <2>1. c \div BlockSize \in 0..q /\ (c \div BlockSize) * BlockSize <= c
    BY <1>1, WholeBlocks
  <2> QED
    BY <2>1
<1>4. m \in Nat
  BY MatchInRange DEF m
<1> HIDE DEF d
<1>5. m * BlockSize <= c /\ m * BlockSize \in Nat
  <2>1. m * BlockSize <= d * BlockSize
    BY <1>2, <1>3, <1>4, TimesMonotonic
  <2>2. m * BlockSize \in Nat /\ d * BlockSize \in Nat
    BY <1>3, <1>4, PoolAssumption
  <2> QED
    BY <1>1, <1>3, <2>1, <2>2
<1>6. \A k \in 1..c : key[e][k] = prompt[k]
  <2>1. \A k \in 1..c : SubSeq(key[e], 1, c)[k] = key[e][k]
    BY <1>1, PrefixOf
  <2>2. \A k \in 1..c : SubSeq(prompt, 1, c)[k] = prompt[k]
    BY <1>1, PrefixOf
  <2> QED
    BY <1>1, <2>1, <2>2
<1> QED
  BY <1>1, <1>5, <1>6 DEF m

(* A hit shares blocks that hold the start of the prompt. *)
LEMMA LookupContent ==
  ASSUME IInv, IInv', Content, NEW r \in Requests, NEW prompt \in Prompts, LookupHit(r, prompt)
  PROVE  Content'
<1>1. PICK i \in DOMAIN lru :
        LET m == MatchBlocks(lru[i], prompt)
        IN  /\ own' = [own EXCEPT ![r] = SubSeq(own[lru[i]], 1, m)]
            /\ text' = [text EXCEPT ![r] = SubSeq(prompt, 1, m * BlockSize)]
  BY Zenon DEF LookupHit, Reused
<1> DEFINE e == lru[i]
           m == MatchBlocks(e, prompt)
<1>2. kv' = kv /\ key' = key
  BY DEF LookupHit
<1>3. e \in Entries /\ e \in Owners /\ r \in Owners /\ e \notin Requests
  BY Facts, PoolAssumption, ElementOfSeq, LenProperties DEF Owners
<1>4. prompt \in Seq(Tokens) /\ Len(prompt) > 0
  <2>1. PICK n \in 1..MaxLen : prompt \in [1..n -> Tokens]
    BY DEF Prompts
  <2>2. n \in Nat /\ n > 0
    BY <2>1
  <2> QED
    BY <2>1, <2>2, IsASeq
<1>5. own' = [own EXCEPT ![r] = SubSeq(own[e], 1, m)] /\ text' = [text EXCEPT ![r] = SubSeq(prompt, 1, m * BlockSize)]
  BY <1>1
<1> HIDE DEF e
<1>6. /\ key[e] \in Seq(Tokens) /\ own[e] \in Seq(Blocks) /\ Len(own[e]) \in Nat
      /\ Len(key[e]) = Len(own[e]) * BlockSize
  BY <1>3, Facts, ContentFacts
<1>7. m \in 0..Len(own[e]) /\ m * BlockSize < Len(prompt)
  BY <1>3, <1>4, <1>6, MatchInRange
<1>8. \A k \in 1..(m * BlockSize) : key[e][k] = prompt[k]
  BY <1>3, <1>4, <1>6, MatchAgrees
<1> HIDE DEF m
<1>9. m \in Nat /\ m <= Len(own[e]) /\ m * BlockSize \in Nat /\ m * BlockSize <= Len(key[e]) /\ m * BlockSize <= Len(prompt)
  <2>1. m \in Nat /\ m <= Len(own[e])
    BY <1>6, <1>7
  <2>2. m * BlockSize \in Nat /\ Len(prompt) \in Nat
    BY <1>4, <2>1, PoolAssumption, LenProperties
  <2> QED
    BY <1>6, <1>7, <2>1, <2>2, TimesMonotonic
<1>10. Follows(r, e)
  <2>1. own'[r] = SubSeq(own[e], 1, m) /\ Filled(r)' = SubSeq(prompt, 1, m * BlockSize) /\ Filled(e) = key[e]
    BY <1>3, <1>5, Facts DEF Filled
  <2>2. /\ Len(SubSeq(own[e], 1, m)) = m
        /\ \A k \in 1..m : SubSeq(own[e], 1, m)[k] = own[e][k]
    BY <1>6, <1>9, PrefixOf
  <2> DEFINE size == m * BlockSize
  <2>3. /\ Len(SubSeq(prompt, 1, size)) = size
        /\ \A k \in 1..size : SubSeq(prompt, 1, size)[k] = prompt[k]
    <3>1. size \in Nat /\ size <= Len(prompt)
      BY <1>9
    <3> HIDE DEF size
    <3> QED
      BY <1>4, <3>1, PrefixOf
  <2>4. /\ Len(own'[r]) = m /\ \A k \in 1..Len(own'[r]) : own'[r][k] = own[e][k]
    BY <2>1, <2>2
  <2>5. /\ Len(Filled(r)') = size /\ \A k \in 1..Len(Filled(r)') : Filled(r)'[k] = prompt[k]
    BY <2>1, <2>3
  <2> QED
    BY <1>8, <1>9, <2>1, <2>4, <2>5 DEF Follows
<1>11. ASSUME NEW q \in Owners, q # r
       PROVE  Follows(q, q)
  <2>1. own'[q] = own[q] /\ Filled(q)' = Filled(q)
    BY <1>2, <1>5, <1>11, Facts DEF Filled
  <2> QED
    BY <2>1, FollowsItself
<1>12. \A q \in Owners : \E p \in Owners : Follows(q, p)
  BY <1>3, <1>10, <1>11
<1>13. DOMAIN kv' = Blocks /\ \A b \in Blocks : b \notin free' => kv'[b] = kv[b]
  BY <1>2 DEF Content
<1> QED
  BY <1>12, <1>13, ContentKept

(* Finishing r: entry e takes its n whole blocks, and the owners in D, r the *)
(* only request among them, let go.                                          *)
Donates(r, e, n, D) ==
  /\ e \in Entries /\ D \subseteq Owners /\ D \cap Requests = {r}
  /\ n \in Nat /\ n <= Len(own[r]) /\ n * BlockSize \in Nat /\ n * BlockSize <= Len(text[r])
  /\ own' = [o \in Owners |-> IF o = e THEN SubSeq(own[r], 1, n) ELSE IF o \in D THEN <<>> ELSE own[o]]
  /\ Filled(e)' = SubSeq(text[r], 1, n * BlockSize)
  /\ \A q \in Owners \ {e} : Filled(q)' = IF q \in D THEN <<>> ELSE Filled(q)

LEMMA FinishEffect ==
  ASSUME IInv, NEW r \in Requests, Finish(r)
  PROVE  \E e, n, D : Donates(r, e, n, D)
<1> DEFINE n          == IF PrefixCache THEN Len(text[r]) \div BlockSize ELSE 0
           tokens     == SubSeq(text[r], 1, n * BlockSize)
           superseded == {f \in Range(lru) : n > 0 /\ IsPrefixOf(key[f], tokens)}
           rest       == Without(lru, superseded)
           popped     == IF n > 0 /\ Len(rest) + 1 > MaxEntries THEN {rest[1]} ELSE {}
           D          == superseded \cup popped \cup {r}
           tbl        == SubSeq(own[r], 1, n)
<1>1. PICK e \in {f \in Entries : own[f] = <<>>} :
        /\ own' = [o \in Owners |-> IF o = e THEN tbl ELSE IF o \in D THEN <<>> ELSE own[o]]
        /\ key' = [f \in Entries |-> IF f = e THEN tokens
                                     ELSE IF f \in D THEN <<>> ELSE key[f]]
  BY Zenon DEF Finish
<1>2. text' = [text EXCEPT ![r] = <<>>]
  BY Zenon DEF Finish
<1>3. /\ e \in Entries /\ e \in Owners /\ r \in Owners /\ e # r /\ e \notin Requests
      /\ own[r] \in Seq(Blocks) /\ text[r] \in Seq(Tokens)
      /\ Len(text[r]) \in Nat /\ Len(own[r]) \in Nat
      /\ Len(text[r]) <= Len(own[r]) * BlockSize
  BY Facts, LenProperties, PoolAssumption DEF Owners, IsTable
<1>4. n \in Nat /\ n <= Len(own[r]) /\ n * BlockSize <= Len(text[r]) /\ n * BlockSize \in Nat
  <2>1. /\ Len(text[r]) \div BlockSize \in 0..Len(own[r])
        /\ (Len(text[r]) \div BlockSize) * BlockSize <= Len(text[r])
    BY <1>3, WholeBlocks
  <2>2. 0 * BlockSize = 0 /\ BlockSize \in Nat
    BY PoolAssumption
  <2>3. n = Len(text[r]) \div BlockSize \/ n = 0
    OBVIOUS
  <2> HIDE DEF n
  <2>4. n \in Nat /\ n <= Len(own[r]) /\ n * BlockSize <= Len(text[r])
    <3> DEFINE k == Len(text[r]) \div BlockSize
    <3>1. k \in Nat /\ k <= Len(own[r]) /\ k * BlockSize <= Len(text[r])
      BY <1>3, <2>1
    <3>2. n = k \/ n = 0
      BY <2>3
    <3> HIDE DEF k
    <3>3. CASE n = k
      BY <3>1, <3>3
    <3>4. CASE n = 0
      BY <1>3, <2>2, <3>4
    <3> QED
      BY <3>2, <3>3, <3>4
  <2> QED
    BY <2>2, <2>4
<1>5. D \subseteq Owners /\ D \cap Requests = {r}
  <2>1. superseded \subseteq Entries
    BY Facts
  <2> HIDE DEF superseded
  <2>2. rest \in Seq(Entries)
    BY Facts, WithoutIsSeq
  <2> HIDE DEF rest
  <2>3. popped \subseteq Entries
    <3>1. CASE n > 0 /\ Len(rest) + 1 > MaxEntries
      <4>1. Len(rest) \in Nat /\ MaxEntries \in Nat /\ MaxEntries > 0
        BY <2>2, LenProperties, PoolAssumption
      <4>2. rest[1] \in Entries
        BY <2>2, <3>1, <4>1, ElementOfSeq
      <4> QED
        BY <3>1, <4>2
    <3>2. CASE ~(n > 0 /\ Len(rest) + 1 > MaxEntries)
      BY <3>2
    <3> QED
      BY <3>1, <3>2
  <2> HIDE DEF popped
  <2> QED
    BY <2>1, <2>3, PoolAssumption DEF Owners
<1> HIDE DEF n, D
<1>6. Filled(e)' = tokens
  BY <1>1, <1>3 DEF Filled
<1>7. \A q \in Owners \ {e} : Filled(q)' = IF q \in D THEN <<>> ELSE Filled(q)
  <2>1. TAKE q \in Owners \ {e}
  <2>2. CASE q \in Requests
    BY <1>2, <1>5, <2>2, Facts DEF Filled
  <2>3. CASE q \notin Requests
    BY <1>1, <2>3, Facts DEF Filled, Owners
  <2> QED
    BY <2>2, <2>3
<1>8. Donates(r, e, n, D)
  BY <1>1, <1>3, <1>4, <1>5, <1>6, <1>7, Zenon DEF Donates
<1> QED
  BY <1>8, Zenon

(* A donated entry holds the whole blocks of the text it is keyed by. *)
LEMMA FinishContent ==
  ASSUME IInv, IInv', Content, NEW r \in Requests, Finish(r)
  PROVE  Content'
<1>1. PICK e, n, D : Donates(r, e, n, D)
  BY FinishEffect
<1>2. kv' = [b \in Blocks |-> IF b \in free' THEN Blank ELSE kv[b]]
  BY Zenon DEF Finish
<1>3. /\ e \in Owners /\ r \in Owners /\ own[r] \in Seq(Blocks) /\ text[r] \in Seq(Tokens)
      /\ n \in Nat /\ n <= Len(own[r]) /\ n * BlockSize \in Nat /\ n * BlockSize <= Len(text[r])
      /\ own'[e] = SubSeq(own[r], 1, n) /\ Filled(e)' = SubSeq(text[r], 1, n * BlockSize)
      /\ Filled(r) = text[r]
  BY <1>1, Facts DEF Donates, Owners, Filled
<1>4. Follows(e, r)
  <2>1. Len(own'[e]) = n /\ \A k \in 1..n : own'[e][k] = own[r][k]
    BY <1>3, PrefixOf
  <2> DEFINE size == n * BlockSize
             toks == Filled(e)'
  <2>2. size \in Nat /\ size <= Len(text[r]) /\ toks = SubSeq(text[r], 1, size)
    BY <1>3
  <2> HIDE DEF size, toks
  <2>3. Len(toks) = size /\ \A k \in 1..size : toks[k] = text[r][k]
    BY <1>3, <2>2, PrefixOf
  <2> QED
    BY <1>3, <2>1, <2>2, <2>3 DEF Follows, toks
<1>5. ASSUME NEW q \in Owners, q # e
      PROVE  Follows(q, q)
  <2>1. CASE q \in D
    <3>1. own'[q] = <<>> /\ Filled(q)' = <<>>
      BY <1>1, <1>5, <2>1 DEF Donates
    <3> QED
      BY <3>1, FollowsEmpty
  <2>2. CASE q \notin D
    <3>1. own'[q] = own[q] /\ Filled(q)' = Filled(q)
      BY <1>1, <1>5, <2>2 DEF Donates
    <3> QED
      BY <3>1, FollowsItself
  <2> QED
    BY <2>1, <2>2
<1>6. \A q \in Owners : \E p \in Owners : Follows(q, p)
  BY <1>3, <1>4, <1>5
<1>7. DOMAIN kv' = Blocks /\ \A b \in Blocks : b \notin free' => kv'[b] = kv[b]
  BY <1>2
<1> QED
  BY <1>6, <1>7, ContentKept

-----------------------------------------------------------------------------
LEMMA InitContent ==
  ASSUME Init
  PROVE  Content
<1>1. kv = [b \in Blocks |-> Blank] /\ own = [o \in Owners |-> <<>>]
  BY DEF Init
<1> QED
  BY <1>1, HoldsNothing DEF Content

LEMMA NextContent ==
  ASSUME IInv, Content, Next
  PROVE  Content'
<1>0. IInv'
  BY NextIInv
<1>1. ASSUME NEW r \in Requests, NEW toks \in Chunks, PrefillChunk(r, toks)
      PROVE  Content'
  <2>1. toks \in Seq(Tokens) /\ Len(toks) \in 0..Len(toks)
    <3>1. PICK n \in 1..MaxWrite : toks \in [1..n -> Tokens]
      BY <1>1 DEF Chunks
    <3> QED
      BY <3>1, IsASeq, LenProperties
  <2>2. PICK siblings \in SUBSET Requests : AppendKV(r, toks, Len(toks), siblings)
    <3>1. {} \in SUBSET Requests /\ \A s \in SUBSET Unstarted(r) : s \in SUBSET Requests
      BY DEF Unstarted
    <3> QED
      BY <1>1, <3>1, Zenon DEF PrefillChunk
  <2> QED
    BY <1>0, <2>1, <2>2, AppendContent
<1>2. ASSUME NEW r \in Requests, NEW t \in Tokens, Decode(r, t)
      PROVE  Content'
  <2> DEFINE toks == <<t>>
  <2>1. toks \in Seq(Tokens) /\ 1 \in 0..Len(toks) /\ {} \in SUBSET Requests
    OBVIOUS
  <2>2. AppendKV(r, toks, 1, {})
    BY <1>2 DEF Decode
  <2> HIDE DEF toks
  <2> QED
    BY <1>0, <2>1, <2>2, AppendContent
<1>3. ASSUME NEW r \in Requests, NEW t \in Tokens, PlannedDecode(r, t)
      PROVE  Content'
  BY <1>0, <1>3, PlannedContent
<1>4. ASSUME NEW r \in Requests, NEW toks \in Chunks, NEW kept \in 1..MaxWrite, Verify(r, toks, kept)
      PROVE  Content'
  <2>1. toks \in Seq(Tokens) /\ Len(toks) \in Nat
    <3>1. PICK n \in 1..MaxWrite : toks \in [1..n -> Tokens]
      BY <1>4 DEF Chunks
    <3> QED
      BY <3>1, IsASeq, LenProperties
  <2>2. AppendKV(r, toks, kept, {}) /\ kept \in 1..Len(toks) /\ {} \in SUBSET Requests
    BY <1>4 DEF Verify
  <2>3. kept \in 0..Len(toks)
    BY <2>1, <2>2
  <2> QED
    BY <1>0, <2>1, <2>2, <2>3, AppendContent
<1>5. ASSUME NEW r \in Requests, NEW n \in 1..MaxWrite, OpenWindow(r, n) \/ OutOfBlocks(r, n)
      PROVE  Content'
  BY <1>0, <1>5, OpenWindowContent
<1>6. ASSUME NEW r \in Requests, CloseWindow(r)
      PROVE  Content'
  BY <1>6, CloseContent
<1>7. ASSUME NEW r \in Requests, Finish(r) \/ Drop(r)
      PROVE  Content'
  BY <1>0, <1>7, FinishContent, ReleaseContent
<1>8. ASSUME NEW r \in Requests, NEW prompt \in Prompts, LookupHit(r, prompt)
      PROVE  Content'
  BY <1>0, <1>8, LookupContent
<1>9. ASSUME Clear
      PROVE  Content'
  BY <1>0, <1>9, ReleaseContent
<1> QED
  BY <1>1, <1>2, <1>3, <1>4, <1>5, <1>6, <1>7, <1>8, <1>9 DEF Next

LEMMA StutterContent ==
  ASSUME Content, UNCHANGED vars
  PROVE  Content'
  BY DEF vars, Content, Holds, Filled, Offsets, Slot, Owners

(* Every owner's slots hold the history they were written for, whatever the  *)
(* pool, the requests, the block size and the interleaving of forks, copies, *)
(* rollbacks, evictions, donations and hits.                                 *)
THEOREM ContentExact == Spec => []Content
<1>1. Init => IInv /\ Content
  BY InitIInv, InitContent
<1>2. IInv /\ Content /\ [Next]_vars => (IInv /\ Content)'
  BY NextIInv, StutterIInv, NextContent, StutterContent
<1> QED
  BY <1>1, <1>2, PTL DEF Spec

(* PagedKVCache: every position a request attends to was stored for its own  *)
(* history, across prepare_write, fork_shared, rollbacks and lookups.        *)
THEOREM RequestsReadOwnHistory == Spec => []ReadsOwnHistory
<1>1. ASSUME IInv, Content PROVE ReadsOwnHistory
  <2>1. SUFFICES ASSUME NEW r \in Requests, NEW pos \in 0..(Len(text[r]) - 1)
                 PROVE  /\ BlockIndex(pos) <= Len(own[r])
                        /\ kv[own[r][BlockIndex(pos)]][pos % BlockSize] = SubSeq(text[r], 1, pos + 1)
    BY DEF ReadsOwnHistory
  <2>2. /\ r \in Owners /\ Filled(r) = text[r]
        /\ Len(text[r]) \in Nat /\ Len(own[r]) \in Nat /\ Len(text[r]) <= Len(own[r]) * BlockSize
    BY <1>1, ContentFacts DEF Owners, Filled
  <2>3. pos \in Nat /\ pos < Len(text[r])
    BY <2>2
  <2>4. /\ BlockIndex(pos) \in Nat /\ BlockIndex(pos) >= 1 /\ pos % BlockSize \in Offsets
        /\ Slot(BlockIndex(pos), pos % BlockSize) = pos
    BY <2>3, SlotOfPosition
  <2>5. BlockIndex(pos) \in 1..Len(own[r])
    <3>1. Len(own[r]) * BlockSize \in Nat
      BY <2>2, PoolAssumption
    <3>2. pos < Len(own[r]) * BlockSize
      BY <2>2, <2>3, <3>1
    <3> QED
      BY <2>2, <2>4, <3>2, SlotWithin
  <2>6. Holds(kv, own[r], text[r])
    BY <1>1, <2>2 DEF Content
  <2> DEFINE i == BlockIndex(pos)
             o == pos % BlockSize
  <2>7. i \in 1..Len(own[r]) /\ o \in Offsets /\ Slot(i, o) = pos /\ Slot(i, o) < Len(text[r])
    BY <2>3, <2>4, <2>5
  <2>8. kv[own[r][i]][o] = SubSeq(text[r], 1, Slot(i, o) + 1)
    <3> HIDE DEF i, o
    <3> QED
      BY <2>6, <2>7 DEF Holds
  <2>9. i <= Len(own[r])
    BY <2>2, <2>5
  <2> QED
    BY <2>7, <2>8, <2>9
<1> QED
  BY <1>1, Accounting, ContentExact, PTL

(* PrefixCacheStore: an entry holds, to the last slot of each block, the KV  *)
(* of the tokens it is looked up by, until it is dropped.                    *)
THEOREM CacheHoldsItsKeys == Spec => []CachedPrefixExact
<1>1. ASSUME IInv, Content PROVE CachedPrefixExact
  <2>1. SUFFICES ASSUME NEW e \in Range(lru)
                 PROVE  /\ Len(own[e]) * BlockSize = Len(key[e])
                        /\ \A pos \in 0..(Len(key[e]) - 1) :
                             kv[own[e][BlockIndex(pos)]][pos % BlockSize] = SubSeq(key[e], 1, pos + 1)
    BY DEF CachedPrefixExact
  <2>2. e \in Entries /\ e \in Owners /\ e \notin Requests /\ Len(own[e]) * BlockSize = Len(key[e])
    BY <1>1, Facts, PoolAssumption DEF Owners
  <2>3. Filled(e) = key[e] /\ Len(key[e]) \in Nat /\ Len(own[e]) \in Nat
    BY <1>1, <2>2, ContentFacts DEF Filled
  <2>4. Holds(kv, own[e], key[e])
    BY <1>1, <2>2, <2>3 DEF Content
  <2>5. ASSUME NEW pos \in 0..(Len(key[e]) - 1)
        PROVE  kv[own[e][BlockIndex(pos)]][pos % BlockSize] = SubSeq(key[e], 1, pos + 1)
    <3>1. pos \in Nat /\ pos < Len(own[e]) * BlockSize /\ pos < Len(key[e])
      BY <2>2, <2>3
    <3>2. /\ BlockIndex(pos) \in Nat /\ BlockIndex(pos) >= 1 /\ pos % BlockSize \in Offsets
          /\ Slot(BlockIndex(pos), pos % BlockSize) = pos
      BY <3>1, SlotOfPosition
    <3>3. BlockIndex(pos) \in 1..Len(own[e])
      BY <2>3, <3>1, <3>2, SlotWithin
    <3> QED
      BY <2>4, <3>1, <3>2, <3>3 DEF Holds
  <2> QED
    BY <2>2, <2>5
<1> QED
  BY <1>1, Accounting, ContentExact, PTL

-----------------------------------------------------------------------------
(* The cost of an append *)

Full(q, i) == i * BlockSize <= Len(Filled(q))

(* A block is full in every table and entry that holds it, or in none.  So   *)
(* no cache entry, whose blocks are full, holds a block that some request    *)
(* may still write.                                                          *)
FillAgrees ==
  \A q, p \in Owners : \A i \in 1..Len(own[q]), j \in 1..Len(own[p]) :
    own[q][i] = own[p][j] /\ Full(q, i) => Full(p, j)

(* A block of r's table behind the last token: the rest of a reservation.    *)
Spare(r, i) == Len(text[r]) <= (i - 1) * BlockSize

SparesOwn(r) ==
  \A i \in 1..Len(own[r]) : Spare(r, i) => prefilled[r] /\ Holders(own[r][i]) = {r}

(* Only a request that has decoded has any, and they are its own.            *)
SparesPrivate == \A r \in Requests : SparesOwn(r)

(* The inductive invariant of the cost, beside IInv. *)
Fill == ~dead => FillAgrees /\ SparesPrivate

(* The i-th of the blocks that n positions need starts before position n. *)
LEMMA BlocksForTight ==
  ASSUME NEW n \in Nat, NEW i \in Nat, i >= 1, i <= BlocksFor(n)
  PROVE  (i - 1) * BlockSize < n
<1>1. BlockSize \in Nat /\ BlockSize > 0
  BY PoolAssumption
<1> DEFINE m == n + BlockSize - 1
<1>2. m \in Nat /\ BlocksFor(n) = m \div BlockSize
  BY <1>1 DEF BlocksFor
<1>3. m = n + BlockSize - 1
  OBVIOUS
<1> HIDE DEF m
<1>4. /\ m \div BlockSize \in Nat
      /\ m = BlockSize * (m \div BlockSize) + (m % BlockSize)
      /\ m % BlockSize \in 0..(BlockSize - 1)
  BY <1>1, <1>2
<1> DEFINE d == m \div BlockSize
<1>5. d \in Nat /\ i <= d /\ d * BlockSize <= m
  BY <1>1, <1>2, <1>4
<1> HIDE DEF d
<1>6. i * BlockSize <= d * BlockSize
  BY <1>5, TimesMonotonic
<1>7. i * BlockSize = (i - 1) * BlockSize + BlockSize /\ (i - 1) * BlockSize \in Nat /\ d * BlockSize \in Nat
  <2>1. i - 1 \in Nat
    BY <1>1
  <2> QED
    BY <1>1, <1>5, <2>1
<1> QED
  BY <1>1, <1>2, <1>3, <1>5, <1>6, <1>7

(* q's new blocks are blocks p had at the same place, as full as before, or  *)
(* are shared only with owners that have the same table and as many tokens.  *)
Inherits(q, p) ==
  \A i \in 1..Len(own'[q]) :
    \/ i <= Len(own[p]) /\ own'[q][i] = own[p][i] /\ (Full(q, i)' <=> Full(p, i))
    \/ \A s \in Owners : own'[q][i] \in Range(own'[s]) =>
         own'[s] = own'[q] /\ Len(Filled(s)') = Len(Filled(q)')

LEMMA FillAgreesStep ==
  ASSUME IInv, IInv', FillAgrees, \A q \in Owners : \E p \in Owners : Inherits(q, p)
  PROVE  FillAgrees'
<1>0. FillAgrees' = (\A q, p \in Owners : \A i \in 1..Len(own'[q]), j \in 1..Len(own'[p]) :
                       own'[q][i] = own'[p][j] /\ Full(q, i)' => Full(p, j)')
  BY DEF FillAgrees, Owners
<1>1. SUFFICES ASSUME NEW q \in Owners, NEW s \in Owners, NEW i \in 1..Len(own'[q]), NEW j \in 1..Len(own'[s]),
                      own'[q][i] = own'[s][j], Full(q, i)'
               PROVE  Full(s, j)'
  BY <1>0
<1>2. PICK p \in Owners : Inherits(q, p)
  OBVIOUS
<1>3. PICK u \in Owners : Inherits(s, u)
  OBVIOUS
<1>4. /\ own'[q] \in Seq(Blocks) /\ own'[s] \in Seq(Blocks)
      /\ IsInjective(own'[q]) /\ IsInjective(own'[s])
  BY DEF IInv, TypeOK, RefcountExact, Owners
<1>5. /\ Len(own'[q]) \in Nat /\ DOMAIN own'[q] = 1..Len(own'[q])
      /\ Len(own'[s]) \in Nat /\ DOMAIN own'[s] = 1..Len(own'[s])
      /\ own'[q][i] \in Range(own'[s]) /\ own'[q][i] \in Range(own'[q])
      /\ Len(own[p]) \in Nat /\ Len(own[u]) \in Nat
  BY <1>1, <1>4, LenProperties, ContentFacts DEF Range
<1>6. ASSUME own'[s] = own'[q], Len(Filled(s)') = Len(Filled(q)')
      PROVE  Full(s, j)'
  <2>1. i = j
    BY <1>1, <1>4, <1>5, <1>6, Zenon DEF IsInjective
  <2> QED
    BY <1>1, <1>6, <2>1 DEF Full
<1>7. CASE /\ i <= Len(own[p]) /\ own'[q][i] = own[p][i] /\ (Full(q, i)' <=> Full(p, i))
           /\ j <= Len(own[u]) /\ own'[s][j] = own[u][j] /\ (Full(s, j)' <=> Full(u, j))
  <2>1. i \in 1..Len(own[p]) /\ j \in 1..Len(own[u])
    BY <1>5, <1>7
  <2> QED
    BY <1>1, <1>7, <2>1 DEF FillAgrees
<1>8. CASE \A t \in Owners : own'[q][i] \in Range(own'[t]) =>
             own'[t] = own'[q] /\ Len(Filled(t)') = Len(Filled(q)')
  BY <1>5, <1>6, <1>8
<1>9. CASE \A t \in Owners : own'[s][j] \in Range(own'[t]) =>
             own'[t] = own'[s] /\ Len(Filled(t)') = Len(Filled(s)')
  BY <1>1, <1>5, <1>6, <1>9
<1> QED
  BY <1>2, <1>3, <1>7, <1>8, <1>9 DEF Inherits

(* A request that kept its table keeps its spare blocks to itself, when no   *)
(* owner takes a block of it that no other owner had.                        *)
SpareKept(q) ==
  /\ own'[q] = own[q] /\ text'[q] = text[q] /\ (prefilled[q] => prefilled'[q])
  /\ \A s \in Owners : \A b \in Range(own'[s]) :
       s # q /\ b \in Range(own[q]) => \E p \in Owners : p # q /\ b \in Range(own[p])

LEMMA SparesStep ==
  ASSUME IInv, SparesPrivate, NEW q \in Requests, SpareKept(q)
  PROVE  SparesOwn(q)'
<1>1. q \in Owners /\ own'[q] = own[q] /\ text'[q] = text[q] /\ (prefilled[q] => prefilled'[q])
  BY DEF Owners, SpareKept
<1>2. ASSUME NEW i \in 1..Len(own[q]), Spare(q, i)
      PROVE  prefilled'[q] /\ Holders(own[q][i])' = {q}
  <2>1. prefilled[q] /\ Holders(own[q][i]) = {q} /\ own[q][i] \in Range(own[q])
    BY <1>1, <1>2, ContentFacts DEF SparesPrivate, SparesOwn
  <2>2. \A s \in Owners : s # q => own[q][i] \notin Range(own'[s])
    <3>1. SUFFICES ASSUME NEW s \in Owners, s # q, own[q][i] \in Range(own'[s]) PROVE FALSE
      OBVIOUS
    <3>2. PICK p \in Owners : p # q /\ own[q][i] \in Range(own[p])
      BY <2>1, <3>1, Zenon DEF SpareKept
    <3> QED
      BY <2>1, <3>2 DEF Holders
  <2> QED
    BY <1>1, <2>1, <2>2 DEF Holders, Owners
<1> QED
  BY <1>1, <1>2 DEF SparesOwn, Spare

LEMMA FillStep ==
  ASSUME IInv, IInv', Fill, ~dead, \A q \in Owners : \E p \in Owners : Inherits(q, p),
         \A q \in Requests : SpareKept(q) \/ SparesOwn(q)'
  PROVE  Fill'
<1>1. FillAgrees /\ SparesPrivate
  BY DEF Fill
<1>2. FillAgrees'
  BY <1>1, FillAgreesStep
<1>3. SparesPrivate'
  BY <1>1, SparesStep DEF SparesPrivate
<1> QED
  BY <1>2, <1>3 DEF Fill

(* An owner that keeps its table and its tokens, and one that lets go. *)
LEMMA InheritsItself ==
  ASSUME IInv, NEW q \in Owners, own'[q] = own[q], Filled(q)' = Filled(q)
  PROVE  Inherits(q, q)
  BY ContentFacts DEF Inherits, Full

LEMMA NothingInherited ==
  ASSUME NEW q \in Owners, own'[q] = <<>>
  PROVE  Inherits(q, q) /\ SparesOwn(q)'
<1>1. \A i \in 1..Len(own'[q]) : FALSE
  BY EmptyTable
<1>2. Inherits(q, q)
  BY <1>1 DEF Inherits
<1>3. SparesOwn(q)'
  BY <1>1 DEF SparesOwn
<1> QED
  BY <1>2, <1>3

LEMMA ReleaseFill ==
  ASSUME IInv, IInv', Fill, ~dead, Clear \/ \E r \in Requests : Drop(r)
  PROVE  Fill'
<1>1. PICK D \in SUBSET Owners :
        /\ own' = [o \in Owners |-> IF o \in D THEN <<>> ELSE own[o]]
        /\ \A q \in Owners \ D : Filled(q)' = Filled(q)
        /\ \A q \in Requests \ D : text'[q] = text[q] /\ prefilled'[q] = prefilled[q]
  <2>1. CASE Clear
    <3> DEFINE D == Range(lru)
    <3>1. /\ own' = [o \in Owners |-> IF o \in D THEN <<>> ELSE own[o]]
          /\ key' = [e \in Entries |-> IF e \in D THEN <<>> ELSE key[e]]
          /\ text' = text /\ prefilled' = prefilled
      BY <2>1 DEF Clear
    <3>2. D \in SUBSET Owners
      BY Facts DEF Owners
    <3> HIDE DEF D
    <3>3. \A q \in Owners \ D : Filled(q)' = Filled(q)
      BY <3>1, <3>2 DEF Filled, Owners
    <3> QED
      BY <3>1, <3>2, <3>3, Zenon
  <2>2. CASE \E r \in Requests : Drop(r)
    <3>1. PICK r \in Requests : Drop(r)
      BY <2>2
    <3>2. /\ own' = [own EXCEPT ![r] = <<>>] /\ text' = [text EXCEPT ![r] = <<>>] /\ key' = key
          /\ prefilled' = [prefilled EXCEPT ![r] = FALSE]
      BY <3>1 DEF Drop
    <3>3. own' = [o \in Owners |-> IF o \in {r} THEN <<>> ELSE own[o]] /\ {r} \in SUBSET Owners
      BY <3>2, Facts DEF Owners
    <3>4. \A q \in Owners \ {r} : Filled(q)' = Filled(q)
      BY <3>2, Facts DEF Filled
    <3>5. \A q \in Requests \ {r} : text'[q] = text[q] /\ prefilled'[q] = prefilled[q]
      BY <3>2, Facts
    <3> QED
      BY <3>3, <3>4, <3>5, Zenon
  <2> QED
    BY <2>1, <2>2
<1>2. \A q \in Owners : Inherits(q, q)
  <2>1. TAKE q \in Owners
  <2>2. CASE q \in D
    BY <1>1, <2>2, NothingInherited
  <2>3. CASE q \notin D
    BY <1>1, <2>3, InheritsItself
  <2> QED
    BY <2>2, <2>3
<1>3. \A q \in Requests : SpareKept(q) \/ SparesOwn(q)'
  <2>1. TAKE q \in Requests
  <2>2. CASE q \in D
    BY <1>1, <2>2, NothingInherited
  <2>3. CASE q \notin D
    <3>1. \A s \in Owners : \A b \in Range(own'[s]) : b \in Range(own[s])
      <4>1. TAKE s \in Owners
      <4>2. own'[s] = <<>> \/ own'[s] = own[s]
        BY <1>1
      <4> QED
        BY <4>2, EmptyTable
    <3>2. own'[q] = own[q] /\ text'[q] = text[q] /\ prefilled'[q] = prefilled[q]
      BY <1>1, <2>3 DEF Owners
    <3> QED
      BY <3>1, <3>2 DEF SpareKept
  <2> QED
    BY <2>2, <2>3
<1> QED
  BY <1>2, <1>3, FillStep

(* A window's steps fill blocks that are its request's alone. *)
LEMMA WindowStepsFill ==
  ASSUME IInv, IInv', Fill, ~dead, NEW r \in Requests,
         (\E t \in Tokens : PlannedDecode(r, t)) \/ CloseWindow(r)
  PROVE  Fill'
<1>1. /\ window[r] > 0 /\ own' = own /\ key' = key /\ prefilled' = prefilled
      /\ \A q \in Requests \ {r} : text'[q] = text[q]
      /\ Len(text'[r]) >= Len(text[r])
  <2>1. CASE CloseWindow(r)
    <3>1. text[r] \in Seq(Tokens)
      BY Facts
    <3>2. Len(text[r]) \in Nat
      BY <3>1, LenProperties
    <3> QED
      BY <2>1, <3>2 DEF CloseWindow
  <2>2. ASSUME NEW t \in Tokens, PlannedDecode(r, t)
        PROVE  /\ window[r] > 0 /\ own' = own /\ key' = key /\ prefilled' = prefilled
               /\ \A q \in Requests \ {r} : text'[q] = text[q]
               /\ Len(text'[r]) >= Len(text[r])
    <3>1. /\ window[r] > 0 /\ own' = own /\ key' = key /\ prefilled' = prefilled
          /\ text' = [text EXCEPT ![r] = Append(@, t)]
      BY <2>2 DEF PlannedDecode
    <3>2. text \in [Requests -> Seq(Tokens)] /\ text[r] \in Seq(Tokens)
      BY Facts
    <3>3. text'[r] = Append(text[r], t) /\ \A q \in Requests \ {r} : text'[q] = text[q]
      BY <3>1, <3>2
    <3>4. Len(text[r]) \in Nat /\ Len(Append(text[r], t)) = Len(text[r]) + 1
      BY <3>2, AppendProperties
    <3> QED
      BY <3>1, <3>3, <3>4
  <2> QED
    BY <2>1, <2>2
<1>2. r \in Owners /\ \A b \in Range(own[r]) : Holders(b) = {r}
  BY <1>1 DEF IInv, PlannedSlotsPrivate, Owners
<1>3. \A b \in Blocks : Holders(b)' = Holders(b)
  BY <1>1 DEF Holders, Owners
<1>4. \A q \in Owners : Inherits(q, q)
  <2>1. TAKE q \in Owners
  <2>2. CASE q = r
    <3>1. ASSUME NEW i \in 1..Len(own'[r]), NEW s \in Owners, own'[r][i] \in Range(own'[s])
          PROVE  s = r
      <4>1. own[r][i] \in Range(own[r])
        BY <1>1, <1>2, <3>1, ContentFacts
      <4> QED
        BY <1>1, <1>2, <3>1, <4>1 DEF Holders
    <3> QED
      BY <2>2, <3>1 DEF Inherits
  <2>3. CASE q # r
    BY <1>1, <2>3, InheritsItself DEF Filled
  <2> QED
    BY <2>2, <2>3
<1>5. \A q \in Requests : SpareKept(q) \/ SparesOwn(q)'
  <2>1. TAKE q \in Requests
  <2>2. CASE q = r
    <3>1. ASSUME NEW i \in 1..Len(own[r]), Spare(r, i)'
          PROVE  prefilled[r] /\ Holders(own[r][i]) = {r} /\ own[r][i] \in Blocks
      <4>1. own[r][i] \in Range(own[r]) /\ own[r][i] \in Blocks
        BY <1>2, ContentFacts
      <4>2. prefilled[r]
        BY <1>1, Facts
      <4> QED
        BY <1>2, <4>1, <4>2
    <3>2. SparesOwn(r)'
      BY <1>1, <1>3, <3>1 DEF SparesOwn
    <3> QED
      BY <2>2, <3>2
  <2>3. CASE q # r
    <3>1. text'[q] = text[q] /\ own'[q] = own[q] /\ prefilled'[q] = prefilled[q]
      BY <1>1, <2>3
    <3> QED
      BY <1>1, <3>1 DEF SpareKept
  <2> QED
    BY <2>2, <2>3
<1> QED
  BY <1>4, <1>5, FillStep

(* A window reserves blocks that are its request's alone. *)
LEMMA OpenWindowFill ==
  ASSUME IInv, IInv', Fill, ~dead, NEW r \in Requests, NEW n \in 1..MaxWrite, OpenWindow(r, n)
  PROVE  Fill'
<1> DEFINE new == Growth(r, n)
           E   == Evicted(Cardinality(new))
           S   == free \cup Returned(E)
<1>1. PICK fresh \in [new -> S] :
        /\ own' = [o \in Owners |-> IF o = r THEN Patched(r, fresh) ELSE IF o \in E THEN <<>> ELSE own[o]]
  BY Zenon DEF OpenWindow
<1>2. /\ text' = text /\ prefilled' = prefilled /\ prefilled[r]
      /\ key' = [e \in Entries |-> IF e \in E THEN <<>> ELSE key[e]]
      /\ window' = [window EXCEPT ![r] = n]
  BY Zenon DEF OpenWindow
<1>3. /\ r \in Owners /\ E \subseteq Entries /\ E \subseteq Owners /\ r \notin E
      /\ RefcountExact /\ FreeIffUnowned /\ own[r] \in Seq(Blocks) /\ DOMAIN own[r] = 1..Len(own[r])
      /\ own'[r] \in Seq(Blocks) /\ DOMAIN own'[r] = 1..Len(own'[r]) /\ S \subseteq Blocks
  <2>1. E \subseteq Entries
    BY Facts, EvictedAreEntries
  <2> HIDE DEF E
  <2>2. own'[r] \in Seq(Blocks) /\ own[r] \in Seq(Blocks) /\ r \in Owners
    BY DEF IInv, TypeOK, Owners
  <2> QED
    BY <2>1, <2>2, Facts, PoolAssumption, LenProperties DEF Owners, Accounted, Returned
<1> HIDE DEF E, new
<1>4. \A b \in Range(own'[r]) : b \in Range(own[r]) \/ b \in S
  <2>1. own'[r] = Patched(r, fresh) /\ DOMAIN fresh = new /\ \A i \in new : fresh[i] \in S
    BY <1>1, <1>3
  <2> HIDE DEF S
  <2> DEFINE t == own'[r]
  <2>2. \A i \in DOMAIN t : t[i] \in Range(own[r]) \/ t[i] \in S
    <3>1. TAKE i \in DOMAIN t
    <3>2. i \in DOMAIN own[r] \cup new /\ t[i] = IF i \in new THEN fresh[i] ELSE own[r][i]
      BY <2>1, <3>1 DEF Patched
    <3> HIDE DEF t
    <3> QED
      BY <2>1, <3>2 DEF Range
  <2> HIDE DEF t
  <2>3. \A b \in Range(t) : b \in Range(own[r]) \/ b \in S
    BY <2>2 DEF Range
  <2> QED
    BY <2>3 DEF t
<1>5. \A q \in Owners \ E, b \in S : b \notin Range(own[q])
  <2>1. SUFFICES ASSUME NEW q \in Owners \ E, NEW b \in S, b \in Range(own[q]) PROVE FALSE
    OBVIOUS
  <2>2. q \in Holders(b) \ E /\ b \in Blocks
    BY <1>3, <2>1 DEF Holders
  <2> QED
    BY <1>3, <2>1, <2>2, AvailableExact
<1>6. \A b \in Range(own'[r]) : Holders(b)' = {r}
  <2>1. window'[r] = n /\ n > 0
    BY <1>2, Facts
  <2> QED
    BY <2>1 DEF IInv, PlannedSlotsPrivate
<1>7. \A q \in Owners : Inherits(q, q)
  <2>1. TAKE q \in Owners
  <2>2. CASE q = r
    <3>1. ASSUME NEW i \in 1..Len(own'[r]), NEW s \in Owners, own'[r][i] \in Range(own'[s])
          PROVE  s = r
      <4>1. own'[r][i] \in Range(own'[r])
        BY <1>3 DEF Range
      <4> QED
        BY <1>6, <3>1, <4>1 DEF Holders, Owners
    <3> QED
      BY <2>2, <3>1 DEF Inherits
  <2>3. CASE q # r /\ q \in E
    <3>1. own'[q] = <<>>
      BY <1>1, <2>3
    <3> QED
      BY <3>1, NothingInherited
  <2>4. CASE q # r /\ q \notin E
    <3>1. own'[q] = own[q] /\ Filled(q)' = Filled(q)
      BY <1>1, <1>2, <2>4 DEF Filled, Owners
    <3> QED
      BY <3>1, InheritsItself
  <2> QED
    BY <2>2, <2>3, <2>4
<1>8. \A q \in Requests : SpareKept(q) \/ SparesOwn(q)'
  <2>1. TAKE q \in Requests
  <2>2. CASE q = r
    <3>1. \A i \in 1..Len(own'[r]) : own'[r][i] \in Range(own'[r])
      BY <1>3 DEF Range
    <3>2. SparesOwn(r)'
      BY <1>2, <1>6, <3>1 DEF SparesOwn
    <3> QED
      BY <2>2, <3>2
  <2>3. CASE q # r
    <3>1. q \in Owners \ E
      BY <1>3, PoolAssumption DEF Owners
    <3>2. text'[q] = text[q] /\ own'[q] = own[q] /\ prefilled'[q] = prefilled[q]
      BY <1>1, <1>2, <2>3, <3>1
    <3>3. ASSUME NEW s \in Owners, NEW b \in Range(own'[s]), s # q, b \in Range(own[q])
          PROVE  \E p \in Owners : p # q /\ b \in Range(own[p])
      <4>1. b \notin S
        BY <1>5, <3>1, <3>3
      <4>2. CASE s = r
        BY <1>3, <1>4, <2>3, <3>3, <4>1, <4>2
      <4>3. CASE s # r
        <5>1. own'[s] = own[s] \/ own'[s] = <<>>
          BY <1>1, <4>3
        <5> QED
          BY <3>3, <5>1, EmptyTable
      <4> QED
        BY <4>2, <4>3
    <3> QED
      BY <3>2, <3>3 DEF SpareKept
  <2> QED
    BY <2>2, <2>3
<1> QED
  BY <1>7, <1>8, FillStep

(* A dry pool ends the engine, which appends no more. *)
LEMMA OutOfBlocksFill ==
  ASSUME NEW r, NEW n, OutOfBlocks(r, n)
  PROVE  Fill'
  BY DEF OutOfBlocks, Fill

(* The blocks that m blocks' worth of tokens fill. *)
LEMMA WholeBlocksFull ==
  ASSUME NEW m \in Nat, NEW i \in 1..m
  PROVE  i * BlockSize <= m * BlockSize /\ (i - 1) * BlockSize < m * BlockSize
<1>1. BlockSize \in Nat /\ BlockSize > 0 /\ i \in Nat /\ i <= m /\ i - 1 \in Nat
  BY PoolAssumption
<1>2. i * BlockSize <= m * BlockSize
  BY <1>1, TimesMonotonic
<1>3. i * BlockSize = (i - 1) * BlockSize + BlockSize /\ (i - 1) * BlockSize \in Nat /\ m * BlockSize \in Nat
  BY <1>1
<1> QED
  BY <1>1, <1>2, <1>3

(* A hit shares full blocks, and nothing behind them. *)
LEMMA LookupFill ==
  ASSUME IInv, IInv', Fill, ~dead, NEW r \in Requests, NEW prompt \in Prompts, LookupHit(r, prompt)
  PROVE  Fill'
<1>1. PICK i \in DOMAIN lru :
        LET m == MatchBlocks(lru[i], prompt)
        IN  /\ own' = [own EXCEPT ![r] = SubSeq(own[lru[i]], 1, m)]
            /\ text' = [text EXCEPT ![r] = SubSeq(prompt, 1, m * BlockSize)]
  BY Zenon DEF LookupHit, Reused
<1> DEFINE e == lru[i]
           m == MatchBlocks(e, prompt)
<1>2. key' = key /\ prefilled' = prefilled
  BY DEF LookupHit
<1>3. e \in Entries /\ e \in Owners /\ r \in Owners /\ e \notin Requests
  BY Facts, PoolAssumption, ElementOfSeq, LenProperties DEF Owners
<1>4. prompt \in Seq(Tokens) /\ Len(prompt) > 0
  <2>1. PICK n \in 1..MaxLen : prompt \in [1..n -> Tokens]
    BY DEF Prompts
  <2>2. n \in Nat /\ n > 0
    BY <2>1
  <2> QED
    BY <2>1, <2>2, IsASeq
<1>5. own' = [own EXCEPT ![r] = SubSeq(own[e], 1, m)] /\ text' = [text EXCEPT ![r] = SubSeq(prompt, 1, m * BlockSize)]
  BY <1>1
<1> HIDE DEF e
<1>6. /\ key[e] \in Seq(Tokens) /\ own[e] \in Seq(Blocks) /\ Len(own[e]) \in Nat
      /\ Len(key[e]) = Len(own[e]) * BlockSize
  BY <1>3, Facts, ContentFacts
<1>7. m \in 0..Len(own[e]) /\ m * BlockSize < Len(prompt)
  BY <1>3, <1>4, <1>6, MatchInRange
<1> HIDE DEF m
<1>8. m \in Nat /\ m <= Len(own[e]) /\ m * BlockSize \in Nat /\ m * BlockSize <= Len(prompt)
  <2>1. m \in Nat /\ m <= Len(own[e])
    BY <1>6, <1>7
  <2>2. m * BlockSize \in Nat /\ Len(prompt) \in Nat
    BY <1>4, <2>1, PoolAssumption, LenProperties
  <2> QED
    BY <1>7, <2>1, <2>2
<1>9. /\ own'[r] = SubSeq(own[e], 1, m) /\ Len(own'[r]) = m
      /\ \A k \in 1..m : own'[r][k] = own[e][k]
  <2>1. own'[r] = SubSeq(own[e], 1, m)
    BY <1>3, <1>5, Facts
  <2> QED
    BY <1>6, <1>8, <2>1, PrefixOf
<1>10. Len(text'[r]) = m * BlockSize
  <2> DEFINE size == m * BlockSize
  <2>1. text'[r] = SubSeq(prompt, 1, size)
    BY <1>5, Facts
  <2>2. size \in Nat /\ size <= Len(prompt)
    BY <1>8
  <2> HIDE DEF size
  <2>3. Len(text'[r]) = size
    BY <1>4, <2>1, <2>2, PrefixOf
  <2> QED
    BY <2>3 DEF size
<1>11. \A q \in Owners \ {r} : own'[q] = own[q] /\ Filled(q)' = Filled(q)
  BY <1>2, <1>5, Facts DEF Filled
<1>12. \A q \in Owners : \E p \in Owners : Inherits(q, p)
  <2>1. TAKE q \in Owners
  <2>2. CASE q = r
    <3>1. ASSUME NEW k \in 1..m
          PROVE  Full(r, k)' /\ Full(e, k) /\ k <= Len(own[e])
      <4>1. k * BlockSize <= m * BlockSize
        BY <1>8, WholeBlocksFull
      <4>2. k <= Len(own[e]) /\ k \in 1..Len(own[e])
        BY <1>6, <1>8
      <4>3. k * BlockSize <= Len(own[e]) * BlockSize
        BY <1>6, <4>2, WholeBlocksFull
      <4> QED
        BY <1>3, <1>6, <1>10, <4>1, <4>2, <4>3 DEF Full, Filled
    <3>2. Inherits(r, e)
      BY <1>9, <3>1 DEF Inherits
    <3> QED
      BY <1>3, <2>2, <3>2
  <2>3. CASE q # r
    BY <1>11, <2>3, InheritsItself
  <2> QED
    BY <2>2, <2>3
<1>13. \A q \in Requests : SpareKept(q) \/ SparesOwn(q)'
  <2>1. TAKE q \in Requests
  <2>2. CASE q = r
    <3>1. ASSUME NEW k \in 1..m
          PROVE  ~Spare(r, k)'
      <4>1. (k - 1) * BlockSize < m * BlockSize /\ (k - 1) * BlockSize \in Nat
        BY <1>8, WholeBlocksFull, PoolAssumption
      <4> QED
        BY <1>8, <1>10, <4>1 DEF Spare
    <3>2. SparesOwn(r)'
      BY <1>9, <3>1 DEF SparesOwn
    <3> QED
      BY <2>2, <3>2
  <2>3. CASE q # r
    <3>1. text'[q] = text[q] /\ own'[q] = own[q] /\ prefilled'[q] = prefilled[q]
      BY <1>2, <1>5, <2>3, Facts DEF Owners
    <3>2. ASSUME NEW s \in Owners, NEW b \in Range(own'[s]), s # q, b \in Range(own[q])
          PROVE  \E p \in Owners : p # q /\ b \in Range(own[p])
      <4>1. CASE s = r
        <5> DEFINE t == own'[r]
        <5>1. \A k \in DOMAIN t : t[k] \in Range(own[e])
          <6>1. own'[r] \in Seq(Blocks)
            BY <1>3 DEF IInv, TypeOK
          <6>2. DOMAIN t = 1..m
            BY <1>9, <6>1, LenProperties
          <6>3. ASSUME NEW k \in 1..m PROVE own[e][k] \in Range(own[e])
            <7>1. k \in 1..Len(own[e])
              BY <1>6, <1>8
            <7> QED
              BY <1>3, <7>1, ContentFacts
          <6> QED
            BY <1>9, <6>2, <6>3
        <5> HIDE DEF t
        <5>2. \A c \in Range(t) : c \in Range(own[e])
          BY <5>1 DEF Range
        <5>3. b \in Range(own[e]) /\ e # q
          BY <1>3, <3>2, <4>1, <5>2 DEF t
        <5> QED
          BY <1>3, <5>3
      <4>2. CASE s # r
        BY <1>11, <3>2, <4>2
      <4> QED
        BY <4>1, <4>2
    <3> QED
      BY <3>1, <3>2 DEF SpareKept
  <2> QED
    BY <2>2, <2>3
<1> QED
  BY <1>12, <1>13, FillStep

(* A donated entry's blocks are full, as they were in the request's table. *)
LEMMA FinishFill ==
  ASSUME IInv, IInv', Fill, ~dead, NEW r \in Requests, Finish(r)
  PROVE  Fill'
<1>1. PICK e, n, D : Donates(r, e, n, D)
  BY FinishEffect
<1>2. text' = [text EXCEPT ![r] = <<>>] /\ prefilled' = [prefilled EXCEPT ![r] = FALSE]
  BY Zenon DEF Finish
<1>3. /\ e \in Owners /\ r \in Owners /\ own[r] \in Seq(Blocks) /\ text[r] \in Seq(Tokens)
      /\ e \notin Requests /\ Len(own[r]) \in Nat /\ r \in D /\ r # e
      /\ n \in Nat /\ n <= Len(own[r]) /\ n * BlockSize \in Nat /\ n * BlockSize <= Len(text[r])
      /\ own'[e] = SubSeq(own[r], 1, n) /\ Filled(e)' = SubSeq(text[r], 1, n * BlockSize)
      /\ Filled(r) = text[r] /\ Len(text[r]) \in Nat
  BY <1>1, Facts, PoolAssumption, LenProperties DEF Donates, Owners, Filled
<1>4. Len(own'[e]) = n /\ \A k \in 1..n : own'[e][k] = own[r][k]
  BY <1>3, PrefixOf
<1>5. Len(Filled(e)') = n * BlockSize
  <2> DEFINE size == n * BlockSize
             toks == Filled(e)'
  <2>1. size \in Nat /\ size <= Len(text[r]) /\ toks = SubSeq(text[r], 1, size)
    BY <1>3
  <2> HIDE DEF size, toks
  <2>2. Len(toks) = size
    BY <1>3, <2>1, PrefixOf
  <2> QED
    BY <2>2 DEF size, toks
<1>6. \A q \in Owners : \E p \in Owners : Inherits(q, p)
  <2>1. TAKE q \in Owners
  <2>2. CASE q = e
    <3>1. ASSUME NEW k \in 1..n
          PROVE  Full(e, k)' /\ Full(r, k) /\ k <= Len(own[r])
      <4>1. k * BlockSize <= n * BlockSize /\ k * BlockSize \in Nat
        BY <1>3, WholeBlocksFull, PoolAssumption
      <4> QED
        BY <1>3, <1>5, <4>1 DEF Full
    <3>2. Inherits(e, r)
      BY <1>4, <3>1 DEF Inherits
    <3> QED
      BY <1>3, <2>2, <3>2
  <2>3. CASE q # e /\ q \in D
    <3>1. own'[q] = <<>>
      BY <1>1, <2>3 DEF Donates
    <3> QED
      BY <3>1, NothingInherited
  <2>4. CASE q # e /\ q \notin D
    <3>1. own'[q] = own[q] /\ Filled(q)' = Filled(q)
      BY <1>1, <2>4 DEF Donates
    <3> QED
      BY <3>1, InheritsItself
  <2> QED
    BY <2>2, <2>3, <2>4
<1>7. \A q \in Requests : SpareKept(q) \/ SparesOwn(q)'
  <2>1. TAKE q \in Requests
  <2>2. CASE q = r
    <3>1. own'[r] = <<>>
      BY <1>1, <1>3 DEF Donates
    <3> QED
      BY <1>3, <2>2, <3>1, NothingInherited
  <2>3. CASE q # r
    <3>1. text'[q] = text[q] /\ own'[q] = own[q] /\ prefilled'[q] = prefilled[q]
      BY <1>1, <1>2, <1>3, <2>3, Facts DEF Donates, Owners
    <3>2. ASSUME NEW s \in Owners, NEW b \in Range(own'[s]), s # q, b \in Range(own[q])
          PROVE  \E p \in Owners : p # q /\ b \in Range(own[p])
      <4>1. CASE s = e
        <5> DEFINE t == own'[e]
        <5>1. \A k \in DOMAIN t : t[k] \in Range(own[r])
          <6>1. own'[e] \in Seq(Blocks)
            BY <1>3 DEF IInv, TypeOK
          <6>2. DOMAIN t = 1..n
            BY <1>4, <6>1, LenProperties
          <6>3. ASSUME NEW k \in 1..n PROVE own[r][k] \in Range(own[r])
            <7>1. k \in 1..Len(own[r])
              BY <1>3
            <7> QED
              BY <1>3, <7>1, ContentFacts
          <6> QED
            BY <1>4, <6>2, <6>3
        <5> HIDE DEF t
        <5>2. \A c \in Range(t) : c \in Range(own[r])
          BY <5>1 DEF Range
        <5> QED
          BY <1>3, <2>3, <3>2, <4>1, <5>2 DEF t
      <4>2. CASE s # e
        <5>1. own'[s] = own[s] \/ own'[s] = <<>>
          BY <1>1, <4>2 DEF Donates
        <5> QED
          BY <3>2, <5>1, EmptyTable
      <4> QED
        BY <4>1, <4>2
    <3> QED
      BY <3>1, <3>2 DEF SpareKept
  <2> QED
    BY <2>2, <2>3
<1> QED
  BY <1>6, <1>7, FillStep

(* The blocks before the one that the next position falls into are full. *)
LEMMA EarlierBlocksFull ==
  ASSUME NEW n \in Nat, NEW i \in Nat, i < BlockIndex(n)
  PROVE  i * BlockSize <= n
<1>1. BlockSize \in Nat /\ BlockSize > 0
  BY PoolAssumption
<1> DEFINE d == n \div BlockSize
<1>2. d \in Nat /\ d * BlockSize <= n /\ BlockIndex(n) = d + 1 /\ d * BlockSize \in Nat
  <2>1. /\ n \div BlockSize \in Nat
        /\ n = BlockSize * (n \div BlockSize) + (n % BlockSize)
        /\ n % BlockSize \in 0..(BlockSize - 1)
    BY <1>1
  <2> QED
    BY <1>1, <2>1 DEF BlockIndex
<1> HIDE DEF d
<1>3. i <= d
  BY <1>2
<1>4. i * BlockSize <= d * BlockSize /\ i * BlockSize \in Nat
  BY <1>1, <1>2, <1>3, TimesMonotonic
<1> QED
  BY <1>2, <1>4

(* An append fills blocks that only the owners of its new table hold, and    *)
(* leaves spare blocks only where r had them.                                *)
LEMMA AppendFill ==
  ASSUME IInv, IInv', Fill, ~dead, NEW r \in Requests, NEW toks \in Seq(Tokens),
         NEW kept \in 0..Len(toks), NEW siblings \in SUBSET Requests,
         AppendKV(r, toks, kept, siblings),
         prefilled[r] => siblings = {}, \A q \in Requests : prefilled[q] => prefilled'[q]
  PROVE  Fill'
<1> DEFINE E    == Evicted(Cardinality(NewBlocks(r, Len(toks))))
           keep == Kept(r, toks, kept)
           need == BlocksFor(Len(text[r]) + Len(toks))
           at   == BlockIndex(Len(text[r]))
           avail == free \cup Returned(E)
           Twin(q) == q = r \/ q \in siblings
<1>1. PICK tbl : Appended(r, toks, kept, siblings, E, tbl)
  BY AppendEffect
<1>2. /\ IsTable(tbl) /\ tbl \in Seq(Blocks)
      /\ own' = [o \in Owners |-> IF Twin(o) THEN tbl ELSE IF o \in E THEN <<>> ELSE own[o]]
      /\ text' = [q \in Requests |-> IF Twin(q) THEN keep ELSE text[q]]
      /\ key' = [e \in Entries |-> IF e \in E THEN <<>> ELSE key[e]]
      /\ kept < Len(toks) => Len(tbl) <= BlocksFor(Len(text[r]) + kept)
  BY <1>1, Zenon DEF Appended, IsTable
<1>3. \A i \in 1..Len(tbl) :
        \/ i \in NewBlocks(r, Len(toks)) /\ tbl[i] \in avail
        \/ i \in 1..Len(own[r]) /\ i \notin Copied(r, Len(toks)) /\ tbl[i] = own[r][i]
  BY <1>1 DEF Appended
<1>4. /\ r \in Owners /\ E \subseteq Entries /\ E \subseteq Owners
      /\ Len(toks) \in Nat /\ Len(text[r]) \in Nat /\ text[r] \in Seq(Tokens) /\ Len(own[r]) \in Nat
      /\ RefcountExact /\ FreeIffUnowned /\ Filled(r) = text[r]
      /\ Len(tbl) \in Nat /\ DOMAIN tbl = 1..Len(tbl) /\ avail \subseteq Blocks
      /\ \A q \in Owners : Twin(q) => q \in Requests /\ q \notin E
  <2>1. E \subseteq Entries
    BY Facts, EvictedAreEntries
  <2> HIDE DEF E
  <2> QED
    BY <1>2, <2>1, Facts, PoolAssumption, LenProperties DEF Owners, Accounted, IInv, IsTable, Filled, Returned
<1>5. kept \in Nat /\ kept <= Len(toks) /\ Len(keep) = Len(text[r]) + kept
  <2>1. /\ text[r] \o toks \in Seq(Tokens) /\ Len(text[r] \o toks) = Len(text[r]) + Len(toks)
    BY <1>4, ConcatProperties
  <2>2. Len(text[r]) + kept \in Nat /\ Len(text[r]) + kept <= Len(text[r] \o toks)
    BY <1>4, <2>1
  <2> DEFINE n == Len(text[r]) + kept
             all == text[r] \o toks
  <2>3. keep = SubSeq(all, 1, n)
    BY DEF Kept
  <2> HIDE DEF n, all, keep
  <2>4. Len(keep) = n
    BY <2>1, <2>2, <2>3, PrefixOf DEF n, all
  <2> QED
    BY <1>4, <2>4 DEF n
<1>6. /\ need \in Nat /\ at \in Nat /\ at >= 1 /\ need * BlockSize \in Nat
      /\ Len(text[r]) + Len(toks) <= need * BlockSize
      /\ \A i \in NewBlocks(r, Len(toks)) : i <= need
  <2>1. Len(text[r]) + Len(toks) \in Nat
    BY <1>4
  <2>2. need \in Nat /\ Len(text[r]) + Len(toks) <= need * BlockSize /\ at \in Nat /\ at >= 1
    BY <1>4, <2>1, BlocksForCovers, SlotOfPosition
  <2>3. need * BlockSize \in Nat
    BY <2>2, PoolAssumption
  <2>4. \A i \in Growth(r, Len(toks)) : i <= need
    BY <1>4, <2>2 DEF Growth
  <2>5. \A i \in Copied(r, Len(toks)) : i <= need
    BY <2>2 DEF Copied
  <2> QED
    BY <2>2, <2>3, <2>4, <2>5 DEF NewBlocks
<1> HIDE DEF E, keep, need, at, avail
<1>7. \A q \in Owners : ~Twin(q) => own'[q] = <<>> \/ (own'[q] = own[q] /\ q \notin E)
  BY <1>2
<1>8. \A q \in Owners : Twin(q) => own'[q] = tbl /\ Filled(q)' = keep
  BY <1>2, <1>4 DEF Filled
<1> HIDE DEF Twin
<1>9. \A q \in Owners \ E, b \in avail : b \notin Range(own[q])
  <2>1. SUFFICES ASSUME NEW q \in Owners \ E, NEW b \in avail, b \in Range(own[q]) PROVE FALSE
    OBVIOUS
  <2>2. q \in Holders(b) \ E /\ b \in Blocks
    BY <1>4, <2>1 DEF Holders
  <2> QED
    BY <1>4, <2>1, <2>2, AvailableExact DEF avail
<1>10. ASSUME NEW q \in Owners, Twin(q)
       PROVE  Inherits(q, r)
  <2>1. SUFFICES ASSUME NEW i \in 1..Len(tbl)
                 PROVE  \/ i <= Len(own[r]) /\ tbl[i] = own[r][i] /\ (Full(q, i)' <=> Full(r, i))
                        \/ \A s \in Owners : tbl[i] \in Range(own'[s]) => Twin(s)
    BY <1>8, <1>10 DEF Inherits
  <2>2. CASE tbl[i] \in avail
    <3>1. ASSUME NEW s \in Owners, tbl[i] \in Range(own'[s]), ~Twin(s) PROVE FALSE
      BY <1>7, <1>9, <2>2, <3>1, EmptyTable
    <3> QED
      BY <3>1
  <2>3. CASE /\ i \in 1..Len(own[r]) /\ i \notin Copied(r, Len(toks)) /\ tbl[i] = own[r][i]
             /\ at <= i /\ i <= need
    <3>1. ASSUME NEW s \in Owners, tbl[i] \in Range(own'[s]), ~Twin(s) PROVE FALSE
      <4>1. own[r][i] \in Range(own[s]) /\ s \notin E
        BY <1>7, <2>3, <3>1, EmptyTable
      <4>2. s = r
        BY <1>4, <2>3, <4>1, NotCopiedIsSole DEF at, need, E
      <4> QED
        BY <3>1, <4>2 DEF Twin
    <3> QED
      BY <3>1
  <2>4. CASE /\ i \in 1..Len(own[r]) /\ i \notin Copied(r, Len(toks)) /\ tbl[i] = own[r][i]
             /\ ~(at <= i /\ i <= need)
    <3>1. i \in Nat /\ i >= 1 /\ i * BlockSize \in Nat
      BY <1>4, PoolAssumption
    <3>2. Full(q, i)' = (i * BlockSize <= Len(text[r]) + kept) /\ Full(r, i) = (i * BlockSize <= Len(text[r]))
      BY <1>4, <1>5, <1>8, <1>10 DEF Full
    <3>3. CASE i < at
      <4>1. i * BlockSize <= Len(text[r])
        BY <1>4, <3>1, <3>3, EarlierBlocksFull DEF at
      <4> QED
        BY <1>4, <1>5, <2>4, <3>1, <3>2, <4>1
    <3>4. CASE i > need
      <4>2. need <= i - 1 /\ i - 1 \in Nat
        BY <1>6, <3>1, <3>4
      <4>3. need * BlockSize <= (i - 1) * BlockSize
        BY <1>6, <4>2, TimesMonotonic
      <4>4. (i - 1) * BlockSize < i * BlockSize /\ (i - 1) * BlockSize \in Nat
        <5>1. i \in 1..i
          BY <3>1
        <5>2. (i - 1) * BlockSize < i * BlockSize
          BY <3>1, <5>1, WholeBlocksFull
        <5>3. (i - 1) * BlockSize \in Nat
          BY <4>2, PoolAssumption
        <5> QED
          BY <5>2, <5>3
      <4>5. Len(text[r]) + Len(toks) < i * BlockSize
        BY <1>4, <1>6, <3>1, <4>3, <4>4
      <4> QED
        BY <1>4, <1>5, <2>4, <3>1, <3>2, <4>5
    <3> QED
      BY <1>6, <2>4, <3>1, <3>3, <3>4
  <2> QED
    BY <1>3, <2>1, <2>2, <2>3, <2>4
<1>11. \A q \in Owners : \E p \in Owners : Inherits(q, p)
  <2>1. TAKE q \in Owners
  <2>2. CASE Twin(q)
    BY <1>4, <1>10, <2>2
  <2>3. CASE ~Twin(q) /\ q \in E
    <3>1. own'[q] = <<>>
      BY <1>7, <2>3
    <3> QED
      BY <3>1, NothingInherited
  <2>4. CASE ~Twin(q) /\ q \notin E
    <3>1. own'[q] = own[q] /\ Filled(q)' = Filled(q)
      BY <1>2, <2>4 DEF Filled, Owners
    <3> QED
      BY <3>1, InheritsItself
  <2> QED
    BY <2>2, <2>3, <2>4
<1>12. ASSUME NEW q \in Requests, Twin(q)
       PROVE  SparesOwn(q)'
  <2>1. q \in Owners /\ own'[q] = tbl /\ text'[q] = keep
    BY <1>2, <1>8, <1>12 DEF Owners, Twin
  <2>2. SUFFICES ASSUME NEW i \in 1..Len(tbl), Len(keep) <= (i - 1) * BlockSize
                 PROVE  prefilled'[q] /\ q = r /\ \A s \in Owners : tbl[i] \in Range(own'[s]) => s = r
    <3>1. SUFFICES ASSUME NEW i \in 1..Len(tbl), Len(keep) <= (i - 1) * BlockSize
                   PROVE  prefilled'[q] /\ {o \in Owners : tbl[i] \in Range(own'[o])} = {q}
      BY <2>1 DEF SparesOwn, Spare, Holders, Owners
    <3>2. tbl[i] \in Range(own'[q])
      BY <1>4, <2>1 DEF Range
    <3> QED
      BY <2>1, <2>2, <3>1, <3>2
  <2>3. i \in Nat /\ i >= 1 /\ i - 1 \in Nat /\ (i - 1) * BlockSize \in Nat
    <3>1. i \in Nat /\ i >= 1 /\ i - 1 \in Nat
      BY <1>4
    <3> QED
      BY <3>1, PoolAssumption
  <2>4. \A n \in Nat : n <= Len(keep) => ~(i <= BlocksFor(n))
    <3>1. SUFFICES ASSUME NEW n \in Nat, n <= Len(keep), i <= BlocksFor(n) PROVE FALSE
      OBVIOUS
    <3>2. (i - 1) * BlockSize < n
      BY <2>3, <3>1, BlocksForTight
    <3> QED
      BY <1>4, <1>5, <2>2, <2>3, <3>1, <3>2
  <2>5. kept = Len(toks)
    <3>1. SUFFICES ASSUME kept < Len(toks) PROVE FALSE
      BY <1>4, <1>5
    <3> DEFINE n == Len(text[r]) + kept
    <3>2. n \in Nat /\ n <= Len(keep) /\ Len(tbl) <= BlocksFor(n)
      BY <1>2, <1>4, <1>5, <3>1
    <3> HIDE DEF n
    <3>3. BlocksFor(n) \in Nat
      BY <3>2, BlocksForCovers
    <3>4. i <= BlocksFor(n)
      BY <1>4, <2>2, <2>3, <3>2, <3>3
    <3> QED
      BY <2>4, <3>2, <3>4
  <2>6. i > need
    <3>1. Len(text[r]) + Len(toks) \in Nat /\ Len(text[r]) + Len(toks) <= Len(keep)
      BY <1>4, <1>5, <2>5
    <3>2. ~(i <= need)
      BY <2>4, <3>1 DEF need
    <3> QED
      BY <1>6, <2>3, <3>2
  <2>7. i \in 1..Len(own[r]) /\ tbl[i] = own[r][i]
    BY <1>3, <1>6, <2>2, <2>3, <2>6
  <2>8. Spare(r, i)
    BY <1>4, <1>5, <2>2, <2>3 DEF Spare
  <2>9. prefilled[r] /\ Holders(tbl[i]) = {r}
    BY <2>7, <2>8 DEF Fill, SparesPrivate, SparesOwn
  <2>10. q = r /\ prefilled'[q] /\ \A s \in Owners : Twin(s) => s = r
    BY <1>12, <2>9 DEF Twin
  <2>11. ASSUME NEW s \in Owners, tbl[i] \in Range(own'[s]), s # r PROVE FALSE
    <3>1. tbl[i] \in Range(own[s])
      BY <1>7, <2>10, <2>11, EmptyTable
    <3> QED
      BY <2>9, <2>11, <3>1 DEF Holders
  <2> QED
    BY <2>10, <2>11
<1>13. \A q \in Requests : SpareKept(q) \/ SparesOwn(q)'
  <2>1. TAKE q \in Requests
  <2>2. CASE Twin(q)
    BY <1>12, <2>2
  <2>3. CASE ~Twin(q)
    <3>1. q \in Owners \ E /\ q # r
      BY <1>4, <2>3, PoolAssumption DEF Owners, Twin
    <3>2. text'[q] = text[q] /\ own'[q] = own[q] /\ (prefilled[q] => prefilled'[q])
      BY <1>2, <2>3, <3>1 DEF Twin
    <3>3. ASSUME NEW s \in Owners, NEW b \in Range(own'[s]), s # q, b \in Range(own[q])
          PROVE  \E p \in Owners : p # q /\ b \in Range(own[p])
      <4>1. CASE Twin(s)
        <5>1. PICK i \in 1..Len(tbl) : tbl[i] = b
          BY <1>4, <1>8, <3>3, <4>1 DEF Range
        <5>2. b \notin avail
          BY <1>9, <3>1, <3>3
        <5>3. i \in 1..Len(own[r]) /\ own[r][i] = b
          BY <1>3, <5>1, <5>2
        <5>4. b \in Range(own[r])
          BY <1>4, <5>3, ContentFacts
        <5> QED
          BY <1>4, <3>1, <5>4
      <4>2. CASE ~Twin(s)
        BY <1>7, <3>3, <4>2, EmptyTable
      <4> QED
        BY <4>1, <4>2
    <3> QED
      BY <3>2, <3>3 DEF SpareKept
  <2> QED
    BY <2>2, <2>3
<1> QED
  BY <1>11, <1>13, FillStep

(* A dead engine takes no step. *)
LEMMA NextAlive ==
  ASSUME Next
  PROVE  ~dead
<1>1. ASSUME NEW r, NEW n, OutOfBlocks(r, n) \/ OpenWindow(r, n) PROVE ~dead
  BY <1>1 DEF OutOfBlocks, OpenWindow
<1>2. ASSUME NEW r, NEW t, Decode(r, t) \/ PlannedDecode(r, t) PROVE ~dead
  BY <1>2 DEF Decode, PlannedDecode
<1>3. ASSUME NEW r, NEW toks, PrefillChunk(r, toks) \/ LookupHit(r, toks) PROVE ~dead
  BY <1>3 DEF PrefillChunk, LookupHit
<1>4. ASSUME NEW r, NEW toks, NEW kept, Verify(r, toks, kept) PROVE ~dead
  BY <1>4 DEF Verify
<1>5. ASSUME NEW r, CloseWindow(r) \/ Finish(r) \/ Drop(r) \/ Clear PROVE ~dead
  BY <1>5 DEF CloseWindow, Finish, Drop, Clear
<1> QED
  BY <1>1, <1>2, <1>3, <1>4, <1>5, Zenon DEF Next

LEMMA NextFill ==
  ASSUME IInv, Fill, Next
  PROVE  Fill'
<1>0. IInv'
  BY NextIInv
<1>d. SUFFICES ASSUME ~dead PROVE Fill'
  <2>1. dead' => Fill'
    BY DEF Fill
  <2>2. ~dead
    BY NextAlive
  <2> QED
    BY <1>d, <2>1, <2>2
<1>1. ASSUME NEW r \in Requests, NEW toks \in Chunks, PrefillChunk(r, toks)
      PROVE  Fill'
  <2>1. toks \in Seq(Tokens) /\ Len(toks) \in 0..Len(toks)
    <3>1. PICK n \in 1..MaxWrite : toks \in [1..n -> Tokens]
      BY DEF Chunks
    <3>2. toks \in Seq(Tokens) /\ Len(toks) \in Nat
      BY <3>1, IsASeq, LenProperties
    <3> QED
      BY <3>2
  <2>2. PICK siblings \in SUBSET Requests :
          /\ AppendKV(r, toks, Len(toks), siblings)
          /\ \A q \in Requests : prefilled[q] => prefilled'[q]
    <3>1. CASE AppendKV(r, toks, Len(toks), {}) /\ UNCHANGED prefilled
      <4>1. {} \in SUBSET Requests
        OBVIOUS
      <4> QED
        BY <3>1, <4>1
    <3>2. ASSUME NEW siblings \in SUBSET Unstarted(r), AppendKV(r, toks, Len(toks), siblings),
                 prefilled' = [q \in Requests |-> prefilled[q] \/ q = r \/ q \in siblings]
          PROVE  \E S \in SUBSET Requests : /\ AppendKV(r, toks, Len(toks), S)
                                            /\ \A q \in Requests : prefilled[q] => prefilled'[q]
      <4>1. siblings \in SUBSET Requests
        BY <3>2 DEF Unstarted
      <4>2. \A q \in Requests : prefilled[q] => prefilled'[q]
        BY <3>2
      <4> QED
        BY <3>2, <4>1, <4>2, Zenon
    <3> QED
      BY <1>1, <3>1, <3>2, Zenon DEF PrefillChunk
  <2>3. ~prefilled[r]
    BY <1>1 DEF PrefillChunk
  <2> QED
    BY <1>0, <1>d, <2>1, <2>2, <2>3, AppendFill
<1>2. ASSUME NEW r \in Requests, NEW t \in Tokens, Decode(r, t)
      PROVE  Fill'
  <2> DEFINE toks == <<t>>
  <2>1. toks \in Seq(Tokens) /\ Len(toks) = 1 /\ 1 \in 0..Len(toks) /\ {} \in SUBSET Requests
    OBVIOUS
  <2>2. AppendKV(r, toks, 1, {}) /\ prefilled' = prefilled
    BY <1>2 DEF Decode
  <2> HIDE DEF toks
  <2> QED
    BY <1>0, <1>d, <2>1, <2>2, AppendFill
<1>3. ASSUME NEW r \in Requests, NEW t \in Tokens, PlannedDecode(r, t)
      PROVE  Fill'
  BY <1>0, <1>d, <1>3, WindowStepsFill
<1>4. ASSUME NEW r \in Requests, NEW toks \in Chunks, NEW kept \in 1..MaxWrite, Verify(r, toks, kept)
      PROVE  Fill'
  <2>1. toks \in Seq(Tokens) /\ Len(toks) \in Nat
    <3>1. PICK n \in 1..MaxWrite : toks \in [1..n -> Tokens]
      BY <1>4 DEF Chunks
    <3> QED
      BY <3>1, IsASeq, LenProperties
  <2>2. /\ AppendKV(r, toks, kept, {}) /\ kept \in 1..Len(toks) /\ {} \in SUBSET Requests
        /\ prefilled' = prefilled
    BY <1>4 DEF Verify
  <2>3. kept \in 0..Len(toks)
    BY <2>1, <2>2
  <2> QED
    BY <1>0, <1>d, <2>1, <2>2, <2>3, AppendFill
<1>5. ASSUME NEW r \in Requests, NEW n \in 1..MaxWrite, OpenWindow(r, n)
      PROVE  Fill'
  BY <1>0, <1>d, <1>5, OpenWindowFill
<1>6. ASSUME NEW r \in Requests, NEW n \in 1..MaxWrite, OutOfBlocks(r, n)
      PROVE  Fill'
  BY <1>6, OutOfBlocksFill
<1>7. ASSUME NEW r \in Requests, CloseWindow(r)
      PROVE  Fill'
  BY <1>0, <1>d, <1>7, WindowStepsFill
<1>8. ASSUME NEW r \in Requests, Finish(r)
      PROVE  Fill'
  BY <1>0, <1>d, <1>8, FinishFill
<1>9. ASSUME NEW r \in Requests, Drop(r)
      PROVE  Fill'
  BY <1>0, <1>d, <1>9, ReleaseFill
<1>10. ASSUME NEW r \in Requests, NEW prompt \in Prompts, LookupHit(r, prompt)
       PROVE  Fill'
  BY <1>0, <1>d, <1>10, LookupFill
<1>11. ASSUME Clear
       PROVE  Fill'
  BY <1>0, <1>d, <1>11, ReleaseFill
<1> QED
  BY <1>1, <1>2, <1>3, <1>4, <1>5, <1>6, <1>7, <1>8, <1>9, <1>10, <1>11 DEF Next

LEMMA InitFill ==
  ASSUME Init
  PROVE  Fill
<1>1. \A o \in Owners : own[o] = <<>>
  BY DEF Init
<1>2. \A o \in Owners : \A i \in 1..Len(own[o]) : FALSE
  BY <1>1, EmptyTable
<1> QED
  BY <1>2 DEF Fill, FillAgrees, SparesPrivate, SparesOwn, Owners

LEMMA StutterFill ==
  ASSUME Fill, UNCHANGED vars
  PROVE  Fill'
  BY DEF vars, Fill, FillAgrees, SparesPrivate, SparesOwn, Spare, Full, Filled, Holders, Owners

-----------------------------------------------------------------------------
(* From Fill to the cost *)

(* The blocks an append would copy are partly filled, so no entry holds them *)
(* and no eviction makes the copy unnecessary.                               *)
LEMMA CopiesForeseen ==
  ASSUME IInv, FillAgrees, NEW r \in Requests, NEW count \in Nat,
         NEW i \in 1..Len(own[r]), BlockIndex(Len(text[r])) <= i,
         NEW E \in SUBSET Entries
  PROVE  RefAfter(E)[own[r][i]] = refcount[own[r][i]]
<1> DEFINE b == own[r][i]
<1>1. /\ r \in Owners /\ b \in Blocks /\ Len(text[r]) \in Nat /\ Len(own[r]) \in Nat
      /\ Filled(r) = text[r] /\ RefcountExact /\ E \subseteq Owners
  BY Facts, ContentFacts, LenProperties DEF Owners, Filled
<1>2. ~Full(r, i)
  <2>1. i \in Nat /\ i >= 1 /\ i * BlockSize \in Nat
    BY <1>1, PoolAssumption
  <2>2. /\ BlockIndex(Len(text[r])) \in Nat /\ BlockIndex(Len(text[r])) >= 1
        /\ Len(text[r]) % BlockSize \in Offsets
        /\ Slot(BlockIndex(Len(text[r])), Len(text[r]) % BlockSize) = Len(text[r])
    BY <1>1, SlotOfPosition
  <2> DEFINE at == BlockIndex(Len(text[r]))
  <2>3. at * BlockSize \in Nat /\ Len(text[r]) < at * BlockSize
    BY <2>2, SlotBounds
  <2>4. at * BlockSize <= i * BlockSize
    BY <2>1, <2>2, TimesMonotonic
  <2> HIDE DEF at
  <2>5. Len(text[r]) < i * BlockSize
    BY <1>1, <2>1, <2>3, <2>4
  <2> QED
    BY <1>1, <2>1, <2>5 DEF Full
<1>3. ASSUME NEW e \in Entries, b \in Range(own[e])
      PROVE  FALSE
  <2>1. /\ e \in Owners /\ own[e] \in Seq(Blocks) /\ Len(own[e]) \in Nat
        /\ Filled(e) = key[e] /\ Len(key[e]) = Len(own[e]) * BlockSize
    BY <1>3, Facts, ContentFacts, PoolAssumption DEF Owners, Filled
  <2>2. PICK j \in 1..Len(own[e]) : own[e][j] = b
    BY <1>3, <2>1, LenProperties DEF Range
  <2>3. j * BlockSize <= Len(own[e]) * BlockSize
    BY <2>1, WholeBlocksFull
  <2>4. Full(e, j)
    BY <2>1, <2>3 DEF Full
  <2> QED
    BY <1>1, <1>2, <2>1, <2>2, <2>4 DEF FillAgrees
<1>4. Holders(b) \ E = Holders(b)
  BY <1>3 DEF Holders
<1>5. RefAfter(E)[b] = Cardinality(Holders(b) \ E) /\ refcount[b] = Cardinality(Holders(b))
  BY <1>1, ReleaseExact DEF RefcountExact
<1> QED
  BY <1>4, <1>5

LEMMA DryRunExact ==
  ASSUME IInv, FillAgrees, NEW r \in Requests, NEW count \in Nat
  PROVE  AppendCost(r, count) = Cardinality(NewBlocks(r, count))
<1> DEFINE need == BlocksFor(Len(text[r]) + count)
           at   == BlockIndex(Len(text[r]))
           size == Len(own[r])
           grow == Growth(r, count)
           C    == Copied(r, count)
<1>1. /\ Len(text[r]) \in Nat /\ size \in Nat /\ at \in Nat /\ at >= 1 /\ need \in Nat
  <2>1. Len(text[r]) \in Nat /\ size \in Nat
    BY Facts, LenProperties DEF Owners
  <2>2. Len(text[r]) + count \in Nat
    BY <2>1
  <2> QED
    BY <2>1, <2>2, SlotOfPosition, BlocksForCovers
<1>2. C = {i \in at..need : i <= size /\ refcount[own[r][i]] > 1}
  <2> DEFINE E == Evicted(Cardinality(grow))
  <2>1. E \in SUBSET Entries
    BY Facts, EvictedAreEntries
  <2>2. C = {i \in at..need : i <= size /\ RefAfter(E)[own[r][i]] > 1}
    BY Zenon DEF Copied
  <2> HIDE DEF E, C, need, grow
  <2>3. ASSUME NEW i \in at..need, i <= size
        PROVE  RefAfter(E)[own[r][i]] = refcount[own[r][i]]
    <3>1. i \in 1..Len(own[r]) /\ BlockIndex(Len(text[r])) <= i
      BY <1>1, <2>3
    <3> QED
      BY <2>1, <3>1, CopiesForeseen
  <2> QED
    BY <2>2, <2>3
<1>3. AppendCost(r, count) = (IF need > size THEN need - size ELSE 0) + Cardinality(C)
  <2>1. AppendCost(r, count) =
          (IF need > size THEN need - size ELSE 0)
            + Cardinality({i \in at..need : i <= size /\ refcount[own[r][i]] > 1})
    BY Zenon DEF AppendCost
  <2> QED
    BY <1>2, <2>1, Zenon
<1>4. grow = (size + 1)..need
  BY Zenon DEF Growth
<1>5. NewBlocks(r, count) = grow \cup C
  BY Zenon DEF NewBlocks
<1>6. C \subseteq 1..size
  BY <1>1, <1>2
<1> HIDE DEF need, at, size, grow, C
<1>7. /\ IsFiniteSet(grow) /\ Cardinality(grow) = IF need > size THEN need - size ELSE 0
  <2> DEFINE a == size + 1
  <2>1. a \in Int /\ need \in Int /\ grow = a..need
    BY <1>1, <1>4
  <2>2. (IF a > need THEN 0 ELSE need - a + 1) = IF need > size THEN need - size ELSE 0
    BY <1>1
  <2> HIDE DEF a
  <2>3. IsFiniteSet(a..need) /\ Cardinality(a..need) = IF a > need THEN 0 ELSE need - a + 1
    BY <2>1, FS_Interval
  <2> QED
    BY <2>1, <2>2, <2>3
<1>8. IsFiniteSet(C) /\ Cardinality(C) \in Nat
  <2>1. IsFiniteSet(1..size)
    BY <1>1, FS_Interval
  <2> QED
    BY <1>6, <2>1, FS_Subset, FS_CardinalityType
<1>9. grow \cap C = {}
  BY <1>1, <1>4, <1>6
<1>10. Cardinality(grow \cup C) = Cardinality(grow) + Cardinality(C) - Cardinality(grow \cap C)
  BY <1>7, <1>8, FS_Union
<1>11. Cardinality(grow \cap C) = 0
  BY <1>9, FS_EmptySet
<1> QED
  BY <1>1, <1>3, <1>5, <1>7, <1>8, <1>10, <1>11

(* A position at the start of a block is where that block begins. *)
LEMMA StartOfBlock ==
  ASSUME NEW n \in Nat, n % BlockSize = 0
  PROVE  n <= (BlockIndex(n) - 1) * BlockSize
<1>1. BlockSize \in Nat /\ BlockSize > 0
  BY PoolAssumption
<1>2. n \div BlockSize \in Nat /\ n = BlockSize * (n \div BlockSize) + (n % BlockSize)
  BY <1>1
<1> DEFINE d == n \div BlockSize
<1>3. d \in Nat /\ BlockIndex(n) = d + 1 /\ n = BlockSize * d
  BY <1>1, <1>2 DEF BlockIndex
<1> HIDE DEF d
<1>4. BlockIndex(n) - 1 = d
  BY <1>3
<1> QED
  BY <1>1, <1>3, <1>4

(* An append that starts a block starts one that is the request's own. *)
LEMMA StartsOwnBlock ==
  ASSUME IInv, SparesPrivate, NEW r \in Requests, NEW count \in Nat
  PROVE  ~OverwritesShared(r, count)
<1> DEFINE at == BlockIndex(Len(text[r]))
           b  == own[r][at]
           E  == Evicted(Cardinality(Growth(r, count)))
<1>1. SUFFICES ASSUME Len(text[r]) % BlockSize = 0, at <= Len(own[r]), RefAfter(E)[b] > 1
               PROVE  FALSE
  BY DEF OverwritesShared, Copied
<1>2. /\ r \in Owners /\ Len(text[r]) \in Nat /\ Len(own[r]) \in Nat /\ RefcountExact
      /\ E \subseteq Owners
  <2>1. E \subseteq Entries
    BY Facts, EvictedAreEntries
  <2> HIDE DEF E
  <2> QED
    BY <2>1, Facts, ContentFacts, LenProperties DEF Owners
<1>3. at \in 1..Len(own[r]) /\ Spare(r, at)
  <2>1. at \in Nat /\ at >= 1
    BY <1>2, SlotOfPosition
  <2>2. Len(text[r]) <= (at - 1) * BlockSize
    BY <1>1, <1>2, StartOfBlock
  <2> QED
    BY <1>1, <1>2, <2>1, <2>2 DEF Spare
<1>4. Holders(b) = {r} /\ b \in Blocks
  BY <1>2, <1>3, ContentFacts DEF SparesPrivate, SparesOwn
<1> HIDE DEF E, b
<1>5. RefAfter(E)[b] = Cardinality(Holders(b) \ E)
  BY <1>2, <1>4, ReleaseExact
<1>6. Cardinality(Holders(b) \ E) <= 1
  <2>1. Holders(b) \ E = {} \/ Holders(b) \ E = {r}
    BY <1>4
  <2>2. Cardinality({}) = 0 /\ Cardinality({r}) = 1
    BY FS_EmptySet, FS_Singleton
  <2> QED
    BY <2>1, <2>2
<1> QED
  BY <1>1, <1>5, <1>6, ReleaseExact, <1>2, <1>4

(* PagedKVCache.append_cost and prepare_write: an append takes exactly the   *)
(* blocks that its dry run counted, whatever it evicts on the way, and       *)
(* prepare_write never has to overwrite a shared block.                      *)
THEOREM DryRunForeseesAppends == Spec => []AppendCostExact
<1>1. Init => IInv /\ Fill
  BY InitIInv, InitFill
<1>2. IInv /\ Fill /\ [Next]_vars => (IInv /\ Fill)'
  BY NextIInv, StutterIInv, NextFill, StutterFill
<1>3. IInv /\ Fill => AppendCostExact
  <2>1. SUFFICES ASSUME IInv, Fill, NEW r \in Requests, NEW n \in 1..MaxWrite, ~dead
                 PROVE  ~OverwritesShared(r, n) /\ AppendCost(r, n) = Cardinality(NewBlocks(r, n))
    BY DEF AppendCostExact
  <2>2. n \in Nat
    OBVIOUS
  <2> QED
    BY <2>1, <2>2, DryRunExact, StartsOwnBlock DEF Fill
<1> QED
  BY <1>1, <1>2, <1>3, PTL DEF Spec
=============================================================================
