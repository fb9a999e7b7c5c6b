---------------------------- MODULE EngineProofs ----------------------------
(***************************************************************************)
(* The pass of the engine, for every set of requests, every pool, chunk,   *)
(* draft and cache, in reserve mode and under preemption: no error of its  *)
(* own leaves step() while clients put identical prompts in a group,       *)
(* tables are as long as their positions need, who waits holds nothing,    *)
(* and a request decodes at the position behind its own tokens.            *)
(*                                                                         *)
(* IInv says in each phase what the lists of the pass still are after the  *)
(* evictions of the calls before, and why the next call finds its blocks.  *)
(* In reserve mode a request never appends more than it was promised.      *)
(* Under preemption the resumed requests were counted at admission, the    *)
(* decode batch when room was made for it, and a prefill evicts until it   *)
(* fits or its request runs alone, and add_request only accepts what fits  *)
(* an empty pool to its last token.                                        *)
(*                                                                         *)
(* The first half is about a memory m, whatever the phase: what an append  *)
(* needs and what the pool supplies, what an append, a fork, a cut, a      *)
(* release, a donation and a hit leave.  Sound and Exact are what they     *)
(* keep.  From Exact, a block is full in every table that holds it or in   *)
(* none, follows that only one block of an append can be copied and that   *)
(* it is never a cached one: an eviction from the cache spares no copy,    *)
(* and the append needs what was counted.                                  *)
(***************************************************************************)
EXTENDS Engine, CollectionLemmas

-----------------------------------------------------------------------------
(* Blocks and positions *)

Blocks == 1..conf.pool

Entries == [text : Nat, blocks : Seq(Blocks)]

Shaped(m) ==
  m \in [table : [Requests -> Seq(Blocks)], length : [Requests -> Nat], cache : Seq(Entries),
         ok : BOOLEAN]

Built == conf \in Engines

(* The i-th block of r's table is full. *)
Whole(m, r, i) == i <= m.length[r] \div conf.block

(* Who holds a block: a table, a cache entry. *)
Held(m, b) == \E r \in Requests : b \in Range(m.table[r])

Cached(m, b) == \E k \in DOMAIN m.cache : b \in Range(m.cache[k].blocks)

(* A block is full in every table that holds it, or in none, and a cached  *)
(* one in all: the only block of a table that a write may change is never  *)
(* a cached one.                                                           *)
Level(m) ==
  \A r, q \in Requests : \A i \in DOMAIN m.table[r], j \in DOMAIN m.table[q] :
    m.table[r][i] = m.table[q][j] => (Whole(m, r, i) <=> Whole(m, q, j))

CachedWhole(m) ==
  \A r \in Requests : \A i \in DOMAIN m.table[r] : Cached(m, m.table[r][i]) => Whole(m, r, i)

Sound(m) ==
  /\ Shaped(m) /\ m.ok = TRUE
  /\ conf.entries = 0 => m.cache = <<>>
  /\ Level(m) /\ CachedWhole(m)

ExactIn(m, r) == Len(m.table[r]) = Positions(m.length[r])

Exact(m) == \A r \in Requests : ExactIn(m, r)

LEMMA ConfTypes ==
  ASSUME Built
  PROVE  /\ conf.pool \in Nat \ {0} /\ conf.block \in Nat \ {0} /\ conf.chunk \in Nat
         /\ conf.draft \in Nat /\ conf.entries \in Nat /\ conf.preemption \in BOOLEAN
         /\ conf.preemption => conf.entries = 0
         /\ conf.asks \subseteq [Requests -> Asks]
  BY EngineAssumption DEF Built

(* What rounding up gives: the least number of blocks that hold n. *)
LEMMA PositionsHold ==
  ASSUME Built, NEW n \in Nat
  PROVE  /\ Positions(n) \in Nat
         /\ n <= conf.block * Positions(n) /\ conf.block * Positions(n) < n + conf.block
<1> DEFINE d == conf.block
           m == n + d - 1
           p == m \div d
<1>1. d \in Nat \ {0} /\ m \in Nat
  BY ConfTypes
<1>2. p \in Nat /\ m % d \in 0..(d - 1) /\ m = d * p + (m % d)
  BY <1>1, DivMod
<1>3. Positions(n) = p
  BY DEF Positions
<1> HIDE DEF p
<1>4. d * p \in Nat
  BY <1>1, <1>2
<1>5. n <= d * p /\ d * p < n + d
  <2> DEFINE x == d * p
             y == m % d
  <2>1. x \in Nat /\ y \in 0..(d - 1) /\ n + d - 1 = x + y
    BY <1>2, <1>4
  <2> HIDE DEF x, y
  <2>2. n <= x /\ x < n + d
    BY <1>1, <2>1
  <2> QED
    BY <2>2 DEF x
<1> QED
  BY <1>2, <1>3, <1>5

LEMMA PositionsGrow ==
  ASSUME Built, NEW a \in Nat, NEW b \in Nat, a <= b
  PROVE  Positions(a) <= Positions(b)
<1> DEFINE d == conf.block
           p == Positions(a)
           q == Positions(b)
<1>1. d \in Nat \ {0}
  BY ConfTypes
<1>2. /\ p \in Nat /\ q \in Nat
      /\ d * p < a + d /\ b <= d * q
  BY PositionsHold
<1>3. d * p \in Nat /\ d * q \in Nat
  BY <1>1, <1>2
<1> HIDE DEF p, q
<1>4. ASSUME q < p PROVE FALSE
  <2>1. d * q + d <= d * p
    BY <1>1, <1>2, <1>4, TimesUp
  <2> HIDE DEF d
  <2> QED
    BY <1>1, <1>2, <1>3, <2>1
<1>5. p <= q
  BY <1>2, <1>4
<1> QED
  BY <1>5 DEF p, q

LEMMA PositionsOf ==
  ASSUME Built, NEW n \in Nat, NEW k \in Nat, NEW w, w = conf.block * k, n <= w, w < n + conf.block
  PROVE  Positions(n) = k
<1> DEFINE d == conf.block
           p == Positions(n)
<1>1. d \in Nat \ {0}
  BY ConfTypes
<1>2. p \in Nat /\ n <= d * p /\ d * p < n + d
  BY PositionsHold
<1>3. d * p \in Nat /\ d * k \in Nat
  BY <1>1, <1>2
<1> HIDE DEF p
<1>4. ASSUME p < k PROVE FALSE
  <2>1. d * p + d <= d * k
    BY <1>1, <1>2, <1>4, TimesUp
  <2> HIDE DEF d
  <2> QED
    BY <1>1, <1>2, <1>3, <2>1 DEF d
<1>5. ASSUME k < p PROVE FALSE
  <2>1. d * k + d <= d * p
    BY <1>1, <1>2, <1>5, TimesUp
  <2> HIDE DEF d
  <2> QED
    BY <1>1, <1>2, <1>3, <2>1 DEF d
<1>6. p = k
  BY <1>2, <1>4, <1>5
<1> QED
  BY <1>6 DEF p

(* n positions fill n \div block blocks; a rest needs one more. *)
LEMMA WholeBlocks ==
  ASSUME Built, NEW n \in Nat
  PROVE  /\ n \div conf.block \in Nat
         /\ conf.block * (n \div conf.block) <= n
         /\ n % conf.block = 0 => Positions(n) = n \div conf.block
         /\ n % conf.block # 0 => Positions(n) = n \div conf.block + 1
<1> DEFINE d == conf.block
           q == n \div d
           y == n % d
<1>1. d \in Nat \ {0}
  BY ConfTypes
<1>2. q \in Nat /\ y \in 0..(d - 1) /\ n = d * q + y
  BY <1>1, DivMod
<1> HIDE DEF q, y
<1>3. d * q \in Nat /\ d * (q + 1) = d * q + d
  <2> HIDE DEF d
  <2>1. d \in Nat /\ q \in Nat
    BY <1>1, <1>2
  <2> QED
    BY <2>1
<1> DEFINE x == d * q
<1>4. x \in Nat /\ n = x + y /\ d * (q + 1) = x + d
  BY <1>2, <1>3
<1> HIDE DEF x
<1>5. x <= n
  BY <1>2, <1>4
<1>6. ASSUME y = 0 PROVE Positions(n) = q
  <2>1. n = x /\ n <= x /\ x < n + d
    BY <1>1, <1>4, <1>6
  <2> QED
    BY <1>2, <2>1, PositionsOf DEF x
<1>7. ASSUME y # 0 PROVE Positions(n) = q + 1
  <2>1. n <= x + d /\ x + d < n + d
    BY <1>1, <1>2, <1>4, <1>7
  <2>2. q + 1 \in Nat
    BY <1>2
  <2> QED
    BY <1>4, <2>1, <2>2, PositionsOf
<1> QED
  BY <1>2, <1>5, <1>6, <1>7 DEF q, y, x

LEMMA PositionsOfNone ==
  ASSUME Built
  PROVE  /\ Positions(0) = 0
         /\ \A n \in Nat : n > 0 => Positions(n) > 0
<1>1. conf.block \in Nat \ {0}
  BY ConfTypes
<1>2. Positions(0) = 0
  BY <1>1, PositionsOf
<1>3. ASSUME NEW n \in Nat, n > 0 PROVE Positions(n) > 0
  <2>1. Positions(n) \in Nat /\ n <= conf.block * Positions(n)
    BY PositionsHold
  <2>2. ASSUME Positions(n) = 0 PROVE FALSE
    BY <1>1, <1>3, <2>1, <2>2
  <2> QED
    BY <2>1, <2>2
<1> QED
  BY <1>2, <1>3

LEMMA PositionsMono ==
  ASSUME Built
  PROVE  /\ \A n \in Nat : Positions(n) \in Nat
         /\ \A a, b \in Nat : a <= b => Positions(a) <= Positions(b)
<1>1. \A n \in Nat : Positions(n) \in Nat
  BY PositionsHold
<1>2. \A a, b \in Nat : a <= b => Positions(a) <= Positions(b)
  BY PositionsGrow
<1> QED
  BY <1>1, <1>2

-----------------------------------------------------------------------------
(* Who holds a block *)

LEMMA HoldersFinite ==
  ASSUME NEW m, Shaped(m), NEW b
  PROVE  /\ IsFiniteSet({r \in Requests : b \in Range(m.table[r])})
         /\ IsFiniteSet({k \in DOMAIN m.cache : b \in Range(m.cache[k].blocks)})
<1>1. IsFiniteSet(Requests)
  BY EngineAssumption
<1>2. m.cache \in Seq(Entries)
  BY DEF Shaped
<1>3. DOMAIN m.cache = 1..Len(m.cache) /\ Len(m.cache) \in Nat
  BY <1>2
<1>4. IsFiniteSet(DOMAIN m.cache)
  BY <1>3, FS_Interval
<1> QED
  BY <1>1, <1>4, FS_Subset

(* A block is free when no table and no cache entry holds it. *)
LEMMA FreeIff ==
  ASSUME NEW m, Shaped(m)
  PROVE  \A b : b \in Free(m) <=> b \in Blocks /\ ~Held(m, b) /\ ~Cached(m, b)
<1> SUFFICES ASSUME NEW b
             PROVE  b \in Free(m) <=> b \in Blocks /\ ~Held(m, b) /\ ~Cached(m, b)
  OBVIOUS
<1> DEFINE A == {r \in Requests : b \in Range(m.table[r])}
           C == {k \in DOMAIN m.cache : b \in Range(m.cache[k].blocks)}
<1>1. IsFiniteSet(A) /\ IsFiniteSet(C)
  BY HoldersFinite
<1>2. Cardinality(A) \in Nat /\ Cardinality(C) \in Nat
  BY <1>1, FS_CardinalityType
<1>3. (Cardinality(A) = 0 <=> A = {}) /\ (Cardinality(C) = 0 <=> C = {})
  BY <1>1, FS_EmptySet
<1>4. A = {} <=> ~Held(m, b)
  BY DEF Held
<1>5. C = {} <=> ~Cached(m, b)
  BY DEF Cached
<1>6. Refs(m, b) = Cardinality(A) + Cardinality(C)
  BY DEF Refs
<1>7. b \in Free(m) <=> b \in Blocks /\ Refs(m, b) = 0
  BY DEF Free, Blocks
<1> HIDE DEF A, C
<1>8. Refs(m, b) = 0 <=> Cardinality(A) = 0 /\ Cardinality(C) = 0
  BY <1>2, <1>6
<1> QED
  BY <1>3, <1>4, <1>5, <1>7, <1>8

(* A block of r's table is shared when another table or an entry has it. *)
LEMMA SharedIff ==
  ASSUME NEW m, Shaped(m), NEW r \in Requests, NEW b, b \in Range(m.table[r])
  PROVE  Refs(m, b) > 1 <=> (\E q \in Requests \ {r} : b \in Range(m.table[q])) \/ Cached(m, b)
<1> DEFINE A == {q \in Requests : b \in Range(m.table[q])}
           C == {k \in DOMAIN m.cache : b \in Range(m.cache[k].blocks)}
<1>1. IsFiniteSet(A) /\ IsFiniteSet(C)
  BY HoldersFinite
<1>2. Cardinality(A) \in Nat /\ Cardinality(C) \in Nat
  BY <1>1, FS_CardinalityType
<1>3. (Cardinality(A) = 1 <=> \E x : A = {x}) /\ (Cardinality(C) = 0 <=> C = {})
  BY <1>1, FS_EmptySet, FS_Singleton
<1>4. r \in A
  OBVIOUS
<1>5. Cardinality(A) # 0
  BY <1>1, <1>4, FS_EmptySet
<1>6. A = {r} <=> ~\E q \in Requests \ {r} : b \in Range(m.table[q])
  BY <1>4
<1>7. C = {} <=> ~Cached(m, b)
  BY DEF Cached
<1>8. Refs(m, b) = Cardinality(A) + Cardinality(C)
  BY DEF Refs
<1>9. Cardinality(A) = 1 <=> A = {r}
  BY <1>3, <1>4
<1> HIDE DEF A, C
<1>10. Refs(m, b) > 1 <=> Cardinality(A) # 1 \/ Cardinality(C) # 0
  BY <1>2, <1>5, <1>8
<1> QED
  BY <1>3, <1>6, <1>7, <1>9, <1>10

LEMMA FreeCounts ==
  ASSUME Built, NEW m
  PROVE  /\ Free(m) \subseteq Blocks /\ IsFiniteSet(Free(m)) /\ Cardinality(Free(m)) \in Nat
         /\ IsFiniteSet(Blocks) /\ Cardinality(Blocks) = conf.pool
<1>1. conf.pool \in Nat \ {0}
  BY ConfTypes
<1>2. IsFiniteSet(Blocks) /\ Cardinality(Blocks) = conf.pool
  BY <1>1, FS_Interval DEF Blocks
<1>3. Free(m) \subseteq Blocks
  BY DEF Free, Blocks
<1> QED
  BY <1>2, <1>3, FS_Subset, FS_CardinalityType

(* Nothing is taken when tables and cache only give blocks back. *)
LEMMA FreeGrows ==
  ASSUME Built, NEW m, Shaped(m), NEW a, Shaped(a),
         \A r \in Requests : Range(a.table[r]) \subseteq Range(m.table[r]),
         \A b : Cached(a, b) => Cached(m, b)
  PROVE  Free(m) \subseteq Free(a) /\ Cardinality(Free(m)) <= Cardinality(Free(a))
<1>1. \A b : Held(a, b) => Held(m, b)
  BY DEF Held
<1>2. Free(m) \subseteq Free(a)
  BY <1>1, FreeIff
<1> QED
  BY <1>2, FreeCounts, FS_Subset

-----------------------------------------------------------------------------
(* What an append needs, and what the pool supplies *)

LEMMA Shapes ==
  ASSUME Built, NEW m, Shaped(m)
  PROVE  /\ \A r \in Requests : m.table[r] \in Seq(Blocks) /\ m.length[r] \in Nat
         /\ m.cache \in Seq(Entries) /\ Len(m.cache) \in Nat
         /\ m.table \in [Requests -> Seq(Blocks)] /\ m.length \in [Requests -> Nat]
         /\ \A r \in Requests : DOMAIN m.table[r] = 1..Len(m.table[r]) /\ Len(m.table[r]) \in Nat
         /\ \A r \in Requests : m.length[r] \div conf.block \in Nat
<1>1. m.table \in [Requests -> Seq(Blocks)] /\ m.length \in [Requests -> Nat] /\ m.cache \in Seq(Entries)
  BY DEF Shaped
<1>2. \A r \in Requests : m.length[r] \div conf.block \in Nat
  BY <1>1, WholeBlocks
<1>3. \A r \in Requests : m.table[r] \in Seq(Blocks)
  BY <1>1
<1>4. \A r \in Requests : DOMAIN m.table[r] = 1..Len(m.table[r]) /\ Len(m.table[r]) \in Nat
  BY <1>3
<1> QED
  BY <1>1, <1>2, <1>3, <1>4

(* The only block an append touches is the last one, when it is partial,   *)
(* so what is copied does not depend on how much is appended.              *)
LEMMA CopiedIs ==
  ASSUME Built, NEW m, Shaped(m), NEW r \in Requests, ExactIn(m, r), NEW n \in Nat
  PROVE  /\ Copied(m, r, n) = {i \in DOMAIN m.table[r] : ~Whole(m, r, i) /\ Refs(m, m.table[r][i]) > 1}
         /\ \A i \in DOMAIN m.table[r] : ~Whole(m, r, i) =>
              i = Len(m.table[r]) /\ m.length[r] % conf.block # 0
         /\ Copied(m, r, n) = {} \/ Copied(m, r, n) = {Len(m.table[r])}
         /\ IsFiniteSet(Copied(m, r, n)) /\ Cardinality(Copied(m, r, n)) \in {0, 1}
<1> DEFINE L == m.length[r]
           B == conf.block
           t == m.table[r]
<1>1. L \in Nat /\ B \in Nat \ {0} /\ t \in Seq(Blocks) /\ DOMAIN t = 1..Len(t) /\ Len(t) \in Nat
  BY Shapes, ConfTypes
<1>2. /\ L \div B \in Nat
      /\ L % B = 0 => Positions(L) = L \div B
      /\ L % B # 0 => Positions(L) = L \div B + 1
  BY <1>1, WholeBlocks
<1>3. Positions(L) <= Positions(L + n) /\ Positions(L) \in Nat /\ Positions(L + n) \in Nat
  <2>1. L + n \in Nat /\ L <= L + n
    BY <1>1
  <2> HIDE DEF L
  <2> QED
    BY <1>1, <2>1, PositionsMono
<1>4. Len(t) = Positions(L)
  BY DEF ExactIn
<1>5. \A i : i \in (L \div B + 1)..Positions(L + n) /\ i <= Len(t) <=> i \in DOMAIN t /\ ~Whole(m, r, i)
  BY <1>1, <1>2, <1>3, <1>4 DEF Whole
<1>6. Touched(m, r, n) = {i \in DOMAIN t : ~Whole(m, r, i)}
  BY <1>5 DEF Touched
<1>7. Copied(m, r, n) = {i \in DOMAIN t : ~Whole(m, r, i) /\ Refs(m, t[i]) > 1}
  BY <1>6 DEF Copied
<1>8. \A i \in DOMAIN t : ~Whole(m, r, i) => i = Len(t) /\ L % B # 0
  BY <1>1, <1>2, <1>4 DEF Whole
<1>9. Copied(m, r, n) = {} \/ Copied(m, r, n) = {Len(t)}
  BY <1>7, <1>8
<1>10. IsFiniteSet(Copied(m, r, n)) /\ Cardinality(Copied(m, r, n)) \in {0, 1}
  BY <1>9, FS_EmptySet, FS_Singleton
<1> QED
  BY <1>7, <1>8, <1>9, <1>10

LEMMA GrowthIs ==
  ASSUME Built, NEW m, Shaped(m), NEW r \in Requests, ExactIn(m, r), NEW n \in Nat
  PROVE  /\ Growth(m, r, n) = Positions(m.length[r] + n) - Len(m.table[r])
         /\ Growth(m, r, n) \in Nat
         /\ BlocksToGrow(m, r, n) \in Nat
<1> DEFINE x == Positions(m.length[r] + n) - Len(m.table[r])
<1>1. m.length[r] \in Nat /\ m.length[r] + n \in Nat /\ m.length[r] <= m.length[r] + n
  BY Shapes
<1>2. x \in Nat
  <2>1. Positions(m.length[r]) <= Positions(m.length[r] + n)
    BY <1>1, PositionsMono
  <2>2. Positions(m.length[r]) \in Nat /\ Positions(m.length[r] + n) \in Nat
    BY <1>1, PositionsMono
  <2> QED
    BY <2>1, <2>2 DEF ExactIn
<1> HIDE DEF x
<1>3. {0, x} \in SUBSET Nat /\ {0, x} # {}
  BY <1>2
<1>4. IsFiniteSet({0, x})
  <2>1. {0, x} = {0} \cup {x}
    OBVIOUS
  <2>2. IsFiniteSet({0})
    BY FS_Singleton
  <2>3. IsFiniteSet({0} \cup {x})
    BY <2>2, FS_AddElement
  <2> QED
    BY <2>1, <2>3
<1>5. Max({0, x}) \in {0, x} /\ \A k \in {0, x} : k <= Max({0, x})
  BY <1>3, <1>4, MaxOfFinite
<1>6. Max({0, x}) = x
  BY <1>2, <1>5
<1>7. Growth(m, r, n) = x
  BY <1>6 DEF Growth, x
<1>8. Cardinality(Copied(m, r, n)) \in {0, 1}
  BY CopiedIs
<1> QED
  BY <1>2, <1>7, <1>8 DEF BlocksToGrow, x

LEMMA Forgotten ==
  ASSUME Built, NEW m, Shaped(m), NEW k \in 0..Len(m.cache)
  PROVE  /\ Shaped(Forget(m, k)) /\ Forget(m, k).ok = m.ok
         /\ Forget(m, k).table = m.table /\ Forget(m, k).length = m.length
         /\ Forget(m, k).cache = SubSeq(m.cache, k + 1, Len(m.cache))
         /\ \A b : Cached(Forget(m, k), b) => Cached(m, b)
         /\ k = Len(m.cache) => Forget(m, k).cache = <<>>
         /\ m.cache = <<>> => Forget(m, k).cache = <<>>
         /\ Free(m) \subseteq Free(Forget(m, k))
         /\ Cardinality(Free(m)) <= Cardinality(Free(Forget(m, k)))
<1> DEFINE f == Forget(m, k)
           c == SubSeq(m.cache, k + 1, Len(m.cache))
<1>1. m.cache \in Seq(Entries) /\ Len(m.cache) \in Nat
  BY Shapes
<1>2. /\ c \in Seq(Entries) /\ Len(c) = Len(m.cache) - k /\ DOMAIN c = 1..Len(c)
      /\ \A j \in 1..Len(c) : c[j] = m.cache[k + j] /\ k + j \in DOMAIN m.cache
  BY <1>1
<1>3. /\ f.table = m.table /\ f.length = m.length /\ f.ok = m.ok /\ f.cache = c /\ Shaped(f)
  BY <1>2 DEF Forget, Shaped
<1>4. ASSUME NEW b, Cached(f, b) PROVE Cached(m, b)
  BY <1>2, <1>3, <1>4 DEF Cached
<1>5. k = Len(m.cache) \/ m.cache = <<>> => c = <<>>
  BY <1>1, <1>2
<1>6. \A r \in Requests : Range(f.table[r]) \subseteq Range(m.table[r])
  BY <1>3
<1>7. Free(m) \subseteq Free(f) /\ Cardinality(Free(m)) <= Cardinality(Free(f))
  <2> HIDE DEF f
  <2> QED
    BY <1>3, <1>4, <1>6, FreeGrows
<1> QED
  BY <1>3, <1>4, <1>5, <1>7

(* Entries go until there is enough, and only if even all of them do not   *)
(* make enough does the allocation fail.                                   *)
LEMMA Supplied ==
  ASSUME Built, NEW m, Shaped(m), NEW need \in Nat,
         need <= Cardinality(Free(Forget(m, Len(m.cache))))
  PROVE  \E k \in 0..Len(m.cache) :
           Supply(m, need) = Forget(m, k) /\ need <= Cardinality(Free(Forget(m, k)))
<1> DEFINE enough == {n \in 0..Len(m.cache) : Cardinality(Free(Forget(m, n))) >= need}
<1>1. Len(m.cache) \in Nat
  BY Shapes
<1>2. Len(m.cache) \in enough
  <2>1. Cardinality(Free(Forget(m, Len(m.cache)))) \in Nat
    BY FreeCounts
  <2> QED
    BY <1>1, <2>1
<1>3. enough \in SUBSET Nat /\ enough # {}
  BY <1>1, <1>2
<1>4. Min(enough) \in enough
  BY <1>3, MinExists
<1>5. Supply(m, need) = Forget(m, Min(enough))
  BY <1>3 DEF Supply
<1>6. Cardinality(Free(Forget(m, Min(enough)))) \in Nat
  BY FreeCounts
<1> QED
  BY <1>4, <1>5, <1>6

LEMMA ForgottenSound ==
  ASSUME Built, NEW m, Sound(m), NEW k \in 0..Len(m.cache)
  PROVE  Sound(Forget(m, k))
<1> DEFINE f == Forget(m, k)
<1>1. /\ Shaped(f) /\ f.ok = TRUE /\ f.table = m.table /\ f.length = m.length
      /\ \A b : Cached(f, b) => Cached(m, b)
      /\ m.cache = <<>> => f.cache = <<>>
  BY Forgotten DEF Sound
<1> HIDE DEF f
<1>2. Level(f) /\ CachedWhole(f)
  BY <1>1 DEF Sound, Level, CachedWhole, Whole
<1> QED
  BY <1>1, <1>2 DEF Sound, f

(* The partial block is never cached, so it is copied when another table   *)
(* has it, and forgetting cache entries spares no copy.                    *)
LEMMA CopiedShared ==
  ASSUME Built, NEW m, Sound(m), NEW r \in Requests, ExactIn(m, r), NEW n \in Nat
  PROVE  Copied(m, r, n) = {i \in DOMAIN m.table[r] : ~Whole(m, r, i) /\
                              \E q \in Requests \ {r} : m.table[r][i] \in Range(m.table[q])}
<1>1. Shaped(m) /\ CachedWhole(m)
  BY DEF Sound
<1>2. Copied(m, r, n) = {i \in DOMAIN m.table[r] : ~Whole(m, r, i) /\ Refs(m, m.table[r][i]) > 1}
  BY <1>1, CopiedIs
<1>3. ASSUME NEW i \in DOMAIN m.table[r], ~Whole(m, r, i)
      PROVE  Refs(m, m.table[r][i]) > 1 <=> \E q \in Requests \ {r} : m.table[r][i] \in Range(m.table[q])
  <2>1. m.table[r][i] \in Range(m.table[r])
    BY DEF Range
  <2>2. ~Cached(m, m.table[r][i])
    BY <1>1, <1>3 DEF CachedWhole
  <2> QED
    BY <1>1, <2>1, <2>2, SharedIff
<1> QED
  BY <1>2, <1>3

LEMMA CopiedAlike ==
  ASSUME Built, NEW m, Sound(m), NEW r \in Requests, ExactIn(m, r), NEW n \in Nat,
         NEW k \in 0..Len(m.cache)
  PROVE  /\ Copied(Forget(m, k), r, n) = Copied(m, r, n)
         /\ Growth(Forget(m, k), r, n) = Growth(m, r, n)
<1> DEFINE f == Forget(m, k)
<1>1. Sound(f) /\ f.table = m.table /\ f.length = m.length
  BY ForgottenSound, Forgotten DEF Sound
<1> HIDE DEF f
<1>2. ExactIn(f, r) /\ \A i : Whole(f, r, i) <=> Whole(m, r, i)
  BY <1>1 DEF ExactIn, Whole
<1>3. Copied(f, r, n) = Copied(m, r, n)
  <2>1. Copied(f, r, n) = {i \in DOMAIN f.table[r] : ~Whole(f, r, i) /\
                              \E q \in Requests \ {r} : f.table[r][i] \in Range(f.table[q])}
    BY <1>1, <1>2, CopiedShared
  <2>2. Copied(m, r, n) = {i \in DOMAIN m.table[r] : ~Whole(m, r, i) /\
                              \E q \in Requests \ {r} : m.table[r][i] \in Range(m.table[q])}
    BY CopiedShared
  <2> QED
    BY <1>1, <1>2, <2>1, <2>2
<1>4. Growth(f, r, n) = Growth(m, r, n)
  BY <1>1 DEF Growth
<1> QED
  BY <1>3, <1>4 DEF f

(* When every table keeps within its share and the shares within the pool, *)
(* an append within its own share finds its blocks, the copy of a shared   *)
(* one included, once the cache has given back what it over-holds: a block *)
(* that is copied is counted in the share of another table.                *)
LEMMA RoomForShare ==
  ASSUME Built, NEW m, Sound(m), Exact(m), NEW share,
         \A q \in Requests : share[q] \in Nat /\ Len(m.table[q]) <= share[q],
         SumOver(share, Requests) <= conf.pool,
         NEW r \in Requests, NEW n \in Nat, Positions(m.length[r] + n) <= share[r]
  PROVE  BlocksToGrow(m, r, n) <= Cardinality(Free(Forget(m, Len(m.cache))))
<1> DEFINE need == BlocksToGrow(m, r, n)
           c == Forget(m, Len(m.cache))
           x == Copied(m, r, n)
           t == m.table[r]
           own == {t[i] : i \in DOMAIN t \ x}
           T == [q \in Requests |-> IF q = r THEN own ELSE Range(m.table[q])]
           f == [q \in Requests |-> IF q = r THEN share[q] - need ELSE share[q]]
           U == UNION {T[q] : q \in Requests}
<1>1. Shaped(m) /\ ExactIn(m, r) /\ IsFiniteSet(Requests) /\ conf.pool \in Nat
  BY EngineAssumption, ConfTypes DEF Sound, Exact
<1>2. t \in Seq(Blocks) /\ DOMAIN t = 1..Len(t) /\ Len(t) \in Nat /\ m.length[r] + n \in Nat
  BY <1>1, Shapes
<1>3. IsFiniteSet(own) /\ Cardinality(own) <= Len(t) - Cardinality(x)
  <2>1. CASE x = {}
    <3>1. own = Range(t) /\ Cardinality(x) = 0
      BY <2>1, FS_EmptySet DEF Range
    <3>2. IsFiniteSet(Range(t)) /\ Cardinality(Range(t)) \in Nat /\ Cardinality(Range(t)) <= Len(t)
      <4> HIDE DEF t
      <4> QED
        BY <1>2, RangeBounds
    <3> HIDE DEF t, own, x
    <3> QED
      BY <1>2, <3>1, <3>2
  <2>2. CASE x = {Len(t)}
    <3> DEFINE front == SubSeq(t, 1, Len(t) - 1)
    <3>1. Len(t) \in DOMAIN t
      <4>1. x = {i \in DOMAIN t : ~Whole(m, r, i) /\ Refs(m, t[i]) > 1}
        BY <1>1, CopiedIs
      <4> QED
        BY <2>2, <4>1
    <3>2. front \in Seq(Blocks) /\ Len(front) = Len(t) - 1 /\ \A i \in 1..(Len(t) - 1) : front[i] = t[i]
      BY <1>2, <3>1
    <3>3. own = Range(front)
      BY <1>2, <2>2, <3>2 DEF Range
    <3>4. Cardinality(x) = 1
      BY <2>2, FS_Singleton
    <3>5. IsFiniteSet(Range(front)) /\ Cardinality(Range(front)) \in Nat
          /\ Cardinality(Range(front)) <= Len(front)
      <4> HIDE DEF front
      <4> QED
        BY <3>2, RangeBounds
    <3> HIDE DEF own, front, x
    <3> QED
      BY <3>2, <3>3, <3>4, <3>5
  <2> QED
    BY <1>1, <2>1, <2>2, CopiedIs
<1>4. need = Positions(m.length[r] + n) - Len(t) + Cardinality(x) /\ need \in Nat
  BY <1>1, GrowthIs DEF BlocksToGrow
<1>5. Cardinality(x) \in Nat /\ Positions(m.length[r] + n) \in Nat /\ Cardinality(own) \in Nat
  <2>1. Cardinality(x) \in {0, 1}
    BY <1>1, CopiedIs
  <2>2. Positions(m.length[r] + n) \in Nat
    BY <1>2, PositionsMono
  <2> QED
    BY <1>3, <2>1, <2>2, FS_CardinalityType
<1>6. Cardinality(own) <= share[r] - need /\ share[r] - need \in Nat
  <2> DEFINE p == Positions(m.length[r] + n)
             k == Cardinality(x)
             l == Len(t)
             w == Cardinality(own)
             h == share[r]
  <2>1. h \in Nat /\ p <= h
    OBVIOUS
  <2>2. w <= l - k /\ need = p - l + k /\ k \in Nat /\ p \in Nat /\ w \in Nat /\ l \in Nat
    BY <1>2, <1>3, <1>4, <1>5
  <2> HIDE DEF need, p, k, l, w, h
  <2>3. w <= h - need /\ h - need \in Nat
    BY <2>1, <2>2
  <2> QED
    BY <2>3 DEF w, h
<1>7. \A q \in Requests : f[q] \in Nat
  BY <1>6
<1>8. \A q \in Requests : IsFiniteSet(T[q]) /\ Cardinality(T[q]) <= f[q]
  <2> SUFFICES ASSUME NEW q \in Requests PROVE IsFiniteSet(T[q]) /\ Cardinality(T[q]) <= f[q]
    OBVIOUS
  <2>1. CASE q = r
    BY <1>3, <1>6, <2>1
  <2>2. CASE q # r
    <3>1. m.table[q] \in Seq(Blocks) /\ Len(m.table[q]) \in Nat
      BY <1>1, Shapes
    <3>2. IsFiniteSet(Range(m.table[q])) /\ Cardinality(Range(m.table[q])) <= Len(m.table[q])
          /\ Cardinality(Range(m.table[q])) \in Nat
      BY <3>1, RangeBounds
    <3>3. Len(m.table[q]) <= share[q] /\ share[q] \in Nat
      OBVIOUS
    <3>4. Cardinality(Range(m.table[q])) <= share[q]
      BY <3>1, <3>2, <3>3
    <3> QED
      BY <2>2, <3>2, <3>4
  <2> QED
    BY <2>1, <2>2
<1>9. IsFiniteSet(U) /\ Cardinality(U) <= SumOver(f, Requests)
  <2> HIDE DEF T, f
  <2> QED
    BY <1>1, <1>7, <1>8, UnionBounds
<1>10. SumOver(f, Requests) = SumOver(share, Requests) - share[r] + f[r]
  <2>1. \A q \in Requests \ {r} : f[q] = share[q]
    OBVIOUS
  <2>2. f[r] \in Nat /\ \A q \in Requests : share[q] \in Nat
    BY <1>7
  <2> HIDE DEF f
  <2> QED
    BY <1>1, <2>1, <2>2, SumMoves
<1>11. f[r] = share[r] - need
  OBVIOUS
<1>12. \A b : Held(m, b) => b \in U
  <2> SUFFICES ASSUME NEW q \in Requests, NEW b \in Range(m.table[q]) PROVE b \in U
    BY DEF Held
  <2>1. CASE q # r
    BY <2>1
  <2>2. CASE q = r
    <3>1. PICK i \in DOMAIN t : b = t[i]
      BY <2>2 DEF Range
    <3>2. CASE i \notin x
      BY <3>1, <3>2
    <3>3. CASE i \in x
      <4>1. \E p \in Requests \ {r} : t[i] \in Range(m.table[p])
        BY <1>1, <3>3, CopiedShared
      <4> QED
        BY <3>1, <4>1
    <3> QED
      BY <3>2, <3>3
  <2> QED
    BY <2>1, <2>2
<1>13. Shaped(c) /\ c.table = m.table /\ c.cache = <<>>
  <2>1. Len(m.cache) \in 0..Len(m.cache)
    BY <1>1, Shapes
  <2> QED
    BY <1>1, <2>1, Forgotten
<1> HIDE DEF U, c, f
<1>14. Blocks \ U \subseteq Free(c)
  <2>1. \A b : ~Cached(c, b)
    BY <1>13 DEF Cached
  <2>2. \A b : Held(c, b) => b \in U
    BY <1>12, <1>13 DEF Held
  <2> QED
    BY <1>13, <2>1, <2>2, FreeIff
<1>15. /\ IsFiniteSet(Blocks) /\ Cardinality(Blocks) = conf.pool
       /\ IsFiniteSet(Free(c)) /\ Cardinality(Free(c)) \in Nat
  BY FreeCounts
<1>16. Cardinality(Blocks \ U) <= Cardinality(Free(c))
  BY <1>14, <1>15, FS_Subset
<1>17. Cardinality(Blocks \ U) = conf.pool - Cardinality(Blocks \cap U)
  BY <1>15, FS_Difference
<1>18. Cardinality(Blocks \cap U) <= Cardinality(U) /\ IsFiniteSet(Blocks \cap U)
  BY <1>9, FS_Intersection
<1>19. Cardinality(Blocks \cap U) \in Nat /\ Cardinality(U) \in Nat
  BY <1>9, <1>18, FS_CardinalityType
<1>20. SumOver(share, Requests) \in Nat /\ share[r] \in Nat
  BY <1>1, SumSplits
<1> HIDE DEF need
<1> QED
  BY <1>1, <1>4, <1>9, <1>10, <1>11, <1>15, <1>16, <1>17, <1>18, <1>19, <1>20 DEF need, c

-----------------------------------------------------------------------------
(* What an append leaves *)

LEMMA Listed ==
  ASSUME NEW S, IsFiniteSet(S)
  PROVE  SetToSeq(S) \in [1..Cardinality(S) -> S] /\ IsInjective(SetToSeq(S))
<1>1. ExistsBijection(1..Cardinality(S), S)
  BY FS_CardinalityType
<1>2. \E f \in [1..Cardinality(S) -> S] : IsInjective(f)
  BY <1>1 DEF ExistsBijection, Bijection, Injection, IsInjective
<1> QED
  BY <1>2 DEF SetToSeq

(* The append, with the blocks it takes named: the first ones extend the   *)
(* table, the one after them replaces a shared partial block.              *)
Extended(s, r, n, g, x, new) ==
  [s EXCEPT !.length[r] = @ + n,
            !.table[r] = [i \in 1..(Len(@) + g) |->
               IF i > Len(@) THEN new[i - Len(@)] ELSE IF i \in x THEN new[g + 1] ELSE @[i]]]

LEMMA AppendedIs ==
  ASSUME Built, NEW m, Sound(m), NEW r \in Requests, ExactIn(m, r), NEW n \in Nat,
         BlocksToGrow(m, r, n) <= Cardinality(Free(Forget(m, Len(m.cache))))
  PROVE  \E k \in 0..Len(m.cache) : \E new \in [1..BlocksToGrow(m, r, n) -> Free(Forget(m, k))] :
           /\ IsInjective(new)
           /\ Appended(m, r, n) = Extended(Forget(m, k), r, n, Growth(m, r, n), Copied(m, r, n), new)
<1> DEFINE need == BlocksToGrow(m, r, n)
           g == Growth(m, r, n)
           x == Copied(m, r, n)
<1>1. Shaped(m) /\ m.ok = TRUE
  BY DEF Sound
<1>2. g \in Nat /\ need \in Nat /\ need = g + Cardinality(x) /\ Cardinality(x) \in {0, 1}
  <2>1. g \in Nat /\ need \in Nat
    BY <1>1, GrowthIs
  <2>2. Cardinality(x) \in {0, 1}
    BY <1>1, CopiedIs
  <2> QED
    BY <2>1, <2>2 DEF BlocksToGrow
<1>3. PICK k \in 0..Len(m.cache) :
        Supply(m, need) = Forget(m, k) /\ need <= Cardinality(Free(Forget(m, k)))
  <2> HIDE DEF need
  <2> QED
    BY <1>1, <1>2, Supplied DEF need
<1> DEFINE s == Forget(m, k)
           fresh == SetToSeq(Free(s))
           new == [j \in 1..need |-> fresh[j]]
           t == m.table[r]
<1>4. s.ok = TRUE /\ s.table = m.table /\ s.length = m.length
  BY <1>1, Forgotten
<1>5. Copied(s, r, n) = x
  BY CopiedAlike
<1>6. IsFiniteSet(Free(s)) /\ Cardinality(Free(s)) \in Nat
  BY FreeCounts
<1>7. fresh \in [1..Cardinality(Free(s)) -> Free(s)] /\ IsInjective(fresh)
  BY <1>6, Listed
<1>8. new \in [1..need -> Free(s)] /\ IsInjective(new)
  <2>1. \A j \in 1..need : j \in 1..Cardinality(Free(s))
    BY <1>2, <1>3, <1>6
  <2> HIDE DEF s, fresh, need
  <2> QED
    BY <1>7, <2>1 DEF IsInjective
<1>9. x = {} \/ x = {Len(t)}
  BY <1>1, CopiedIs
<1>10. ~(x # {} /\ m.length[r] % conf.block = 0)
  <2>1. \A i \in x : i \in DOMAIN t /\ ~Whole(m, r, i)
    BY <1>1, CopiedIs
  <2>2. \A i \in DOMAIN t : ~Whole(m, r, i) => m.length[r] % conf.block # 0
    BY <1>1, CopiedIs
  <2> QED
    BY <2>1, <2>2
<1> DEFINE tbl(l, u) == [i \in 1..(l + g) |->
                          IF i > l THEN fresh[i - l]
                          ELSE IF i \in x THEN fresh[g + Cardinality({j \in x : j <= i})] ELSE u[i]]
           tbn(l, u) == [i \in 1..(l + g) |->
                          IF i > l THEN new[i - l] ELSE IF i \in x THEN new[g + 1] ELSE u[i]]
<1>11. Appended(m, r, n) = [s EXCEPT !.length[r] = @ + n, !.table[r] = tbl(Len(@), @)]
  <2>1. Supply(m, Growth(m, r, n) + Cardinality(Copied(m, r, n))) = s
    BY <1>3 DEF BlocksToGrow
  <2> HIDE DEF s
  <2> QED
    BY <1>1, <1>4, <1>5, <1>10, <2>1 DEF Appended
<1>12. Len(t) \in Nat
  BY <1>1, Shapes
<1>13. tbl(Len(t), t) = tbn(Len(t), t)
  <2> SUFFICES ASSUME NEW i \in 1..(Len(t) + g)
               PROVE  /\ i > Len(t) => fresh[i - Len(t)] = new[i - Len(t)]
                      /\ i \in x => fresh[g + Cardinality({j \in x : j <= i})] = new[g + 1]
    OBVIOUS
  <2>1. i > Len(t) => i - Len(t) \in 1..need
    BY <1>2, <1>12
  <2>2. ASSUME i \in x PROVE g + Cardinality({j \in x : j <= i}) = g + 1 /\ g + 1 \in 1..need
    <3>1. x = {Len(t)} /\ i = Len(t)
      BY <1>9, <2>2
    <3>2. {j \in x : j <= i} = {Len(t)}
      BY <1>12, <3>1
    <3>3. Cardinality({Len(t)}) = 1
      BY FS_Singleton
    <3>4. Cardinality({j \in x : j <= i}) = 1 /\ Cardinality(x) = 1
      BY <3>1, <3>2, <3>3
    <3> HIDE DEF x, g, need
    <3> QED
      BY <1>2, <3>4
  <2> HIDE DEF fresh, x, g, need, t
  <2> QED
    BY <2>1, <2>2
<1>14. s.table[r] = t
  BY <1>4
<1>15. Extended(s, r, n, g, x, new) = [s EXCEPT !.length[r] = @ + n, !.table[r] = tbn(Len(@), @)]
  BY DEF Extended
<1>16. Appended(m, r, n) = Extended(s, r, n, g, x, new)
  <2> HIDE DEF s, tbl, tbn, new, g, x, t
  <2> QED
    BY <1>11, <1>13, <1>14, <1>15
<1> QED
  BY <1>8, <1>16

(* What an append of n positions to r's table leaves: the full blocks stay *)
(* as they are, the others are r's own, and nobody else is touched.        *)
Grown(m, a, r, n) ==
  /\ Shaped(a) /\ a.ok = TRUE
  /\ a.length = [m.length EXCEPT ![r] = @ + n]
  /\ \A q \in Requests \ {r} : a.table[q] = m.table[q]
  /\ ExactIn(a, r)
  /\ \A i \in DOMAIN a.table[r] : Whole(m, r, i) =>
       i \in DOMAIN m.table[r] /\ a.table[r][i] = m.table[r][i]
  /\ \A i \in DOMAIN a.table[r] : ~Whole(m, r, i) =>
       /\ ~Cached(a, a.table[r][i])
       /\ \A q \in Requests \ {r} : a.table[r][i] \notin Range(m.table[q])
       /\ \A j \in DOMAIN a.table[r] : j # i => a.table[r][j] # a.table[r][i]
  /\ \A b : Cached(a, b) => Cached(m, b)
  /\ m.cache = <<>> => a.cache = <<>>
  /\ Cardinality(Free(m)) <= Cardinality(Free(a)) + BlocksToGrow(m, r, n)

LEMMA AppendedGrows ==
  ASSUME Built, NEW m, Sound(m), NEW r \in Requests, ExactIn(m, r), NEW n \in Nat,
         BlocksToGrow(m, r, n) <= Cardinality(Free(Forget(m, Len(m.cache))))
  PROVE  Grown(m, Appended(m, r, n), r, n)
<1> DEFINE need == BlocksToGrow(m, r, n)
           g == Growth(m, r, n)
           x == Copied(m, r, n)
           t == m.table[r]
           L == Len(t)
<1>1. PICK k \in 0..Len(m.cache) : \E new \in [1..need -> Free(Forget(m, k))] :
           /\ IsInjective(new)
           /\ Appended(m, r, n) = Extended(Forget(m, k), r, n, g, x, new)
  BY AppendedIs
<1> DEFINE s == Forget(m, k)
<1>2. PICK new \in [1..need -> Free(s)] :
           IsInjective(new) /\ Appended(m, r, n) = Extended(s, r, n, g, x, new)
  BY <1>1
<1> DEFINE a == Extended(s, r, n, g, x, new)
           tbl == [i \in 1..(L + g) |-> IF i > L THEN new[i - L] ELSE IF i \in x THEN new[g + 1] ELSE t[i]]
<1>3. Shaped(m) /\ Level(m) /\ CachedWhole(m) /\ m.ok = TRUE
  BY DEF Sound
<1>4. /\ Shaped(s) /\ s.ok = TRUE /\ s.table = m.table /\ s.length = m.length
      /\ \A b : Cached(s, b) => Cached(m, b)
      /\ m.cache = <<>> => s.cache = <<>>
      /\ Cardinality(Free(m)) <= Cardinality(Free(s))
  BY <1>3, Forgotten
<1>5. t \in Seq(Blocks) /\ DOMAIN t = 1..L /\ L \in Nat /\ m.length[r] \in Nat
      /\ m.table \in [Requests -> Seq(Blocks)] /\ m.length \in [Requests -> Nat]
  BY <1>3, Shapes
<1>6. /\ g \in Nat /\ need \in Nat /\ need = g + Cardinality(x)
      /\ x = {} \/ x = {L}
      /\ x = {} => need = g
      /\ x = {L} => need = g + 1
  <2>1. g \in Nat /\ need \in Nat
    BY <1>3, GrowthIs
  <2>2. x = {} \/ x = {L}
    BY <1>3, CopiedIs
  <2>3. need = g + Cardinality(x)
    BY DEF BlocksToGrow
  <2>4. Cardinality({}) = 0 /\ Cardinality({L}) = 1
    BY FS_EmptySet, FS_Singleton
  <2> HIDE DEF need, g, x, L
  <2>5. ASSUME x = {} PROVE need = g
    <3>1. Cardinality(x) = 0
      BY <2>4, <2>5
    <3> QED
      BY <2>1, <2>3, <3>1
  <2>6. ASSUME x = {L} PROVE need = g + 1
    <3>1. Cardinality(x) = 1
      BY <2>4, <2>6
    <3> QED
      BY <2>1, <2>3, <3>1
  <2> QED
    BY <2>1, <2>2, <2>3, <2>5, <2>6
<1>7. /\ a.length = [m.length EXCEPT ![r] = @ + n]
      /\ a.table = [m.table EXCEPT ![r] = tbl]
      /\ a.cache = s.cache /\ a.ok = TRUE
      /\ a = [s EXCEPT !.length = [m.length EXCEPT ![r] = @ + n], !.table = [m.table EXCEPT ![r] = tbl]]
  <2> HIDE DEF s
  <2> QED
    BY <1>4 DEF Extended, Shaped
<1>8. x \subseteq {i \in DOMAIN t : ~Whole(m, r, i)} /\ \A i \in x : i = L
  BY <1>3, CopiedIs
<1>9. \A j \in 1..need : new[j] \in Blocks /\ ~Held(m, new[j]) /\ ~Cached(s, new[j])
  <2> SUFFICES ASSUME NEW j \in 1..need
               PROVE  new[j] \in Blocks /\ ~Held(m, new[j]) /\ ~Cached(s, new[j])
    OBVIOUS
  <2>1. new[j] \in Free(s)
    BY <1>2
  <2> HIDE DEF s
  <2> QED
    BY <1>4, <2>1, FreeIff DEF Held
<1>10. \A i \in 1..(L + g) : i > L => i - L \in 1..need
  BY <1>5, <1>6
<1>11. \A i \in x : g + 1 \in 1..need
  BY <1>5, <1>6
(* The table is made of blocks just taken and of blocks it had. *)
<1> DEFINE Taken(i) == i > L \/ i \in x
           at(i) == IF i > L THEN i - L ELSE g + 1
<1>12. \A i \in 1..(L + g) : Taken(i) => at(i) \in 1..need /\ tbl[i] = new[at(i)]
  <2> HIDE DEF need, g, x, L
  <2> QED
    BY <1>5, <1>6, <1>10, <1>11
<1>13. \A i \in 1..(L + g) : ~Taken(i) => i \in DOMAIN t /\ tbl[i] = t[i]
  BY <1>5, <1>6
<1>14. \A i, j \in 1..(L + g) : Taken(i) /\ Taken(j) /\ i # j => at(i) # at(j)
  <2> HIDE DEF need, g, L
  <2> QED
    BY <1>5, <1>6, <1>8
<1>15. tbl \in Seq(Blocks) /\ Len(tbl) = L + g /\ DOMAIN tbl = 1..(L + g)
  <2>1. \A i \in 1..(L + g) : tbl[i] \in Blocks
    <3> SUFFICES ASSUME NEW i \in 1..(L + g) PROVE tbl[i] \in Blocks
      OBVIOUS
    <3>1. CASE Taken(i)
      <4> HIDE DEF Taken, at, tbl, need
      <4> QED
        BY <1>9, <1>12, <3>1
    <3>2. CASE ~Taken(i)
      <4>1. i \in DOMAIN t /\ tbl[i] = t[i]
        BY <1>13, <3>2
      <4> HIDE DEF tbl, t
      <4> QED
        BY <1>5, <4>1
    <3> QED
      BY <3>1, <3>2
  <2>2. L + g \in Nat
    BY <1>5, <1>6
  <2>3. tbl = [i \in 1..(L + g) |-> tbl[i]]
    OBVIOUS
  <2> HIDE DEF tbl, L, g
  <2> QED
    BY <2>1, <2>2, <2>3
<1> HIDE DEF tbl
<1>16. Shaped(a)
  <2>1. [m.table EXCEPT ![r] = tbl] \in [Requests -> Seq(Blocks)]
    BY <1>5, <1>15
  <2>2. [m.length EXCEPT ![r] = @ + n] \in [Requests -> Nat]
    BY <1>5
  <2> HIDE DEF a, s
  <2> QED
    BY <1>4, <1>7, <2>1, <2>2 DEF Shaped
<1>17. a.table[r] = tbl /\ \A q \in Requests \ {r} : a.table[q] = m.table[q]
  <2> HIDE DEF a
  <2> QED
    BY <1>5, <1>7
<1>18. ExactIn(a, r)
  <2>1. a.length[r] = m.length[r] + n
    <3> HIDE DEF a
    <3> QED
      BY <1>5, <1>7
  <2>2. g = Positions(m.length[r] + n) - L
    BY <1>3, GrowthIs
  <2>3. Positions(m.length[r] + n) \in Nat
    <3>1. m.length[r] + n \in Nat
      BY <1>5
    <3> QED
      BY <3>1, PositionsMono
  <2> HIDE DEF a, g, L
  <2>4. Len(tbl) = Positions(m.length[r] + n)
    BY <1>5, <1>6, <1>15, <2>2, <2>3
  <2> QED
    BY <1>17, <2>1, <2>4 DEF ExactIn
<1>19. \A b : Cached(a, b) <=> Cached(s, b)
  <2> HIDE DEF a, s
  <2> QED
    BY <1>7 DEF Cached
<1>20. ASSUME NEW i \in DOMAIN a.table[r], Whole(m, r, i)
       PROVE  i \in DOMAIN m.table[r] /\ a.table[r][i] = m.table[r][i]
  <2>1. i \in 1..(L + g)
    BY <1>15, <1>17, <1>20
  <2>2. m.length[r] \div conf.block <= L
    <3>1. /\ m.length[r] \div conf.block \in Nat
          /\ m.length[r] % conf.block = 0 => Positions(m.length[r]) = m.length[r] \div conf.block
          /\ m.length[r] % conf.block # 0 => Positions(m.length[r]) = m.length[r] \div conf.block + 1
      BY <1>5, WholeBlocks
    <3> QED
      BY <1>5, <3>1 DEF ExactIn
  <2>3. m.length[r] \div conf.block \in Nat
    BY <1>5, WholeBlocks
  <2>4. ~(i > L)
    BY <1>5, <1>6, <1>20, <2>1, <2>2, <2>3 DEF Whole
  <2>5. i \notin x
    BY <1>8, <1>20
  <2>6. ~Taken(i)
    BY <2>4, <2>5
  <2> HIDE DEF Taken, L
  <2> QED
    BY <1>13, <1>17, <2>1, <2>6
<1>21. ASSUME NEW i \in DOMAIN a.table[r], ~Whole(m, r, i)
       PROVE  /\ ~Cached(a, a.table[r][i])
              /\ \A q \in Requests \ {r} : a.table[r][i] \notin Range(m.table[q])
              /\ \A j \in DOMAIN a.table[r] : j # i => a.table[r][j] # a.table[r][i]
  <2>1. i \in 1..(L + g) /\ a.table[r][i] = tbl[i]
    BY <1>15, <1>17, <1>21
  <2>2. \A j \in DOMAIN a.table[r] : j \in 1..(L + g) /\ a.table[r][j] = tbl[j]
    BY <1>15, <1>17
  <2>3. CASE Taken(i)
    <3>1. at(i) \in 1..need /\ tbl[i] = new[at(i)]
      BY <1>12, <2>1, <2>3
    <3>2. ~Held(m, tbl[i]) /\ ~Cached(s, tbl[i])
      <4> HIDE DEF at, need, s
      <4> QED
        BY <1>9, <3>1
    <3>3. \A q \in Requests : tbl[i] \notin Range(m.table[q])
      BY <3>2 DEF Held
    <3>4. ASSUME NEW j \in 1..(L + g), j # i PROVE tbl[j] # tbl[i]
      <4>1. CASE Taken(j)
        <5>1. at(j) \in 1..need /\ tbl[j] = new[at(j)] /\ at(i) # at(j)
          BY <1>12, <1>14, <2>1, <2>3, <3>4, <4>1
        <5> HIDE DEF at, need, Taken, s
        <5> QED
          BY <1>2, <3>1, <5>1 DEF IsInjective
      <4>2. CASE ~Taken(j)
        <5>1. tbl[j] \in Range(t)
          BY <1>13, <3>4, <4>2 DEF Range
        <5> QED
          BY <3>3, <5>1
      <4> QED
        BY <4>1, <4>2
    <3> HIDE DEF a, s, need, g, L
    <3> QED
      BY <1>19, <2>1, <2>2, <3>2, <3>3, <3>4
  <2>4. CASE ~Taken(i)
    <3>1. i \in DOMAIN t /\ tbl[i] = t[i] /\ i \notin x
      BY <1>13, <2>1, <2>4
    <3>2. ~Cached(m, t[i])
      BY <1>3, <1>21, <3>1 DEF CachedWhole
    <3>3. \A q \in Requests \ {r} : t[i] \notin Range(m.table[q])
      BY <1>21, <3>1, CopiedShared
    <3>4. ASSUME NEW j \in 1..(L + g), j # i PROVE tbl[j] # tbl[i]
      <4>1. CASE Taken(j)
        <5>1. at(j) \in 1..need /\ tbl[j] = new[at(j)]
          BY <1>12, <3>4, <4>1
        <5>2. ~Held(m, tbl[j])
          <6> HIDE DEF at, need, s
          <6> QED
            BY <1>9, <5>1
        <5> QED
          BY <3>1, <5>2 DEF Held, Range
      <4>2. CASE ~Taken(j)
        <5>1. j \in DOMAIN t /\ tbl[j] = t[j]
          BY <1>13, <3>4, <4>2
        <5>2. i = L
          BY <1>3, <1>21, <3>1, CopiedIs
        <5>3. Whole(m, r, j)
          BY <1>3, <3>4, <5>1, <5>2, CopiedIs
        <5>4. t[j] # t[i]
          BY <1>3, <1>21, <3>1, <5>1, <5>3 DEF Level
        <5> QED
          BY <3>1, <5>1, <5>4
      <4> QED
        BY <4>1, <4>2
    <3> HIDE DEF a, s, need, g, L
    <3> QED
      BY <1>4, <1>19, <2>1, <2>2, <3>1, <3>2, <3>3, <3>4
  <2> QED
    BY <2>3, <2>4
<1>22. Cardinality(Free(m)) <= Cardinality(Free(a)) + need
  <2> DEFINE N == Range(new)
  <2>1. new \in Seq(Blocks) /\ Len(new) = need
    <3>1. new \in [1..need -> Blocks]
      <4> HIDE DEF need, s
      <4> QED
        BY <1>2, <1>9
    <3> HIDE DEF need
    <3> QED
      BY <1>6, <3>1
  <2>2. IsFiniteSet(N) /\ Cardinality(N) \in Nat /\ Cardinality(N) <= need
    <3> HIDE DEF need
    <3> QED
      BY <2>1, RangeBounds
  <2>3. Free(s) \ N \subseteq Free(a)
    <3> SUFFICES ASSUME NEW b \in Free(s), b \notin N PROVE b \in Free(a)
      OBVIOUS
    <3>1. b \in Blocks /\ ~Held(m, b) /\ ~Cached(s, b)
      <4> HIDE DEF s
      <4> QED
        BY <1>4, FreeIff DEF Held
    <3>2. ASSUME NEW i \in 1..(L + g), tbl[i] = b PROVE FALSE
      <4>1. CASE Taken(i)
        <5>1. at(i) \in 1..need /\ tbl[i] = new[at(i)]
          BY <1>12, <3>2, <4>1
        <5>2. new[at(i)] \in N
          <6> HIDE DEF at, need
          <6> QED
            BY <1>2, <5>1 DEF Range
        <5> QED
          BY <3>2, <5>1, <5>2
      <4>2. CASE ~Taken(i)
        <5>1. b \in Range(t)
          BY <1>13, <3>2, <4>2 DEF Range
        <5> QED
          BY <3>1, <5>1 DEF Held
      <4> QED
        BY <4>1, <4>2
    <3>3. b \notin Range(a.table[r])
      BY <1>15, <1>17, <3>2 DEF Range
    <3>4. ~Held(a, b)
      <4> HIDE DEF a
      <4> QED
        BY <1>17, <3>1, <3>3 DEF Held
    <3> HIDE DEF a, s
    <3> QED
      BY <1>16, <1>19, <3>1, <3>4, FreeIff
  <2>4. IsFiniteSet(Free(s)) /\ Cardinality(Free(s)) \in Nat
        /\ IsFiniteSet(Free(a)) /\ Cardinality(Free(a)) \in Nat /\ Cardinality(Free(m)) \in Nat
    BY FreeCounts
  <2>5. Cardinality(Free(s) \ N) <= Cardinality(Free(a))
    BY <2>3, <2>4, FS_Subset
  <2>6. Cardinality(Free(s) \ N) = Cardinality(Free(s)) - Cardinality(Free(s) \cap N)
    BY <2>4, FS_Difference
  <2>7. Cardinality(Free(s) \cap N) <= Cardinality(N) /\ Cardinality(Free(s) \cap N) \in Nat
    BY <2>2, FS_Intersection, FS_CardinalityType
  <2> HIDE DEF N, a, s, need
  <2> QED
    BY <1>4, <1>6, <2>2, <2>4, <2>5, <2>6, <2>7
<1>23. m.cache = <<>> => a.cache = <<>>
  BY <1>4, <1>7
<1>24. \A b : Cached(a, b) => Cached(m, b)
  BY <1>4, <1>19
<1> HIDE DEF a, s, need, g, x, L, t, Taken, at
<1>25. Grown(m, a, r, n)
  BY <1>7, <1>16, <1>17, <1>18, <1>20, <1>21, <1>22, <1>23, <1>24 DEF Grown, need
<1> QED
  BY <1>2, <1>25 DEF a

-----------------------------------------------------------------------------
(* What keeps the memory sound *)

LEMMA WholeGrows ==
  ASSUME Built, NEW m, Shaped(m), NEW a, Shaped(a), NEW r \in Requests, m.length[r] <= a.length[r],
         NEW i \in Nat, Whole(m, r, i)
  PROVE  Whole(a, r, i)
<1> DEFINE d == conf.block
           p == m.length[r] \div d
           q == a.length[r] \div d
<1>1. d \in Nat \ {0} /\ m.length[r] \in Nat /\ a.length[r] \in Nat
  BY ConfTypes, Shapes
<1>2. p \in Nat /\ m.length[r] % d \in 0..(d - 1) /\ m.length[r] = d * p + (m.length[r] % d)
  BY <1>1, DivMod
<1>3. q \in Nat /\ a.length[r] % d \in 0..(d - 1) /\ a.length[r] = d * q + (a.length[r] % d)
  BY <1>1, DivMod
<1> HIDE DEF p, q
<1>4. d * p \in Nat /\ d * q \in Nat
  BY <1>1, <1>2, <1>3
<1>5. ASSUME q < p PROVE FALSE
  <2>1. d * q + d <= d * p
    BY <1>1, <1>2, <1>3, <1>5, TimesUp
  <2> DEFINE x == d * p
             y == d * q
             u == m.length[r] % d
             v == a.length[r] % d
  <2>2. /\ x \in Nat /\ y \in Nat /\ y + d <= x /\ u \in 0..(d - 1) /\ v \in 0..(d - 1)
        /\ m.length[r] = x + u /\ a.length[r] = y + v
    BY <1>2, <1>3, <1>4, <2>1
  <2> HIDE DEF x, y, u, v, d
  <2> QED
    BY <1>1, <2>2
<1>6. i <= p
  BY DEF Whole, p
<1>7. i <= q
  BY <1>2, <1>3, <1>5, <1>6
<1> QED
  BY <1>7 DEF Whole, q

(* After an append the length may be put anywhere past the old one: what   *)
(* is behind the old full blocks is r's own.                               *)
LEMMA GrownCut ==
  ASSUME Built, NEW m, Sound(m), NEW a, NEW r \in Requests, NEW n \in Nat, Grown(m, a, r, n),
         NEW x \in Nat, m.length[r] <= x
  PROVE  Sound([a EXCEPT !.length[r] = x])
<1> DEFINE c == [a EXCEPT !.length[r] = x]
<1>1. Shaped(m) /\ Level(m) /\ CachedWhole(m) /\ Shaped(a) /\ a.ok = TRUE
  BY DEF Sound, Grown
<1>2. /\ m.length \in [Requests -> Nat] /\ a.length \in [Requests -> Nat]
      /\ a.length = [m.length EXCEPT ![r] = @ + n]
  BY <1>1, Shapes DEF Grown
<1>3. /\ c.table = a.table /\ c.cache = a.cache /\ c.ok = TRUE /\ c.length = [a.length EXCEPT ![r] = x]
      /\ Shaped(c)
  <2>1. [a.length EXCEPT ![r] = x] \in [Requests -> Nat]
    BY <1>2
  <2> QED
    BY <1>1, <2>1 DEF Shaped
<1> HIDE DEF c
<1>4. c.length[r] = x /\ \A q \in Requests \ {r} : c.length[q] = m.length[q]
  BY <1>2, <1>3
<1>5. \A q \in Requests \ {r} : c.table[q] = m.table[q] /\ \A i : Whole(c, q, i) <=> Whole(m, q, i)
  BY <1>3, <1>4 DEF Grown, Whole
<1>6. \A i \in Nat : Whole(m, r, i) => Whole(c, r, i)
  BY <1>1, <1>3, <1>4, WholeGrows
<1>7. \A b : Cached(c, b) <=> Cached(a, b)
  BY <1>3 DEF Cached
<1>8. \A q \in Requests : DOMAIN c.table[q] \subseteq Nat
  <2>1. \A q \in Requests : DOMAIN c.table[q] = 1..Len(c.table[q]) /\ Len(c.table[q]) \in Nat
    BY <1>3, Shapes
  <2> QED
    BY <2>1
(* A block of r's table is an old full one, or nobody else's. *)
<1>9. ASSUME NEW i \in DOMAIN c.table[r], ~Whole(m, r, i)
      PROVE  /\ ~Cached(c, c.table[r][i])
             /\ \A q \in Requests \ {r} : c.table[r][i] \notin Range(c.table[q])
             /\ \A j \in DOMAIN c.table[r] : j # i => c.table[r][j] # c.table[r][i]
  <2>1. i \in DOMAIN a.table[r]
    BY <1>3
  <2>2. /\ ~Cached(a, a.table[r][i])
        /\ \A q \in Requests \ {r} : a.table[r][i] \notin Range(m.table[q])
        /\ \A j \in DOMAIN a.table[r] : j # i => a.table[r][j] # a.table[r][i]
    BY <1>9, <2>1 DEF Grown
  <2> QED
    BY <1>3, <1>5, <1>7, <2>2
<1>10. ASSUME NEW i \in DOMAIN c.table[r], Whole(m, r, i)
       PROVE  i \in DOMAIN m.table[r] /\ c.table[r][i] = m.table[r][i] /\ Whole(c, r, i)
  BY <1>3, <1>6, <1>8, <1>10 DEF Grown
<1>11. ASSUME NEW i \in DOMAIN c.table[r], NEW q \in Requests, NEW j \in DOMAIN c.table[q],
              c.table[r][i] = c.table[q][j]
       PROVE  Whole(c, r, i) <=> Whole(c, q, j)
  <2>1. CASE ~Whole(m, r, i)
    <3>1. q = r
      BY <1>9, <1>11, <2>1 DEF Range
    <3> QED
      BY <1>9, <1>11, <2>1, <3>1
  <2>2. CASE Whole(m, r, i) /\ q = r
    <3>1. Whole(m, r, j)
      BY <1>9, <1>11, <2>2
    <3> QED
      BY <1>10, <2>2, <3>1
  <2>3. CASE Whole(m, r, i) /\ q # r
    <3>1. i \in DOMAIN m.table[r] /\ c.table[r][i] = m.table[r][i] /\ Whole(c, r, i)
      BY <1>10, <2>3
    <3>2. j \in DOMAIN m.table[q] /\ c.table[q][j] = m.table[q][j]
      BY <1>5, <2>3
    <3>3. Whole(m, q, j)
      BY <1>1, <1>11, <2>3, <3>1, <3>2 DEF Level
    <3> QED
      BY <1>5, <2>3, <3>1, <3>3
  <2> QED
    BY <2>1, <2>2, <2>3
<1>12. Level(c)
  <2> SUFFICES ASSUME NEW p \in Requests, NEW q \in Requests, NEW i \in DOMAIN c.table[p],
                      NEW j \in DOMAIN c.table[q], c.table[p][i] = c.table[q][j]
               PROVE  Whole(c, p, i) <=> Whole(c, q, j)
    BY DEF Level
  <2>1. CASE p = r
    BY <1>11, <2>1
  <2>2. CASE q = r
    BY <1>11, <2>2
  <2>3. CASE p # r /\ q # r
    BY <1>1, <1>5, <2>3 DEF Level
  <2> QED
    BY <2>1, <2>2, <2>3
<1>13. CachedWhole(c)
  <2> SUFFICES ASSUME NEW q \in Requests, NEW i \in DOMAIN c.table[q], Cached(c, c.table[q][i])
               PROVE  Whole(c, q, i)
    BY DEF CachedWhole
  <2>1. CASE q = r
    BY <1>9, <1>10, <2>1
  <2>2. CASE q # r
    <3>1. Cached(m, c.table[q][i])
      BY <1>7 DEF Grown
    <3> QED
      BY <1>1, <1>5, <2>2, <3>1 DEF CachedWhole
  <2> QED
    BY <2>1, <2>2
<1>14. conf.entries = 0 => c.cache = <<>>
  BY <1>3 DEF Sound, Grown
<1> QED
  BY <1>3, <1>12, <1>13, <1>14 DEF Sound, c

LEMMA GrownSound ==
  ASSUME Built, NEW m, Sound(m), NEW a, NEW r \in Requests, NEW n \in Nat, Grown(m, a, r, n)
  PROVE  /\ Sound(a)
         /\ \A q \in Requests : ExactIn(m, q) => ExactIn(a, q)
         /\ a.length[r] = m.length[r] + n
         /\ \A q \in Requests \ {r} : a.length[q] = m.length[q] /\ a.table[q] = m.table[q]
<1> DEFINE x == m.length[r] + n
<1>1. Shaped(m) /\ Shaped(a) /\ a.length = [m.length EXCEPT ![r] = @ + n]
  BY DEF Sound, Grown
<1>2. m.length \in [Requests -> Nat]
  BY <1>1, Shapes
<1>3. a.length[r] = x /\ x \in Nat /\ m.length[r] <= x
      /\ \A q \in Requests \ {r} : a.length[q] = m.length[q]
  <2>1. a.length[r] = x /\ \A q \in Requests \ {r} : a.length[q] = m.length[q]
    BY <1>1, <1>2
  <2>2. x \in Nat /\ m.length[r] <= x
    BY <1>2
  <2> QED
    BY <2>1, <2>2
<1>4. Sound([a EXCEPT !.length[r] = x])
  BY <1>3, GrownCut
<1>5. [a EXCEPT !.length[r] = x] = a
  <2>1. [a.length EXCEPT ![r] = x] = a.length
    BY <1>1, <1>2, <1>3
  <2> QED
    BY <1>1, <2>1 DEF Shaped
<1>6. \A q \in Requests : ExactIn(m, q) => ExactIn(a, q)
  <2> SUFFICES ASSUME NEW q \in Requests, ExactIn(m, q) PROVE ExactIn(a, q)
    OBVIOUS
  <2>1. CASE q = r
    BY <2>1 DEF Grown
  <2>2. CASE q # r
    BY <1>3, <2>2 DEF Grown, ExactIn
  <2> QED
    BY <2>1, <2>2
<1>7. \A q \in Requests \ {r} : a.table[q] = m.table[q]
  BY DEF Grown
<1> QED
  BY <1>3, <1>4, <1>5, <1>6, <1>7

(* Tables may be cut and emptied. *)
LEMMA FewerBlocks ==
  ASSUME Built, NEW m, Sound(m), NEW a, Shaped(a), a.ok = TRUE, a.cache = m.cache,
         \A q \in Requests : \/ a.table[q] = <<>>
                             \/ /\ a.length[q] = m.length[q]
                                /\ \A i \in DOMAIN a.table[q] :
                                     i \in DOMAIN m.table[q] /\ a.table[q][i] = m.table[q][i]
  PROVE  /\ Sound(a)
         /\ \A q \in Requests : Range(a.table[q]) \subseteq Range(m.table[q])
         /\ Cardinality(Free(m)) <= Cardinality(Free(a))
<1>1. Shaped(m) /\ Level(m) /\ CachedWhole(m)
  BY DEF Sound
<1>2. \A q \in Requests : \A i \in DOMAIN a.table[q] :
        /\ i \in DOMAIN m.table[q] /\ a.table[q][i] = m.table[q][i]
        /\ Whole(a, q, i) <=> Whole(m, q, i)
  <2>1. DOMAIN <<>> = {}
    OBVIOUS
  <2> QED
    BY <2>1 DEF Whole
<1>3. \A b : Cached(a, b) <=> Cached(m, b)
  BY DEF Cached
<1>4. Level(a) /\ CachedWhole(a)
  BY <1>1, <1>2, <1>3 DEF Level, CachedWhole
<1>5. Sound(a)
  BY <1>4 DEF Sound
<1>6. \A q \in Requests : Range(a.table[q]) \subseteq Range(m.table[q])
  BY <1>2 DEF Range
<1>7. Cardinality(Free(m)) <= Cardinality(Free(a))
  BY <1>1, <1>3, <1>6, FreeGrows
<1> QED
  BY <1>5, <1>6, <1>7

LEMMA FreedKeeps ==
  ASSUME Built, NEW m, Shaped(m), NEW D
  PROVE  LET a == Freed(m, D) IN
         /\ Shaped(a) /\ a.ok = m.ok /\ a.cache = m.cache
         /\ \A q \in Requests : q \in D => a.table[q] = <<>> /\ a.length[q] = 0 /\ ExactIn(a, q)
         /\ \A q \in Requests : q \notin D => /\ a.table[q] = m.table[q] /\ a.length[q] = m.length[q]
                                              /\ ExactIn(m, q) => ExactIn(a, q)
         /\ Sound(m) => Sound(a)
         /\ Cardinality(Free(m)) <= Cardinality(Free(a))
<1> DEFINE a == Freed(m, D)
<1>1. m.table \in [Requests -> Seq(Blocks)] /\ m.length \in [Requests -> Nat]
  BY Shapes
<1>2. /\ a.table = [r \in Requests |-> IF r \in D THEN <<>> ELSE m.table[r]]
      /\ a.length = [r \in Requests |-> IF r \in D THEN 0 ELSE m.length[r]]
      /\ a.cache = m.cache /\ a.ok = m.ok
  BY DEF Freed, Shaped
<1>3. Shaped(a)
  <2>1. [r \in Requests |-> IF r \in D THEN <<>> ELSE m.table[r]] \in [Requests -> Seq(Blocks)]
    BY <1>1
  <2>2. [r \in Requests |-> IF r \in D THEN 0 ELSE m.length[r]] \in [Requests -> Nat]
    BY <1>1
  <2> QED
    BY <2>1, <2>2 DEF Freed, Shaped
<1> HIDE DEF a
<1>4. \A q \in Requests : q \in D => a.table[q] = <<>> /\ a.length[q] = 0 /\ ExactIn(a, q)
  <2>1. Positions(0) = 0 /\ Len(<<>>) = 0
    BY PositionsOfNone
  <2> QED
    BY <1>2, <2>1 DEF ExactIn
<1>5. \A q \in Requests : q \notin D =>
        a.table[q] = m.table[q] /\ a.length[q] = m.length[q] /\ (ExactIn(m, q) => ExactIn(a, q))
  BY <1>2 DEF ExactIn
<1>6. \A q \in Requests : \/ a.table[q] = <<>>
                          \/ /\ a.length[q] = m.length[q]
                             /\ \A i \in DOMAIN a.table[q] :
                                  i \in DOMAIN m.table[q] /\ a.table[q][i] = m.table[q][i]
  BY <1>4, <1>5
<1>7. Sound(m) => Sound(a)
  <2>1. Sound(m) => m.ok = TRUE
    BY DEF Sound
  <2> QED
    BY <1>2, <1>3, <1>6, <2>1, FewerBlocks
<1>8. Cardinality(Free(m)) <= Cardinality(Free(a))
  <2>1. \A q \in Requests : Range(a.table[q]) \subseteq Range(m.table[q])
    <3>1. Range(<<>>) = {}
      BY DEF Range
    <3> QED
      BY <1>4, <1>5, <3>1
  <2>2. \A b : Cached(a, b) => Cached(m, b)
    BY <1>2 DEF Cached
  <2> QED
    BY <1>3, <2>1, <2>2, FreeGrows
<1> QED
  BY <1>2, <1>3, <1>4, <1>5, <1>7, <1>8 DEF a

(* What r appends spares the others: none of their blocks becomes shared.  *)
LEMMA DemandShrinks ==
  ASSUME Built, NEW m, Shaped(m), NEW a, Shaped(a), NEW q \in Requests, ExactIn(m, q), NEW k \in Nat,
         a.table[q] = m.table[q], a.length[q] = m.length[q],
         \A p \in Requests : \A b \in Range(m.table[q]) :
           b \in Range(a.table[p]) => b \in Range(m.table[p]),
         \A b : Cached(a, b) => Cached(m, b)
  PROVE  BlocksToGrow(a, q, k) <= BlocksToGrow(m, q, k)
<1>1. ExactIn(a, q) /\ \A i : Whole(a, q, i) <=> Whole(m, q, i)
  BY DEF ExactIn, Whole
<1>2. Copied(a, q, k) = {i \in DOMAIN a.table[q] : ~Whole(a, q, i) /\ Refs(a, a.table[q][i]) > 1}
  BY <1>1, CopiedIs
<1>3. /\ Copied(m, q, k) = {i \in DOMAIN m.table[q] : ~Whole(m, q, i) /\ Refs(m, m.table[q][i]) > 1}
      /\ IsFiniteSet(Copied(m, q, k)) /\ Cardinality(Copied(m, q, k)) \in {0, 1}
  BY CopiedIs
<1>4. \A b \in Range(m.table[q]) : Refs(a, b) > 1 => Refs(m, b) > 1
  <2> SUFFICES ASSUME NEW b \in Range(m.table[q]), Refs(a, b) > 1 PROVE Refs(m, b) > 1
    OBVIOUS
  <2>1. (\E p \in Requests \ {q} : b \in Range(a.table[p])) \/ Cached(a, b)
    BY SharedIff
  <2>2. (\E p \in Requests \ {q} : b \in Range(m.table[p])) \/ Cached(m, b)
    BY <2>1
  <2> QED
    BY <2>2, SharedIff
<1>5. Copied(a, q, k) \subseteq Copied(m, q, k)
  <2> SUFFICES ASSUME NEW i \in Copied(a, q, k) PROVE i \in Copied(m, q, k)
    OBVIOUS
  <2>1. i \in DOMAIN m.table[q] /\ ~Whole(m, q, i) /\ Refs(a, m.table[q][i]) > 1
    BY <1>1, <1>2
  <2>2. m.table[q][i] \in Range(m.table[q])
    BY <2>1 DEF Range
  <2> QED
    BY <1>3, <1>4, <2>1, <2>2
<1>6. Cardinality(Copied(a, q, k)) <= Cardinality(Copied(m, q, k)) /\ Cardinality(Copied(a, q, k)) \in {0, 1}
  BY <1>1, <1>3, <1>5, FS_Subset, CopiedIs
<1>7. Growth(a, q, k) = Growth(m, q, k) /\ Growth(m, q, k) \in Nat
  BY GrowthIs DEF Growth
<1> QED
  BY <1>3, <1>6, <1>7 DEF BlocksToGrow

LEMMA DemandInOrder ==
  ASSUME Built, NEW m, Shaped(m), NEW q \in Requests, ExactIn(m, q),
         NEW j \in Nat, NEW k \in Nat, j <= k
  PROVE  BlocksToGrow(m, q, j) <= BlocksToGrow(m, q, k)
<1>1. Copied(m, q, j) = Copied(m, q, k)
  <2> DEFINE x == {i \in DOMAIN m.table[q] : ~Whole(m, q, i) /\ Refs(m, m.table[q][i]) > 1}
  <2>1. Copied(m, q, j) = x
    BY CopiedIs
  <2>2. Copied(m, q, k) = x
    BY CopiedIs
  <2> QED
    BY <2>1, <2>2
<1>2. Cardinality(Copied(m, q, j)) \in {0, 1}
  BY CopiedIs
<1>3. /\ Growth(m, q, j) = Positions(m.length[q] + j) - Len(m.table[q]) /\ Growth(m, q, j) \in Nat
      /\ Growth(m, q, k) = Positions(m.length[q] + k) - Len(m.table[q]) /\ Growth(m, q, k) \in Nat
  BY GrowthIs
<1>4. Len(m.table[q]) \in Nat /\ m.length[q] \in Nat
  BY Shapes
<1>5. Positions(m.length[q] + j) <= Positions(m.length[q] + k)
      /\ Positions(m.length[q] + j) \in Nat /\ Positions(m.length[q] + k) \in Nat
  <2>1. m.length[q] + j \in Nat /\ m.length[q] + k \in Nat /\ m.length[q] + j <= m.length[q] + k
    BY <1>4
  <2> QED
    BY <2>1, PositionsMono
<1>6. Growth(m, q, j) <= Growth(m, q, k)
  BY <1>3, <1>4, <1>5
<1> QED
  BY <1>1, <1>2, <1>3, <1>6 DEF BlocksToGrow

LEMMA GrownSpares ==
  ASSUME Built, NEW m, Sound(m), NEW a, NEW r \in Requests, NEW n \in Nat, Grown(m, a, r, n),
         NEW q \in Requests \ {r}
  PROVE  \A p \in Requests : \A b \in Range(m.table[q]) :
           b \in Range(a.table[p]) => b \in Range(m.table[p])
<1> SUFFICES ASSUME NEW p \in Requests, NEW b \in Range(m.table[q]), b \in Range(a.table[p])
             PROVE  b \in Range(m.table[p])
  OBVIOUS
<1>1. CASE p # r
  BY <1>1 DEF Grown
<1>2. CASE p = r
  <2>1. PICK i \in DOMAIN a.table[r] : b = a.table[r][i]
    BY <1>2 DEF Range
  <2>2. Whole(m, r, i)
    BY <2>1 DEF Grown
  <2>3. i \in DOMAIN m.table[r] /\ b = m.table[r][i]
    BY <2>1, <2>2 DEF Grown
  <2> QED
    BY <1>2, <2>3 DEF Range
<1> QED
  BY <1>1, <1>2

(* A verified draft is cut back to the tokens it emitted. *)
LEMMA TrimmedKeeps ==
  ASSUME Built, NEW m, Sound(m), NEW a, NEW r \in Requests, NEW n \in Nat, Grown(m, a, r, n),
         NEW x \in Nat, m.length[r] <= x, x <= a.length[r]
  PROVE  LET c == Trimmed(a, r, x) IN
         /\ Sound(c) /\ c.length[r] = x /\ ExactIn(c, r) /\ c.cache = a.cache
         /\ \A q \in Requests \ {r} : c.table[q] = m.table[q] /\ c.length[q] = m.length[q]
         /\ \A q \in Requests : Range(c.table[q]) \subseteq Range(a.table[q])
         /\ Cardinality(Free(a)) <= Cardinality(Free(c))
<1> DEFINE c == Trimmed(a, r, x)
           b == [a EXCEPT !.length[r] = x]
           t == a.table[r]
           u == SubSeq(t, 1, Positions(x))
<1>1. Sound(b)
  BY GrownCut
<1>2. Shaped(a) /\ Shaped(m) /\ a.ok = TRUE /\ ExactIn(a, r) /\ Sound(a)
  BY GrownSound DEF Grown, Sound
<1>3. /\ a.table \in [Requests -> Seq(Blocks)] /\ a.length \in [Requests -> Nat]
      /\ t \in Seq(Blocks) /\ Len(t) \in Nat
  BY <1>2, Shapes
<1>4. a.length[r] = m.length[r] + n /\ m.length[r] \in Nat
      /\ \A q \in Requests \ {r} : a.length[q] = m.length[q] /\ a.table[q] = m.table[q]
  BY <1>2, GrownSound, Shapes
<1>5. Positions(x) \in Nat /\ Positions(x) <= Len(t)
  <2>1. a.length[r] \in Nat
    BY <1>3
  <2>2. Positions(x) \in Nat /\ Positions(x) <= Positions(a.length[r])
    BY <2>1, PositionsMono
  <2> QED
    BY <1>2, <2>2 DEF ExactIn
<1>6. u \in Seq(Blocks) /\ Len(u) = Positions(x) /\ \A i \in DOMAIN u : i \in DOMAIN t /\ u[i] = t[i]
  <2> HIDE DEF t
  <2> QED
    BY <1>3, <1>5
<1> HIDE DEF u
<1>7. /\ c.table = [a.table EXCEPT ![r] = u] /\ c.length = [a.length EXCEPT ![r] = x]
      /\ c.cache = a.cache /\ c.ok = TRUE /\ Shaped(c)
  <2>1. [a.table EXCEPT ![r] = u] \in [Requests -> Seq(Blocks)]
    BY <1>3, <1>6
  <2>2. [a.length EXCEPT ![r] = x] \in [Requests -> Nat]
    BY <1>3
  <2> QED
    BY <1>2, <2>1, <2>2 DEF Trimmed, Shaped, u
<1>8. b.table = a.table /\ b.length = [a.length EXCEPT ![r] = x] /\ b.cache = a.cache
  BY <1>2 DEF Shaped
<1> HIDE DEF b, c
<1>9. \A q \in Requests : /\ c.length[q] = b.length[q]
                          /\ \A i \in DOMAIN c.table[q] : i \in DOMAIN b.table[q] /\ c.table[q][i] = b.table[q][i]
  BY <1>3, <1>6, <1>7, <1>8
<1>10. /\ Sound(c)
       /\ \A q \in Requests : Range(c.table[q]) \subseteq Range(b.table[q])
  BY <1>1, <1>7, <1>8, <1>9, FewerBlocks
<1>11. \A q \in Requests : Range(c.table[q]) \subseteq Range(a.table[q])
  BY <1>8, <1>10
<1>12. Cardinality(Free(a)) <= Cardinality(Free(c))
  <2>1. \A z : Cached(c, z) => Cached(a, z)
    BY <1>7 DEF Cached
  <2> QED
    BY <1>2, <1>7, <1>11, <2>1, FreeGrows
<1>13. c.length[r] = x /\ c.table[r] = u
  BY <1>3, <1>7
<1>14. ExactIn(c, r)
  BY <1>6, <1>13 DEF ExactIn
<1>15. \A q \in Requests \ {r} : c.table[q] = m.table[q] /\ c.length[q] = m.length[q]
  BY <1>3, <1>4, <1>7
<1> QED
  BY <1>7, <1>10, <1>11, <1>12, <1>13, <1>14, <1>15 DEF c

(* The siblings hold the leader's blocks at the leader's positions. *)
LEMMA ForkedKeeps ==
  ASSUME Built, NEW m, Sound(m), NEW r \in Requests, NEW G \in SUBSET Requests
  PROVE  LET a == Forked(m, r, G) IN
         /\ Sound(a)
         /\ \A q \in G : a.table[q] = m.table[r] /\ a.length[q] = m.length[r] /\ (ExactIn(m, r) => ExactIn(a, q))
         /\ \A q \in Requests \ G : /\ a.table[q] = m.table[q] /\ a.length[q] = m.length[q]
                                    /\ ExactIn(m, q) => ExactIn(a, q)
<1> DEFINE a == Forked(m, r, G)
           of == [q \in Requests |-> IF q \in G THEN r ELSE q]
<1>1. Shaped(m) /\ Level(m) /\ CachedWhole(m) /\ m.ok = TRUE
  BY DEF Sound
<1>2. m.table \in [Requests -> Seq(Blocks)] /\ m.length \in [Requests -> Nat]
  BY <1>1, Shapes
<1>3. /\ a.table = [q \in Requests |-> m.table[of[q]]] /\ a.length = [q \in Requests |-> m.length[of[q]]]
      /\ a.cache = m.cache /\ a.ok = TRUE /\ Shaped(a)
  <2>1. /\ a.table = [q \in Requests |-> IF q \in G THEN m.table[r] ELSE m.table[q]]
        /\ a.length = [q \in Requests |-> IF q \in G THEN m.length[r] ELSE m.length[q]]
        /\ a.cache = m.cache /\ a.ok = TRUE
    BY <1>1 DEF Forked, Shaped
  <2>2. [q \in Requests |-> IF q \in G THEN m.table[r] ELSE m.table[q]] \in [Requests -> Seq(Blocks)]
    BY <1>2
  <2>3. [q \in Requests |-> IF q \in G THEN m.length[r] ELSE m.length[q]] \in [Requests -> Nat]
    BY <1>2
  <2>4. Shaped(a)
    BY <1>1, <2>2, <2>3 DEF Forked, Shaped
  <2>5. a.table = [q \in Requests |-> m.table[of[q]]]
    <3>1. \A q \in Requests : (IF q \in G THEN m.table[r] ELSE m.table[q]) = m.table[of[q]]
      OBVIOUS
    <3> HIDE DEF a, of
    <3> QED
      BY <2>1, <3>1
  <2>6. a.length = [q \in Requests |-> m.length[of[q]]]
    <3>1. \A q \in Requests : (IF q \in G THEN m.length[r] ELSE m.length[q]) = m.length[of[q]]
      OBVIOUS
    <3> HIDE DEF a, of
    <3> QED
      BY <2>1, <3>1
  <2> QED
    BY <2>1, <2>4, <2>5, <2>6
<1>4. \A q \in Requests : of[q] \in Requests
  OBVIOUS
<1> HIDE DEF a
<1>5. \A q \in Requests : /\ a.table[q] = m.table[of[q]] /\ a.length[q] = m.length[of[q]]
                          /\ \A i : Whole(a, q, i) <=> Whole(m, of[q], i)
  <2> HIDE DEF of
  <2> QED
    BY <1>3 DEF Whole
<1>6. \A b : Cached(a, b) <=> Cached(m, b)
  BY <1>3 DEF Cached
<1>7. Level(a)
  <2> HIDE DEF of
  <2> SUFFICES ASSUME NEW p \in Requests, NEW q \in Requests, NEW i \in DOMAIN a.table[p],
                      NEW j \in DOMAIN a.table[q], a.table[p][i] = a.table[q][j]
               PROVE  Whole(a, p, i) <=> Whole(a, q, j)
    BY DEF Level
  <2>1. /\ i \in DOMAIN m.table[of[p]] /\ j \in DOMAIN m.table[of[q]]
        /\ m.table[of[p]][i] = m.table[of[q]][j]
    BY <1>5
  <2>2. Whole(m, of[p], i) <=> Whole(m, of[q], j)
    BY <1>1, <1>4, <2>1 DEF Level
  <2> QED
    BY <1>5, <2>2
<1>8. CachedWhole(a)
  <2> HIDE DEF of
  <2> QED
    BY <1>1, <1>4, <1>5, <1>6 DEF CachedWhole
<1>9. Sound(a)
  BY <1>3, <1>7, <1>8 DEF Sound
<1>10. \A q \in Requests : q \in G => of[q] = r
  OBVIOUS
<1>11. \A q \in Requests \ G : of[q] = q
  OBVIOUS
<1> HIDE DEF of
<1>12. \A q \in G : a.table[q] = m.table[r] /\ a.length[q] = m.length[r] /\ (ExactIn(m, r) => ExactIn(a, q))
  BY <1>5, <1>10 DEF ExactIn
<1>13. \A q \in Requests \ G : a.table[q] = m.table[q] /\ a.length[q] = m.length[q] /\ (ExactIn(m, q) => ExactIn(a, q))
  BY <1>5, <1>11 DEF ExactIn
<1> QED
  BY <1>9, <1>12, <1>13 DEF a

-----------------------------------------------------------------------------
(* The prefix cache *)

LEMMA WholeOfBlocks ==
  ASSUME Built, NEW k \in Nat, NEW w, w = k * conf.block
  PROVE  w \in Nat /\ w \div conf.block = k /\ Positions(w) = k
<1> DEFINE d == conf.block
           q == w \div d
           y == w % d
<1>1. d \in Nat \ {0}
  BY ConfTypes
<1>2. w = d * k /\ w \in Nat
  BY <1>1
<1>3. q \in Nat /\ y \in 0..(d - 1) /\ w = d * q + y
  BY <1>1, <1>2, DivMod
<1> HIDE DEF q, y
<1>4. d * q \in Nat /\ d * k \in Nat
  BY <1>1, <1>3
<1>5. ASSUME q < k PROVE FALSE
  <2>1. d * q + d <= d * k
    BY <1>1, <1>3, <1>5, TimesUp
  <2> DEFINE u == d * q
             v == d * k
  <2>2. u \in Nat /\ v \in Nat /\ u + d <= v /\ v = u + y
    BY <1>2, <1>3, <1>4, <2>1
  <2> HIDE DEF u, v
  <2> QED
    BY <1>1, <1>3, <2>2
<1>6. ASSUME k < q PROVE FALSE
  <2>1. d * k + d <= d * q
    BY <1>1, <1>3, <1>6, TimesUp
  <2> DEFINE u == d * q
             v == d * k
  <2>2. u \in Nat /\ v \in Nat /\ v + d <= u /\ v = u + y
    BY <1>2, <1>3, <1>4, <2>1
  <2> HIDE DEF u, v
  <2> QED
    BY <1>1, <1>3, <2>2
<1>7. q = k
  BY <1>3, <1>5, <1>6
<1>8. Positions(w) = k
  <2>1. w < w + d
    BY <1>1, <1>2
  <2>2. w <= w
    BY <1>2
  <2> QED
    BY <1>2, <2>1, <2>2, PositionsOf
<1> QED
  BY <1>2, <1>7, <1>8 DEF q

LEMMA MaxOfTwo ==
  ASSUME NEW a \in Int, NEW b \in Int
  PROVE  Max({a, b}) = IF a <= b THEN b ELSE a
<1>1. \A x : (x \in {a, b} /\ \A y \in {a, b} : x >= y) <=> x = IF a <= b THEN b ELSE a
  OBVIOUS
<1>2. Max({a, b}) = CHOOSE x \in {a, b} : \A y \in {a, b} : x >= y
  BY DEF Max
<1> DEFINE z == IF a <= b THEN b ELSE a
<1>3. z \in {a, b} /\ \A y \in {a, b} : z >= y
  BY <1>1
<1> QED
  BY <1>1, <1>2, <1>3

LEMMA MinOfTwo ==
  ASSUME NEW a \in Nat, NEW b \in Nat
  PROVE  Min({a, b}) \in Nat /\ Min({a, b}) <= a /\ Min({a, b}) <= b
<1>1. {a, b} \in SUBSET Nat /\ {a, b} # {}
  OBVIOUS
<1>2. Min({a, b}) \in {a, b} /\ \A n \in {a, b} : Min({a, b}) <= n
  BY <1>1, MinExists
<1> QED
  BY <1>2

LEMMA CacheEntry ==
  ASSUME Built, NEW m, Shaped(m), NEW i \in DOMAIN m.cache
  PROVE  /\ i \in 1..Len(m.cache) /\ m.cache[i] \in Entries
         /\ m.cache[i].blocks \in Seq(Blocks) /\ Len(m.cache[i].blocks) \in Nat
         /\ \A b \in Range(m.cache[i].blocks) : Cached(m, b)
<1>1. m.cache \in Seq(Entries)
  BY Shapes
<1>2. i \in 1..Len(m.cache) /\ m.cache[i] \in Entries
  BY <1>1
<1>3. m.cache[i].blocks \in Seq(Blocks)
  BY <1>2 DEF Entries
<1> QED
  BY <1>2, <1>3 DEF Cached

LEMMA MatchBounds ==
  ASSUME Built, NEW m, Shaped(m), NEW r \in Requests, ask[r] \in Asks, NEW i \in DOMAIN m.cache
  PROVE  /\ Match(m, r, i) \in Nat
         /\ Match(m, r, i) <= Len(m.cache[i].blocks)
         /\ Match(m, r, i) * conf.block <= ask[r].prompt - 1
<1> DEFINE d == conf.block
           n == ask[r].prompt - 1
           q == n \div d
           l == Len(m.cache[i].blocks)
           w == Match(m, r, i)
<1>1. d \in Nat \ {0} /\ n \in Nat
  BY ConfTypes DEF Asks
<1>2. q \in Nat /\ n % d \in 0..(d - 1) /\ n = d * q + (n % d)
  BY <1>1, DivMod
<1>3. l \in Nat
  BY CacheEntry
<1> HIDE DEF q
<1>4. d * q \in Nat /\ d * q <= n
  <2>1. d * q \in Nat
    BY <1>1, <1>2
  <2> DEFINE x == d * q
             y == n % d
  <2>2. x \in Nat /\ n = x + y /\ y \in 0..(d - 1)
    BY <1>2, <2>1
  <2> HIDE DEF x, y, n
  <2>3. x <= n
    BY <1>1, <2>2
  <2> QED
    BY <2>1, <2>3 DEF x
<1>5. w = 0 \/ w = Min({l, q})
  BY DEF Match, q
<1>6. w \in Nat /\ w <= l /\ w <= q
  <2>1. Min({l, q}) \in Nat /\ Min({l, q}) <= l /\ Min({l, q}) <= q
    BY <1>2, <1>3, MinOfTwo
  <2> HIDE DEF w, l
  <2> QED
    BY <1>2, <1>3, <1>5, <2>1
<1> HIDE DEF w, l
<1>7. w * d <= d * q
  <2>1. CASE w = q
    BY <1>1, <1>2, <2>1
  <2>2. CASE w < q
    <3>1. d * w + d <= d * q
      BY <1>1, <1>2, <1>6, <2>2, TimesUp
    <3>2. d * w \in Nat /\ d * w = w * d
      BY <1>1, <1>6
    <3> DEFINE x == d * w
               y == d * q
    <3>3. x \in Nat /\ y \in Nat /\ x + d <= y
      BY <1>4, <3>1, <3>2
    <3> HIDE DEF x, y
    <3>4. x <= y
      BY <1>1, <3>3
    <3> QED
      BY <3>2, <3>4 DEF x, y
  <2> QED
    BY <1>2, <1>6, <2>1, <2>2
<1>8. w * d <= n
  <2>1. w * d \in Nat
    BY <1>1, <1>6
  <2> DEFINE x == w * d
             y == d * q
  <2>2. x \in Nat /\ y \in Nat /\ x <= y /\ y <= n
    BY <1>4, <1>7, <2>1
  <2> HIDE DEF x, y, n
  <2>3. x <= n
    BY <1>1, <2>2
  <2> QED
    BY <2>3 DEF x
<1> QED
  BY <1>6, <1>8 DEF w, l

(* A hit hands the request full blocks of its prompt, all but its last     *)
(* token at most, and every other holder of these blocks has them full.    *)
LEMMA LookedUpKeeps ==
  ASSUME Built, NEW m, Sound(m), NEW r \in Requests, ask[r] \in Asks
  PROVE  LET a == LookedUp(m, r) IN
         /\ Sound(a)
         /\ \A q \in Requests : ExactIn(m, q) => ExactIn(a, q)
         /\ \A q \in Requests \ {r} : a.table[q] = m.table[q] /\ a.length[q] = m.length[q]
         /\ a = m \/ (conf.entries > 0 /\ a.length[r] <= ask[r].prompt - 1)
<1> DEFINE a == LookedUp(m, r)
           S == {0} \cup {Match(m, r, i) : i \in DOMAIN m.cache}
           best == Max(S)
           K == {j \in DOMAIN m.cache : Match(m, r, j) = best}
           i == Min(K)
           B == conf.block
           e == m.cache[i]
           u == SubSeq(e.blocks, 1, best)
           c == Append(RemoveAt(m.cache, i), e)
<1>1. Shaped(m) /\ Level(m) /\ CachedWhole(m) /\ m.ok = TRUE
  BY DEF Sound
<1>2. /\ m.table \in [Requests -> Seq(Blocks)] /\ m.length \in [Requests -> Nat]
      /\ m.cache \in Seq(Entries) /\ Len(m.cache) \in Nat /\ DOMAIN m.cache = 1..Len(m.cache)
  BY <1>1, Shapes
<1>3. \A j \in DOMAIN m.cache : /\ Match(m, r, j) \in Nat
                                /\ Match(m, r, j) <= Len(m.cache[j].blocks)
                                /\ Match(m, r, j) * B <= ask[r].prompt - 1
  BY <1>1, MatchBounds
<1>4. best \in S
  <2> DEFINE s == [j \in 1..Len(m.cache) |-> Match(m, r, j)]
  <2>1. s \in Seq(Nat)
    BY <1>2, <1>3
  <2>2. IsFiniteSet(Range(s)) /\ Range(s) \subseteq Nat
    <3> HIDE DEF s
    <3> QED
      BY <2>1, RangeBounds
  <2>3. S = Range(s) \cup {0}
    BY <1>2 DEF Range
  <2>4. IsFiniteSet(S) /\ S \in SUBSET Nat /\ S # {}
    <3>1. IsFiniteSet(Range(s) \cup {0})
      BY <2>2, FS_AddElement
    <3> HIDE DEF s
    <3> QED
      BY <2>2, <2>3, <3>1
  <2> HIDE DEF S
  <2> QED
    BY <2>4, MaxOfFinite
<1>5. CASE best = 0
  <2>1. a = m
    BY <1>5 DEF LookedUp
  <2> QED
    BY <2>1
<1>6. CASE best # 0
  <2>1. K # {} /\ K \in SUBSET Nat
    <3>1. PICK j \in DOMAIN m.cache : best = Match(m, r, j)
      BY <1>4, <1>6
    <3>2. j \in K
      BY <3>1
    <3> HIDE DEF best
    <3> QED
      BY <1>2, <3>2
  <2>2. i \in K
    <3> HIDE DEF K
    <3> QED
      BY <2>1, MinExists
  <2>3. i \in DOMAIN m.cache /\ best = Match(m, r, i)
    BY <2>2
  <2> HIDE DEF best, i
  <2>4. best \in Nat /\ best <= Len(e.blocks) /\ best * B <= ask[r].prompt - 1
    BY <1>3, <2>3
  <2>5. e \in Entries /\ e.blocks \in Seq(Blocks) /\ \A b \in Range(e.blocks) : Cached(m, b)
    BY <1>1, <2>3, CacheEntry
  <2>6. u \in Seq(Blocks) /\ Len(u) = best /\ DOMAIN u = 1..best
        /\ \A j \in 1..best : u[j] \in Range(e.blocks)
    <3> HIDE DEF e
    <3> QED
      BY <2>4, <2>5 DEF Range
  <2>7. c \in Seq(Entries) /\ \A j \in DOMAIN c : \E k \in DOMAIN m.cache : c[j] = m.cache[k]
    <3> DEFINE l == SubSeq(m.cache, 1, i - 1)
               h == SubSeq(m.cache, i + 1, Len(m.cache))
    <3>1. l \in Seq(Entries) /\ \A j \in DOMAIN l : j \in DOMAIN m.cache /\ l[j] = m.cache[j]
      BY <1>2, <2>3
    <3>2. h \in Seq(Entries) /\ \A j \in DOMAIN h : i + j \in DOMAIN m.cache /\ h[j] = m.cache[i + j]
      <4>1. i \in 1..Len(m.cache)
        BY <1>2, <2>3
      <4>2. /\ h \in Seq(Entries) /\ Len(h) = Len(m.cache) - i /\ DOMAIN h = 1..Len(h)
            /\ \A j \in 1..Len(h) : h[j] = m.cache[i + j]
        BY <1>2, <4>1
      <4> HIDE DEF h
      <4>3. \A j \in 1..(Len(m.cache) - i) : i + j \in 1..Len(m.cache)
        <5> DEFINE N == Len(m.cache)
        <5>1. N \in Nat /\ i \in 1..N
          BY <1>2, <4>1
        <5> HIDE DEF N
        <5>2. \A j \in 1..(N - i) : i + j \in 1..N
          BY <5>1
        <5> QED
          BY <5>2 DEF N
      <4>4. DOMAIN m.cache = 1..Len(m.cache)
        BY <1>2
      <4> QED
        BY <4>2, <4>3, <4>4
    <3>3. c = Append(l \o h, e)
      BY DEF RemoveAt
    <3> HIDE DEF l, h, e
    <3>4. l \o h \in Seq(Entries) /\ \A j \in DOMAIN (l \o h) : \E k \in DOMAIN m.cache : (l \o h)[j] = m.cache[k]
      <4>1. /\ l \o h \in Seq(Entries) /\ Len(l \o h) = Len(l) + Len(h)
            /\ \A j \in 1..(Len(l) + Len(h)) :
                 (l \o h)[j] = IF j <= Len(l) THEN l[j] ELSE h[j - Len(l)]
        BY <3>1, <3>2, ConcatProperties
      <4>2. \A j \in DOMAIN (l \o h) : IF j <= Len(l) THEN j \in DOMAIN l ELSE j - Len(l) \in DOMAIN h
        BY <3>1, <3>2, <4>1
      <4> QED
        BY <3>1, <3>2, <4>1, <4>2
    <3> DEFINE z == l \o h
    <3> HIDE DEF z
    <3>5. Append(z, e) \in Seq(Entries) /\ \A j \in DOMAIN Append(z, e) :
            Append(z, e)[j] = e \/ (j \in DOMAIN z /\ Append(z, e)[j] = z[j])
      BY <2>5, <3>4 DEF z
    <3> QED
      BY <2>3, <3>3, <3>4, <3>5 DEF z, e
  <2> HIDE DEF u, c, e, K, S
  <2>8. a = [m EXCEPT !.table[r] = u, !.length[r] = best * B, !.cache = c]
    BY <1>6, <2>3 DEF LookedUp, u, c, e, best, i, K, S
  <2>9. best * B \in Nat /\ (best * B) \div B = best /\ Positions(best * B) = best
    BY <2>4, WholeOfBlocks
  <2>10. /\ a.table = [m.table EXCEPT ![r] = u] /\ a.length = [m.length EXCEPT ![r] = best * B]
         /\ a.cache = c /\ a.ok = TRUE /\ Shaped(a)
    <3>1. [m.table EXCEPT ![r] = u] \in [Requests -> Seq(Blocks)]
      BY <1>2, <2>6
    <3>2. [m.length EXCEPT ![r] = best * B] \in [Requests -> Nat]
      BY <1>2, <2>9
    <3> HIDE DEF a
    <3> QED
      BY <1>1, <2>7, <2>8, <3>1, <3>2 DEF Shaped
  <2> HIDE DEF a
  <2>11. a.table[r] = u /\ a.length[r] = best * B
         /\ \A q \in Requests \ {r} : a.table[q] = m.table[q] /\ a.length[q] = m.length[q]
    BY <1>2, <2>10
  <2>12. \A b : Cached(a, b) => Cached(m, b)
    BY <2>7, <2>10 DEF Cached
  <2>13. \A j \in DOMAIN u : Whole(a, r, j) /\ Cached(m, u[j])
    BY <2>4, <2>5, <2>6, <2>9, <2>11 DEF Whole
  <2>14. \A q \in Requests \ {r} : \A j : Whole(a, q, j) <=> Whole(m, q, j)
    BY <2>11 DEF Whole
  <2>15. \A q \in Requests : \A j \in DOMAIN a.table[q] : Cached(m, a.table[q][j]) => Whole(a, q, j)
    BY <1>1, <2>11, <2>13, <2>14 DEF CachedWhole
  <2>16. Level(a)
    <3> SUFFICES ASSUME NEW p \in Requests, NEW q \in Requests, NEW j \in DOMAIN a.table[p],
                        NEW k \in DOMAIN a.table[q], a.table[p][j] = a.table[q][k]
                 PROVE  Whole(a, p, j) <=> Whole(a, q, k)
      BY DEF Level
    <3>1. CASE p = r \/ q = r
      BY <2>11, <2>13, <2>15, <3>1
    <3>2. CASE p # r /\ q # r
      BY <1>1, <2>11, <2>14, <3>2 DEF Level
    <3> QED
      BY <3>1, <3>2
  <2>17. CachedWhole(a)
    BY <2>12, <2>15 DEF CachedWhole
  <2>18. conf.entries > 0
    <3>1. m.cache # <<>>
      BY <1>2, <2>3
    <3>2. conf.entries \in Nat /\ conf.entries # 0
      BY <3>1, ConfTypes DEF Sound
    <3> QED
      BY <3>2
  <2>19. Sound(a)
    BY <2>10, <2>16, <2>17, <2>18 DEF Sound
  <2>20. \A q \in Requests : ExactIn(m, q) => ExactIn(a, q)
    BY <2>6, <2>9, <2>11 DEF ExactIn
  <2> QED
    BY <2>4, <2>11, <2>18, <2>19, <2>20 DEF a
<1> QED
  BY <1>5, <1>6

(* A finished request donates full blocks only. *)
LEMMA DonatedKeeps ==
  ASSUME Built, NEW m, Sound(m), NEW r \in Requests, ask[r] \in Asks,
         m.length[r] \div conf.block <= Len(m.table[r])
  PROVE  LET a == Donated(m, r) IN Sound(a) /\ a.table = m.table /\ a.length = m.length
<1> DEFINE a == Donated(m, r)
           n == m.length[r] \div conf.block
           t == m.table[r]
           gone == {x \in Range(m.cache) : x.text = ask[r].text /\ Len(x.blocks) <= n}
           rest == Without(m.cache, gone)
           e == [text |-> ask[r].text, blocks |-> SubSeq(t, 1, n)]
           c == Append(rest, e)
           from == Max({1, Len(c) - conf.entries + 1})
           k == SubSeq(c, from, Len(c))
<1>1. Shaped(m) /\ Level(m) /\ CachedWhole(m) /\ m.ok = TRUE
  BY DEF Sound
<1>2. m.cache \in Seq(Entries) /\ t \in Seq(Blocks) /\ Len(t) \in Nat /\ n \in Nat
  BY <1>1, Shapes
<1>3. CASE conf.entries = 0 \/ n = 0
  <2>1. a = m
    BY <1>3 DEF Donated
  <2> QED
    BY <2>1
<1>4. CASE ~(conf.entries = 0 \/ n = 0)
  <2>1. rest \in Seq(Entries) /\ Range(rest) \subseteq Range(m.cache)
    <3> HIDE DEF gone
    <3> QED
      BY <1>2, WithoutIsSeq
  <2>2. e \in Entries /\ e.blocks \in Seq(Blocks) /\ \A b \in Range(e.blocks) : \E i \in 1..n : i \in DOMAIN t /\ b = t[i]
    <3>1. SubSeq(t, 1, n) \in Seq(Blocks) /\ Len(SubSeq(t, 1, n)) = n
          /\ \A i \in 1..n : SubSeq(t, 1, n)[i] = t[i] /\ i \in DOMAIN t
      <4> HIDE DEF t, n
      <4>1. n <= Len(t)
        BY DEF t, n
      <4> QED
        BY <1>2, <4>1
    <3>2. e \in Entries
      BY <3>1 DEF Entries, Asks
    <3> QED
      BY <1>2, <3>1, <3>2 DEF Range
  <2> HIDE DEF rest, e
  <2>3. /\ c \in Seq(Entries) /\ Len(c) \in Nat /\ DOMAIN c = 1..Len(c)
        /\ \A j \in DOMAIN c : c[j] = e \/ \E x \in Range(m.cache) : c[j] = x
    <3>1. rest \in Seq(Entries) /\ Len(rest) \in Nat
      BY <2>1
    <3>2. c \in Seq(Entries) /\ Len(c) = Len(rest) + 1 /\ DOMAIN c = 1..Len(c)
          /\ \A j \in 1..Len(c) : c[j] = IF j <= Len(rest) THEN rest[j] ELSE e
      BY <2>2, <3>1
    <3>3. \A j \in 1..Len(rest) : rest[j] \in Range(rest)
      BY <3>1 DEF Range
    <3> HIDE DEF c
    <3> QED
      BY <2>1, <3>1, <3>2, <3>3
  <2> HIDE DEF c
  <2>4. conf.entries \in Nat
    BY ConfTypes
  <2>5. from \in Nat /\ from >= 1
    <3>1. Len(c) - conf.entries + 1 \in Int
      BY <2>3, <2>4
    <3>2. from = IF 1 <= Len(c) - conf.entries + 1 THEN Len(c) - conf.entries + 1 ELSE 1
      <4> DEFINE z == Len(c) - conf.entries + 1
      <4> HIDE DEF z
      <4> QED
        BY <3>1, MaxOfTwo DEF z
    <3> HIDE DEF from
    <3> QED
      BY <2>3, <2>4, <3>1, <3>2
  <2> HIDE DEF from
  <2>6. k \in Seq(Entries) /\ \A j \in DOMAIN k : k[j] = e \/ \E x \in Range(m.cache) : k[j] = x
    <3>1. k \in Seq(Entries) /\ \A j \in DOMAIN k : \E i \in DOMAIN c : k[j] = c[i]
      <4>1. /\ k \in Seq(Entries) /\ DOMAIN k = 1..Len(k)
            /\ Len(k) = IF from <= Len(c) THEN Len(c) - from + 1 ELSE 0
            /\ \A j \in 1..Len(k) : k[j] = c[from + j - 1]
        BY <2>3, <2>5
      <4>2. \A j \in 1..Len(k) : from + j - 1 \in DOMAIN c
        <5> HIDE DEF k
        <5> QED
          BY <2>3, <2>5, <4>1
      <4> HIDE DEF k
      <4> QED
        BY <4>1, <4>2
    <3> HIDE DEF k
    <3> QED
      BY <2>3, <3>1
  <2> HIDE DEF k
  <2>7. a = [m EXCEPT !.cache = k]
    BY <1>4 DEF Donated, k, from, c, e, rest
  <2>8. a.cache = k /\ a.table = m.table /\ a.length = m.length /\ a.ok = TRUE /\ Shaped(a)
    <3> HIDE DEF a
    <3> QED
      BY <1>1, <2>6, <2>7 DEF Shaped
  <2> HIDE DEF a
  <2>9. ASSUME NEW b, Cached(a, b) PROVE Cached(m, b) \/ \E i \in 1..n : i \in DOMAIN t /\ b = t[i]
    <3>1. PICK j \in DOMAIN k : b \in Range(k[j].blocks)
      BY <2>8, <2>9 DEF Cached
    <3>2. CASE k[j] = e
      BY <2>2, <3>1, <3>2
    <3>3. CASE \E x \in Range(m.cache) : k[j] = x
      <4>1. PICK i \in DOMAIN m.cache : k[j] = m.cache[i]
        BY <3>3 DEF Range
      <4> QED
        BY <3>1, <4>1 DEF Cached
    <3> QED
      BY <2>6, <3>2, <3>3
  <2>10. \A q \in Requests : \A i : Whole(a, q, i) <=> Whole(m, q, i)
    BY <2>8 DEF Whole
  <2>11. Level(a)
    BY <1>1, <2>8, <2>10 DEF Level
  <2>12. CachedWhole(a)
    <3> SUFFICES ASSUME NEW q \in Requests, NEW j \in DOMAIN m.table[q], Cached(a, m.table[q][j])
                 PROVE  Whole(m, q, j)
      BY <2>8, <2>10 DEF CachedWhole
    <3>1. CASE Cached(m, m.table[q][j])
      BY <1>1, <3>1 DEF CachedWhole
    <3>2. CASE \E i \in 1..n : i \in DOMAIN t /\ m.table[q][j] = t[i]
      <4>1. PICK i \in 1..n : i \in DOMAIN t /\ m.table[q][j] = t[i]
        BY <3>2
      <4>2. Whole(m, r, i)
        BY <1>2 DEF Whole
      <4> QED
        BY <1>1, <4>1, <4>2 DEF Level
    <3> QED
      BY <2>9, <3>1, <3>2
  <2>13. Sound(a)
    BY <1>4, <2>8, <2>11, <2>12 DEF Sound
  <2> QED
    BY <2>8, <2>13 DEF a
<1> QED
  BY <1>3, <1>4

-----------------------------------------------------------------------------
(* Several requests, one after the other *)

Frees(m, ends, n, f) ==
  f = [k \in 0..n |-> IF k = 0 THEN m ELSE Freed(Donated(f[k - 1], ends[k]), {ends[k]})]

LEMMA FreesExist ==
  ASSUME NEW m, NEW ends, NEW n \in Nat
  PROVE  \E f : Frees(m, ends, n, f)
<1> DEFINE Bad == {i \in Nat : ~\E f : Frees(m, ends, i, f)}
<1>1. SUFFICES Bad = {}
  OBVIOUS
<1>2. SUFFICES ASSUME Bad # {} PROVE FALSE
  OBVIOUS
<1>3. PICK i \in Bad : \A j \in Bad : i <= j
  BY <1>2, LeastOf
<1>4. CASE i = 0
  <2> DEFINE f == [k \in 0..0 |-> m]
  <2>1. Frees(m, ends, 0, f)
    BY DEF Frees
  <2> QED
    BY <1>3, <1>4, <2>1
<1>5. CASE i # 0
  <2>1. i - 1 \in Nat /\ i - 1 \notin Bad
    BY <1>3, <1>5
  <2>2. PICK f : Frees(m, ends, i - 1, f)
    BY <2>1
  <2> DEFINE g == [k \in 0..i |-> IF k = 0 THEN m ELSE Freed(Donated(f[k - 1], ends[k]), {ends[k]})]
  <2> DEFINE Step(k) == IF k = 0 THEN m ELSE Freed(Donated(f[k - 1], ends[k]), {ends[k]})
  <2>3. \A k \in 0..(i - 1) : g[k] = f[k]
    <3>1. f = [k \in 0..(i - 1) |-> Step(k)]
      BY <2>2 DEF Frees
    <3>2. \A k \in 0..(i - 1) : k \in 0..i
      BY <2>1
    <3> HIDE DEF Step
    <3>3. \A k \in 0..(i - 1) : f[k] = Step(k)
      BY <3>1
    <3>4. \A k \in 0..i : g[k] = Step(k)
      BY DEF Step
    <3> QED
      BY <3>2, <3>3, <3>4
  <2>4. \A k \in 0..i : k # 0 => g[k - 1] = f[k - 1]
    <3>1. \A k \in 0..i : k # 0 => k - 1 \in 0..(i - 1)
      BY <2>1
    <3> HIDE DEF g
    <3> QED
      BY <2>3, <3>1
  <2>5. Frees(m, ends, i, g)
    BY <2>4 DEF Frees
  <2> QED
    BY <1>3, <2>5
<1> QED
  BY <1>4, <1>5

(* The requests of `ends` lose their tables, whole blocks of which the     *)
(* cache may keep; the others keep theirs.                                 *)
LEMMA ReleasedKeeps ==
  ASSUME Built, \A q \in Requests : ask[q] \in Asks, NEW m, Sound(m), NEW ends \in Seq(Requests),
         \A q \in Range(ends) : m.length[q] \div conf.block <= Len(m.table[q])
  PROVE  LET a == Released(m, ends) IN
         /\ Sound(a)
         /\ \A q \in Range(ends) : a.table[q] = <<>> /\ a.length[q] = 0 /\ ExactIn(a, q)
         /\ \A q \in Requests \ Range(ends) : /\ a.table[q] = m.table[q] /\ a.length[q] = m.length[q]
                                              /\ ExactIn(m, q) => ExactIn(a, q)
<1> DEFINE N == Len(ends)
           after == CHOOSE f : Frees(m, ends, N, f)
           Done(k) == {ends[j] : j \in 1..k}
           Ok(k) == /\ Sound(after[k])
                    /\ \A q \in Done(k) : after[k].table[q] = <<>> /\ after[k].length[q] = 0
                    /\ \A q \in Requests \ Done(k) :
                         after[k].table[q] = m.table[q] /\ after[k].length[q] = m.length[q]
           Bad == {k \in 0..N : ~Ok(k)}
<1>1. N \in Nat /\ DOMAIN ends = 1..N /\ \A j \in 1..N : ends[j] \in Requests /\ ends[j] \in Range(ends)
  BY DEF Range
<1>2. Frees(m, ends, N, after)
  BY <1>1, FreesExist
<1>3. Released(m, ends) = after[N]
  BY DEF Released, Frees
<1> HIDE DEF after
<1>4. after[0] = m /\ \A k \in 1..N : after[k] = Freed(Donated(after[k - 1], ends[k]), {ends[k]})
  <2>1. after = [k \in 0..N |-> IF k = 0 THEN m ELSE Freed(Donated(after[k - 1], ends[k]), {ends[k]})]
    BY <1>2 DEF Frees
  <2> HIDE DEF N
  <2>2. 0 \in 0..N /\ \A k \in 1..N : k \in 0..N /\ k # 0
    BY <1>1
  <2> QED
    BY <2>1, <2>2
<1> HIDE DEF N
<1>5. Bad = {}
  <2>1. SUFFICES ASSUME Bad # {} PROVE FALSE
    OBVIOUS
  <2>2. PICK k \in Bad : \A j \in Bad : k <= j
    <3>1. Bad \in SUBSET Nat
      OBVIOUS
    <3> HIDE DEF Bad
    <3> QED
      BY <2>1, <3>1, LeastOf
  <2>3. CASE k = 0
    <3>1. Done(0) = {}
      OBVIOUS
    <3>2. Ok(0)
      BY <1>4, <3>1
    <3> QED
      BY <2>2, <2>3, <3>2
  <2>4. CASE k # 0
    <3> DEFINE p == after[k - 1]
               r == ends[k]
               d == Donated(p, r)
    <3>1. k \in 1..N /\ k - 1 \in 0..N /\ r \in Requests /\ r \in Range(ends)
      BY <1>1, <2>2, <2>4
    <3>2. Ok(k - 1)
      <4> HIDE DEF Ok
      <4> QED
        BY <2>2, <3>1
    <3>3. Sound(p)
      BY <3>2
    <3>4. p.length[r] \div conf.block <= Len(p.table[r])
      <4>1. CASE r \in Done(k - 1)
        <5>1. p.length[r] = 0 /\ Len(p.table[r]) = 0
          BY <3>2, <4>1
        <5>2. 0 \div conf.block = 0
          <6>1. conf.block \in Nat \ {0}
            BY ConfTypes
          <6> QED
            BY <6>1
        <5> QED
          BY <5>1, <5>2
      <4>2. CASE r \notin Done(k - 1)
        BY <3>1, <3>2, <4>2
      <4> QED
        BY <4>1, <4>2
    <3> HIDE DEF p, r
    <3>5. Sound(d) /\ d.table = p.table /\ d.length = p.length
      BY <3>1, <3>3, <3>4, DonatedKeeps
    <3>6. after[k] = Freed(d, {r})
      BY <1>4, <3>1 DEF p, r
    <3> HIDE DEF d
    <3>7. /\ Sound(after[k])
          /\ \A q \in Requests : q \in {r} => after[k].table[q] = <<>> /\ after[k].length[q] = 0
          /\ \A q \in Requests : q \notin {r} => after[k].table[q] = d.table[q] /\ after[k].length[q] = d.length[q]
      <4>1. Shaped(d)
        BY <3>5 DEF Sound
      <4> QED
        BY <3>5, <3>6, <4>1, FreedKeeps
    <3>8. Done(k) = Done(k - 1) \cup {r}
      <4>1. 1..k = (1..(k - 1)) \cup {k}
        BY <3>1
      <4> QED
        BY <4>1 DEF r
    <3>9. Done(k - 1) \subseteq Requests
      BY <1>1, <3>1
    <3>10. /\ \A q \in Done(k - 1) : p.table[q] = <<>> /\ p.length[q] = 0
           /\ \A q \in Requests \ Done(k - 1) : p.table[q] = m.table[q] /\ p.length[q] = m.length[q]
      BY <3>2 DEF p
    <3>11. Ok(k)
      <4>1. \A q \in Done(k - 1) \cup {r} : after[k].table[q] = <<>> /\ after[k].length[q] = 0
        <5> HIDE DEF Done
        <5> QED
          BY <3>1, <3>5, <3>7, <3>9, <3>10
      <4>2. \A q \in Requests \ (Done(k - 1) \cup {r}) :
              after[k].table[q] = m.table[q] /\ after[k].length[q] = m.length[q]
        <5> HIDE DEF Done
        <5> QED
          BY <3>5, <3>7, <3>10
      <4> QED
        BY <3>7, <3>8, <4>1, <4>2
    <3> QED
      BY <2>2, <3>11
  <2> QED
    BY <2>3, <2>4
<1>6. Ok(N)
  BY <1>1, <1>5
<1>7. Done(N) = Range(ends)
  BY <1>1 DEF Range
<1>8. \A q \in Range(ends) : after[N].table[q] = <<>> /\ after[N].length[q] = 0 /\ ExactIn(after[N], q)
  <2>1. Positions(0) = 0 /\ Len(<<>>) = 0
    BY PositionsOfNone
  <2> QED
    BY <1>6, <1>7, <2>1 DEF ExactIn
<1>9. \A q \in Requests \ Range(ends) :
        /\ after[N].table[q] = m.table[q] /\ after[N].length[q] = m.length[q]
        /\ ExactIn(m, q) => ExactIn(after[N], q)
  BY <1>6, <1>7 DEF ExactIn
<1> QED
  BY <1>3, <1>6, <1>8, <1>9 DEF N

(* What the requests of D still append finds its blocks: each within its   *)
(* share of the pool, or their demands together within what is free.       *)
Covers(m, D, count, share) ==
  /\ SumOver(share, Requests) <= conf.pool
  /\ \A q \in Requests : share[q] \in Nat /\ Len(m.table[q]) <= share[q]
  /\ \A q \in D : Positions(m.length[q] + count[q]) <= share[q]

Demands(m, D, count) ==
  SumOver([q \in Requests |-> BlocksToGrow(m, q, count[q])], D) <= Cardinality(Free(m))

Funded(m, D, count, share) == Covers(m, D, count, share) \/ Demands(m, D, count)

LEMMA FundedNow ==
  ASSUME Built, NEW m, Sound(m), Exact(m), NEW count, \A q \in Requests : count[q] \in Nat,
         NEW share, NEW D \in SUBSET Requests, Funded(m, D, count, share), NEW r \in D
  PROVE  BlocksToGrow(m, r, count[r]) <= Cardinality(Free(Forget(m, Len(m.cache))))
<1> DEFINE f == [q \in Requests |-> BlocksToGrow(m, q, count[q])]
<1>1. Shaped(m) /\ IsFiniteSet(D) /\ r \in Requests /\ count[r] \in Nat
  BY EngineAssumption, FS_Subset DEF Sound
<1>2. CASE Covers(m, D, count, share)
  BY <1>1, <1>2, RoomForShare DEF Covers
<1>3. CASE Demands(m, D, count)
  <2>1. \A q \in Requests : f[q] \in Nat
    BY <1>1, GrowthIs DEF Exact
  <2>2. \A q \in D : f[q] \in Nat
    BY <2>1
  <2>3. SumOver(f, D) <= Cardinality(Free(m))
    BY <1>3 DEF Demands
  <2>4. f[r] = BlocksToGrow(m, r, count[r])
    BY <1>1
  <2> HIDE DEF f
  <2>5. SumOver(f, D) = f[r] + SumOver(f, D \ {r})
    BY <1>1, <2>2, SumSplits
  <2>6. SumOver(f, D \ {r}) \in Nat /\ f[r] \in Nat
    <3>1. SumOver(f, D \ {r}) \in Nat
      BY <1>1, <2>2, SumIsNat
    <3> QED
      BY <2>2, <3>1
  <2>7. Len(m.cache) \in 0..Len(m.cache)
    BY <1>1, Shapes
  <2>8. Cardinality(Free(m)) <= Cardinality(Free(Forget(m, Len(m.cache))))
    BY <1>1, <2>7, Forgotten
  <2>9. Cardinality(Free(m)) \in Nat /\ Cardinality(Free(Forget(m, Len(m.cache)))) \in Nat
    BY FreeCounts
  <2> QED
    BY <2>3, <2>4, <2>5, <2>6, <2>8, <2>9
<1> QED
  BY <1>2, <1>3 DEF Funded

LEMMA FundedNext ==
  ASSUME Built, NEW m, Sound(m), Exact(m), NEW count, \A q \in Requests : count[q] \in Nat,
         NEW share, NEW D \in SUBSET Requests, Funded(m, D, count, share), NEW r \in D,
         NEW a, Grown(m, a, r, count[r])
  PROVE  Funded(a, D \ {r}, count, share)
<1>1. /\ Shaped(m) /\ Shaped(a) /\ IsFiniteSet(Requests) /\ IsFiniteSet(D)
      /\ r \in Requests /\ count[r] \in Nat
  BY EngineAssumption, FS_Subset DEF Sound, Grown
<1>2. /\ a.length[r] = m.length[r] + count[r] /\ ExactIn(a, r)
      /\ \A q \in Requests \ {r} : a.length[q] = m.length[q] /\ a.table[q] = m.table[q]
  BY <1>1, GrownSound DEF Exact
<1>3. CASE Covers(m, D, count, share)
  <2>1. \A q \in Requests : share[q] \in Nat /\ Len(a.table[q]) <= share[q]
    <3> SUFFICES ASSUME NEW q \in Requests PROVE share[q] \in Nat /\ Len(a.table[q]) <= share[q]
      OBVIOUS
    <3>1. CASE q = r
      BY <1>1, <1>2, <1>3, <3>1 DEF Covers, ExactIn
    <3>2. CASE q # r
      BY <1>2, <1>3, <3>2 DEF Covers
    <3> QED
      BY <3>1, <3>2
  <2>2. \A q \in D \ {r} : Positions(a.length[q] + count[q]) <= share[q]
    BY <1>2, <1>3 DEF Covers
  <2> QED
    BY <1>3, <2>1, <2>2 DEF Covers, Funded
<1>4. CASE Demands(m, D, count)
  <2> DEFINE f == [q \in Requests |-> BlocksToGrow(m, q, count[q])]
             g == [q \in Requests |-> BlocksToGrow(a, q, count[q])]
             E == D \ {r}
  <2>1. \A q \in E : f[q] \in Nat /\ g[q] \in Nat /\ g[q] <= f[q]
    <3> SUFFICES ASSUME NEW q \in E PROVE f[q] \in Nat /\ g[q] \in Nat /\ g[q] <= f[q]
      OBVIOUS
    <3>1. q \in Requests /\ q # r /\ count[q] \in Nat /\ ExactIn(m, q) /\ ExactIn(a, q)
      BY <1>2 DEF Exact, ExactIn
    <3>2. f[q] = BlocksToGrow(m, q, count[q]) /\ g[q] = BlocksToGrow(a, q, count[q])
      BY <3>1
    <3>3. BlocksToGrow(m, q, count[q]) \in Nat /\ BlocksToGrow(a, q, count[q]) \in Nat
      <4>1. BlocksToGrow(m, q, count[q]) \in Nat
        BY <1>1, <3>1, GrowthIs
      <4>2. BlocksToGrow(a, q, count[q]) \in Nat
        BY <1>1, <3>1, GrowthIs
      <4> QED
        BY <4>1, <4>2
    <3>4. \A p \in Requests : \A b \in Range(m.table[q]) :
            b \in Range(a.table[p]) => b \in Range(m.table[p])
      BY <1>1, <3>1, GrownSpares
    <3>5. \A b : Cached(a, b) => Cached(m, b)
      BY DEF Grown
    <3>6. a.table[q] = m.table[q] /\ a.length[q] = m.length[q]
      BY <1>2, <3>1
    <3>7. BlocksToGrow(a, q, count[q]) <= BlocksToGrow(m, q, count[q])
      BY <1>1, <3>1, <3>4, <3>5, <3>6, DemandShrinks
    <3> QED
      BY <3>2, <3>3, <3>7
  <2>2. f[r] \in Nat /\ f[r] = BlocksToGrow(m, r, count[r])
    BY <1>1, GrowthIs DEF Exact
  <2>3. SumOver(f, D) <= Cardinality(Free(m))
    BY <1>4 DEF Demands
  <2>4. Cardinality(Free(m)) <= Cardinality(Free(a)) + f[r]
    BY <1>1, <2>2 DEF Grown
  <2> HIDE DEF f, g
  <2>5. \A q \in D : f[q] \in Nat
    BY <2>1, <2>2
  <2>6. SumOver(f, D) = f[r] + SumOver(f, E)
    BY <1>1, <2>5, SumSplits
  <2>7. SumOver(g, E) <= SumOver(f, E)
    <3>1. IsFiniteSet(E)
      BY <1>1, FS_Subset
    <3> HIDE DEF E
    <3> QED
      BY <2>1, <3>1, SumBounds
  <2>8. SumOver(f, E) \in Nat /\ SumOver(g, E) \in Nat
    <3>1. IsFiniteSet(E)
      BY <1>1, FS_Subset
    <3> HIDE DEF E
    <3>2. SumOver(f, E) \in Nat
      BY <2>1, <3>1, SumSplits
    <3>3. SumOver(g, E) \in Nat
      BY <2>1, <3>1, SumSplits
    <3> QED
      BY <3>2, <3>3
  <2>9. Cardinality(Free(m)) \in Nat /\ Cardinality(Free(a)) \in Nat
    BY FreeCounts
  <2>10. SumOver(g, E) <= Cardinality(Free(a))
    BY <2>2, <2>3, <2>4, <2>6, <2>7, <2>8, <2>9
  <2> QED
    BY <2>10 DEF Funded, Demands, g
<1> QED
  BY <1>3, <1>4 DEF Funded

Appends(m, rs, count, n, f) ==
  f = [k \in 0..n |-> IF k = 0 THEN m ELSE Appended(f[k - 1], rs[k], count[rs[k]])]

LEMMA AppendsExist ==
  ASSUME NEW m, NEW rs, NEW count, NEW n \in Nat
  PROVE  \E f : Appends(m, rs, count, n, f)
<1> DEFINE Bad == {i \in Nat : ~\E f : Appends(m, rs, count, i, f)}
<1>1. SUFFICES Bad = {}
  OBVIOUS
<1>2. SUFFICES ASSUME Bad # {} PROVE FALSE
  OBVIOUS
<1>3. PICK i \in Bad : \A j \in Bad : i <= j
  BY <1>2, LeastOf
<1>4. CASE i = 0
  <2> DEFINE f == [k \in 0..0 |-> m]
  <2>1. Appends(m, rs, count, 0, f)
    BY DEF Appends
  <2> QED
    BY <1>3, <1>4, <2>1
<1>5. CASE i # 0
  <2>1. i - 1 \in Nat /\ i - 1 \notin Bad
    BY <1>3, <1>5
  <2>2. PICK f : Appends(m, rs, count, i - 1, f)
    BY <2>1
  <2> DEFINE Step(k) == IF k = 0 THEN m ELSE Appended(f[k - 1], rs[k], count[rs[k]])
             g == [k \in 0..i |-> IF k = 0 THEN m ELSE Appended(f[k - 1], rs[k], count[rs[k]])]
  <2>3. \A k \in 0..(i - 1) : g[k] = f[k]
    <3>1. f = [k \in 0..(i - 1) |-> Step(k)]
      BY <2>2 DEF Appends
    <3>2. \A k \in 0..(i - 1) : k \in 0..i
      BY <2>1
    <3> HIDE DEF Step
    <3>3. \A k \in 0..(i - 1) : f[k] = Step(k)
      BY <3>1
    <3>4. \A k \in 0..i : g[k] = Step(k)
      BY DEF Step
    <3> QED
      BY <3>2, <3>3, <3>4
  <2>4. \A k \in 0..i : k # 0 => g[k - 1] = f[k - 1]
    <3>1. \A k \in 0..i : k # 0 => k - 1 \in 0..(i - 1)
      BY <2>1
    <3> HIDE DEF g
    <3> QED
      BY <2>3, <3>1
  <2>5. Appends(m, rs, count, i, g)
    BY <2>4 DEF Appends
  <2> QED
    BY <1>3, <2>5
<1> QED
  BY <1>4, <1>5

(* A funded list of appends never finds the pool dry. *)
LEMMA AppendEachKeeps ==
  ASSUME Built, NEW m, Sound(m), Exact(m), NEW rs \in Seq(Requests), IsInjective(rs),
         NEW count, \A q \in Requests : count[q] \in Nat, NEW share,
         Funded(m, Range(rs), count, share)
  PROVE  LET a == AppendEach(m, rs, count) IN
         /\ Sound(a) /\ Exact(a)
         /\ \A q \in Range(rs) : a.length[q] = m.length[q] + count[q]
         /\ \A q \in Requests \ Range(rs) : a.length[q] = m.length[q] /\ a.table[q] = m.table[q]
<1> DEFINE N == Len(rs)
           after == CHOOSE f : Appends(m, rs, count, N, f)
           Rest(k) == {rs[j] : j \in (k + 1)..N}
           Ok(k) == /\ Sound(after[k]) /\ Exact(after[k])
                    /\ \A j \in 1..N : j <= k => after[k].length[rs[j]] = m.length[rs[j]] + count[rs[j]]
                    /\ \A j \in 1..N : j > k => after[k].length[rs[j]] = m.length[rs[j]]
                    /\ \A q \in Requests \ Range(rs) :
                         after[k].length[q] = m.length[q] /\ after[k].table[q] = m.table[q]
                    /\ Funded(after[k], Rest(k), count, share)
           Bad == {k \in 0..N : ~Ok(k)}
<1>1. /\ N \in Nat /\ DOMAIN rs = 1..N /\ \A j \in 1..N : rs[j] \in Requests /\ rs[j] \in Range(rs)
      /\ \A i, j \in 1..N : rs[i] = rs[j] => i = j
  BY DEF Range, IsInjective
<1>2. Appends(m, rs, count, N, after)
  BY <1>1, AppendsExist
<1>3. AppendEach(m, rs, count) = after[N]
  BY DEF AppendEach, Appends
<1> HIDE DEF after
<1>4. after[0] = m /\ \A k \in 1..N : after[k] = Appended(after[k - 1], rs[k], count[rs[k]])
  <2>1. after = [k \in 0..N |-> IF k = 0 THEN m ELSE Appended(after[k - 1], rs[k], count[rs[k]])]
    BY <1>2 DEF Appends
  <2> HIDE DEF N
  <2>2. 0 \in 0..N /\ \A k \in 1..N : k \in 0..N /\ k # 0
    BY <1>1
  <2> QED
    BY <2>1, <2>2
<1>5. \A q \in Range(rs) : \E j \in 1..N : q = rs[j]
  BY <1>1 DEF Range
<1> HIDE DEF N
<1>6. Bad = {}
  <2>1. SUFFICES ASSUME Bad # {} PROVE FALSE
    OBVIOUS
  <2>2. PICK k \in Bad : \A j \in Bad : k <= j
    <3>1. Bad \in SUBSET Nat
      OBVIOUS
    <3> HIDE DEF Bad
    <3> QED
      BY <2>1, <3>1, LeastOf
  <2>3. CASE k = 0
    <3>1. Rest(0) = Range(rs)
      BY <1>1, <1>5
    <3> HIDE DEF Rest
    <3>2. \A j \in 1..N : ~(j <= 0)
      BY <1>1
    <3>3. Funded(after[0], Rest(0), count, share)
      BY <1>4, <3>1
    <3>4. Ok(0)
      BY <1>1, <1>4, <3>2, <3>3
    <3> QED
      BY <2>2, <2>3, <3>4
  <2>4. CASE k # 0
    <3> DEFINE p == after[k - 1]
               a == after[k]
               r == rs[k]
    <3>1. k \in 1..N /\ k - 1 \in 0..N /\ r \in Requests /\ r \in Range(rs) /\ count[r] \in Nat
      BY <1>1, <2>2, <2>4
    <3>2. Ok(k - 1)
      <4> HIDE DEF Ok
      <4> QED
        BY <2>2, <3>1
    <3>3. Rest(k - 1) \in SUBSET Requests /\ r \in Rest(k - 1) /\ Rest(k - 1) \ {r} = Rest(k)
      <4>1. ((k - 1) + 1)..N = {k} \cup ((k + 1)..N) /\ k \notin (k + 1)..N /\ (k + 1)..N \subseteq 1..N
        BY <1>1, <3>1
      <4> QED
        BY <1>1, <3>1, <4>1
    <3>4. Sound(p) /\ Exact(p) /\ Funded(p, Rest(k - 1), count, share)
      BY <3>2
    <3>5. a = Appended(p, r, count[r])
      BY <1>4, <3>1
    <3>6. /\ \A j \in 1..N : j <= k - 1 => p.length[rs[j]] = m.length[rs[j]] + count[rs[j]]
          /\ \A j \in 1..N : j > k - 1 => p.length[rs[j]] = m.length[rs[j]]
          /\ \A q \in Requests \ Range(rs) : p.length[q] = m.length[q] /\ p.table[q] = m.table[q]
      BY <3>2
    <3> HIDE DEF p, a, Rest
    <3>7. BlocksToGrow(p, r, count[r]) <= Cardinality(Free(Forget(p, Len(p.cache))))
      BY <3>3, <3>4, FundedNow
    <3>8. Grown(p, a, r, count[r])
      BY <3>1, <3>4, <3>5, <3>7, AppendedGrows DEF Exact
    <3>9. /\ Sound(a) /\ Exact(a)
          /\ a.length[r] = p.length[r] + count[r]
          /\ \A q \in Requests \ {r} : a.length[q] = p.length[q] /\ a.table[q] = p.table[q]
      BY <3>1, <3>4, <3>8, GrownSound DEF Exact
    <3>10. Funded(a, Rest(k), count, share)
      <4> DEFINE D == Rest(k - 1)
      <4>1. D \in SUBSET Requests /\ r \in D /\ D \ {r} = Rest(k) /\ Funded(p, D, count, share)
        BY <3>3, <3>4
      <4> HIDE DEF D, r
      <4>2. Funded(a, D \ {r}, count, share)
        BY <3>4, <3>8, <4>1, FundedNext
      <4> QED
        BY <4>1, <4>2
    <3>11. \A j \in 1..N : j # k => rs[j] # r
      BY <1>1, <3>1
    <3>12. \A j \in 1..N : j <= k => a.length[rs[j]] = m.length[rs[j]] + count[rs[j]]
      <4> SUFFICES ASSUME NEW j \in 1..N, j <= k
                   PROVE  a.length[rs[j]] = m.length[rs[j]] + count[rs[j]]
        OBVIOUS
      <4>1. CASE j = k
        <5>1. p.length[r] = m.length[r]
          BY <1>1, <3>1, <3>6
        <5> QED
          BY <3>9, <4>1, <5>1
      <4>2. CASE j # k
        <5>1. j <= k - 1
          BY <1>1, <3>1, <4>2
        <5> QED
          BY <1>1, <3>6, <3>9, <3>11, <4>2, <5>1
      <4> QED
        BY <4>1, <4>2
    <3>13. \A j \in 1..N : j > k => a.length[rs[j]] = m.length[rs[j]]
      <4> SUFFICES ASSUME NEW j \in 1..N, j > k PROVE a.length[rs[j]] = m.length[rs[j]]
        OBVIOUS
      <4>1. j > k - 1 /\ j # k
        BY <1>1, <3>1
      <4> QED
        BY <1>1, <3>6, <3>9, <3>11, <4>1
    <3>14. \A q \in Requests \ Range(rs) : a.length[q] = m.length[q] /\ a.table[q] = m.table[q]
      BY <3>1, <3>6, <3>9
    <3>15. Ok(k)
      BY <3>9, <3>10, <3>12, <3>13, <3>14 DEF a
    <3> QED
      BY <2>2, <3>15
  <2> QED
    BY <2>3, <2>4
<1>7. Ok(N)
  <2>1. N \in 0..N
    BY <1>1
  <2> HIDE DEF Ok
  <2> QED
    BY <1>6, <2>1
<1>8. \A q \in Range(rs) : after[N].length[q] = m.length[q] + count[q]
  BY <1>1, <1>5, <1>7
<1> QED
  BY <1>3, <1>7, <1>8

-----------------------------------------------------------------------------
(* The inductive invariant *)

Phases == {"between", "admit", "resume", "lookup", "many", "prefill", "room", "decode", "dead"}

Alike ==
  SamePrompts => \A r, q \in Requests :
    ask[r].group = ask[q].group /\ ask[r].group # 0 =>
      ask[r].prompt = ask[q].prompt /\ ask[r].text = ask[q].text

Typed ==
  /\ conf \in Engines /\ ask \in conf.asks /\ Alike
  /\ known \in Seq(Requests) /\ waiting \in Seq(Requests) /\ running \in Seq(Requests)
  /\ committed \in Nat /\ budget \in [Requests -> Nat]
  /\ prefilled \in [Requests -> BOOLEAN] /\ generated \in [Requests -> Nat]
  /\ finished \in [Requests -> BOOLEAN]
  /\ phase \in Phases /\ room \in Nat
  /\ visiting \in Seq(Requests) /\ prefilling \in Seq(Requests) /\ decoding \in Seq(Requests)

(* Who is in a queue is known, has tokens left to generate and would fit   *)
(* an empty pool.                                                          *)
Queued ==
  /\ IsInjective(waiting) /\ IsInjective(running)
  /\ Range(waiting) \cap Range(running) = {}
  /\ \A r \in Live : /\ r \in Range(known) /\ finished[r] = FALSE
                     /\ generated[r] < ask[r].new /\ MaxBlocksFor(r) <= conf.pool
  /\ \A r \in Requests : r \notin Range(known) => generated[r] = 0 /\ finished[r] = FALSE

(* The budgets of the running requests add up to what is committed, and a  *)
(* request that does not run holds nothing.                                *)
Promised ==
  /\ committed = SumOver(budget, Requests)
  /\ \A r \in Requests : r \notin Range(running) =>
       mem.table[r] = <<>> /\ mem.length[r] = 0 /\ prefilled[r] = FALSE /\ budget[r] = 0
  /\ ~conf.preemption => /\ committed <= conf.pool
                         /\ \A r \in Range(running) : budget[r] = MaxBlocksFor(r)

(* A table never runs ahead of the sequence, and when its request may      *)
(* decode it is level with it.                                             *)
Progress ==
  \A r \in Requests :
    /\ mem.length[r] <= Sequence(r)
    /\ prefilled[r] => generated[r] > 0 /\ mem.length[r] = Sequence(r)
    /\ conf.chunk = 0 /\ conf.entries = 0 /\ ~prefilled[r] => mem.length[r] = 0

(* Evicted requests that were admitted again and have to be rebuilt, and   *)
(* requests that have not generated anything.                              *)
Resuming  == {r \in Range(running) : ~prefilled[r] /\ generated[r] > 0}
Unstarted == {r \in Range(running) : ~prefilled[r] /\ generated[r] = 0}

(* What a request to be rebuilt still needs of its footprint. *)
Missing == [r \in Requests |-> Footprint(r) - Len(mem.table[r])]

(* Admission counted the footprint of each request it admits, so that the  *)
(* recomputes of the same pass find their blocks: none of them evicts, and *)
(* the list of requests to resume does not change under the loop.          *)
Resumes ==
  /\ phase \notin {"admit", "resume", "dead"} => Resuming = {}
  /\ phase = "resume" => IsInjective(visiting) /\ Range(visiting) = Resuming
  /\ conf.preemption /\ phase \in {"admit", "resume"} =>
       /\ SumOver(Missing, Resuming) + room <= Cardinality(Free(mem))
       /\ \A r \in Resuming : \A q \in Requests \ {r} :
            Range(mem.table[r]) \cap Range(mem.table[q]) = {}

SameGroup(r, q) == ask[r].group # 0 /\ ask[q].group = ask[r].group

(* The requests on the prefill list that still run have no token yet, a    *)
(* whole group is on it or none of it, and at most one of a group holds    *)
(* blocks.                                                                 *)
Prefills ==
  /\ phase \in {"resume", "lookup", "many", "prefill"} =>
       /\ IsInjective(prefilling)
       /\ Range(prefilling) \cap Range(running) \subseteq Unstarted
       /\ ~conf.preemption => Range(prefilling) \subseteq Range(running)
       /\ \A r \in Range(prefilling) \cap Range(running), q \in Unstarted :
            SameGroup(r, q) => q \in Range(prefilling)
  /\ phase = "lookup" =>
       /\ ~conf.preemption /\ IsInjective(visiting) /\ Range(visiting) \subseteq Range(prefilling)
       /\ \A r \in Range(visiting) : ask[r].group = 0
  /\ phase = "many" => CanPrefillMany
  /\ \A r, q \in Unstarted : r # q /\ SameGroup(r, q) => mem.table[r] = <<>> \/ mem.table[q] = <<>>

(* The requests on the decode list may decode, except that with preemption *)
(* some were evicted before the room for the batch was made.               *)
Decodes ==
  /\ phase \in {"resume", "lookup", "many", "prefill", "room", "decode"} =>
       /\ IsInjective(decoding)
       /\ ~conf.preemption \/ phase = "decode" => \A r \in Range(decoding) : prefilled[r]
  /\ phase = "room" => conf.preemption
  /\ conf.preemption /\ phase = "decode" => Demand(decoding) <= Cardinality(Free(mem))

Alive == SamePrompts => phase # "dead"

IInv ==
  /\ Typed /\ Sound(mem) /\ Exact(mem) /\ Queued /\ Promised /\ Progress
  /\ Resumes /\ Prefills /\ Decodes /\ Alive

-----------------------------------------------------------------------------
(* Queues *)

LEMMA QueueAppend ==
  ASSUME NEW S, NEW s \in Seq(S), NEW x \in S
  PROVE  /\ Append(s, x) \in Seq(S) /\ Range(Append(s, x)) = Range(s) \cup {x}
         /\ IsInjective(s) /\ x \notin Range(s) => IsInjective(Append(s, x))
<1>1. /\ Append(s, x) \in Seq(S) /\ Len(Append(s, x)) = Len(s) + 1 /\ Len(s) \in Nat
      /\ DOMAIN s = 1..Len(s) /\ DOMAIN Append(s, x) = 1..(Len(s) + 1)
      /\ \A i \in 1..Len(s) : Append(s, x)[i] = s[i]
      /\ Append(s, x)[Len(s) + 1] = x
  OBVIOUS
<1> DEFINE t == Append(s, x)
<1> HIDE DEF t
<1>2. \A i \in DOMAIN t : i \in DOMAIN s \/ i = Len(s) + 1
  BY <1>1 DEF t
<1>3. Range(t) = Range(s) \cup {x}
  <2>1. \A i \in DOMAIN s : i \in DOMAIN t /\ t[i] = s[i]
    BY <1>1 DEF t
  <2>2. Len(s) + 1 \in DOMAIN t /\ t[Len(s) + 1] = x
    BY <1>1 DEF t
  <2> QED
    BY <1>2, <2>1, <2>2 DEF Range
<1>4. IsInjective(s) /\ x \notin Range(s) => IsInjective(t)
  BY <1>1, <1>2 DEF IsInjective, Range, t
<1> QED
  BY <1>1, <1>3, <1>4 DEF t

LEMMA QueuePrepend ==
  ASSUME NEW S, NEW s \in Seq(S), NEW x \in S
  PROVE  /\ <<x>> \o s \in Seq(S) /\ Range(<<x>> \o s) = Range(s) \cup {x}
         /\ IsInjective(s) /\ x \notin Range(s) => IsInjective(<<x>> \o s)
<1> DEFINE t == <<x>> \o s
<1>1. /\ t \in Seq(S) /\ Len(s) \in Nat /\ DOMAIN s = 1..Len(s) /\ DOMAIN t = 1..(Len(s) + 1)
      /\ t[1] = x /\ \A i \in 2..(Len(s) + 1) : t[i] = s[i - 1]
  OBVIOUS
<1> HIDE DEF t
<1>2. \A i \in DOMAIN t : i = 1 \/ (i - 1 \in DOMAIN s /\ t[i] = s[i - 1])
  BY <1>1
<1>3. \A i \in DOMAIN s : i + 1 \in DOMAIN t /\ t[i + 1] = s[i]
  BY <1>1
<1>4. Range(t) = Range(s) \cup {x}
  <2>1. 1 \in DOMAIN t /\ t[1] = x
    BY <1>1
  <2> QED
    BY <1>2, <1>3, <2>1 DEF Range
<1>5. IsInjective(s) /\ x \notin Range(s) => IsInjective(t)
  <2> SUFFICES ASSUME IsInjective(s), x \notin Range(s), NEW i \in DOMAIN t, NEW j \in DOMAIN t, t[i] = t[j]
               PROVE  i = j
    BY DEF IsInjective
  <2>1. i = 1 => j = 1
    BY <1>1, <1>2 DEF Range
  <2>2. j = 1 => i = 1
    BY <1>1, <1>2 DEF Range
  <2>3. i # 1 /\ j # 1 => i - 1 = j - 1
    BY <1>2 DEF IsInjective
  <2>4. i \in Nat /\ j \in Nat
    BY <1>1
  <2> QED
    BY <2>1, <2>2, <2>3, <2>4
<1> QED
  BY <1>1, <1>4, <1>5 DEF t

LEMMA QueueTail ==
  ASSUME NEW S, NEW s \in Seq(S), s # <<>>
  PROVE  /\ Head(s) \in Range(s) /\ Head(s) \in S
         /\ Tail(s) \in Seq(S) /\ Range(Tail(s)) \subseteq Range(s)
         /\ \A x \in Range(s) : x = Head(s) \/ x \in Range(Tail(s))
         /\ IsInjective(s) => IsInjective(Tail(s)) /\ Range(Tail(s)) = Range(s) \ {Head(s)}
<1> DEFINE t == Tail(s)
<1>1. /\ t \in Seq(S) /\ Len(s) \in Nat \ {0} /\ DOMAIN s = 1..Len(s) /\ DOMAIN t = 1..(Len(s) - 1)
      /\ Head(s) = s[1] /\ Head(s) \in S /\ \A i \in 1..(Len(s) - 1) : t[i] = s[i + 1]
  OBVIOUS
<1> HIDE DEF t
<1>2. 1 \in DOMAIN s
  BY <1>1
<1>3. \A i \in DOMAIN t : i + 1 \in DOMAIN s /\ t[i] = s[i + 1] /\ i + 1 # 1 /\ i \in Nat
  BY <1>1
<1>4. \A i \in DOMAIN s : i = 1 \/ (i - 1 \in DOMAIN t /\ t[i - 1] = s[i])
  BY <1>1
<1>5. Range(t) \subseteq Range(s)
  BY <1>3 DEF Range
<1>6. \A x \in Range(s) : x = Head(s) \/ x \in Range(t)
  BY <1>1, <1>4 DEF Range
<1>7. ASSUME IsInjective(s) PROVE IsInjective(t) /\ Head(s) \notin Range(t)
  <2>1. Head(s) \notin Range(t)
    BY <1>1, <1>2, <1>3, <1>7 DEF Range, IsInjective
  <2>2. ASSUME NEW i \in DOMAIN t, NEW j \in DOMAIN t, t[i] = t[j] PROVE i = j
    <3>1. i + 1 = j + 1
      BY <1>3, <1>7, <2>2 DEF IsInjective
    <3> QED
      BY <1>3, <3>1
  <2> QED
    BY <2>1, <2>2 DEF IsInjective
<1>8. Head(s) \in Range(s)
  BY <1>1, <1>2 DEF Range
<1> QED
  BY <1>1, <1>5, <1>6, <1>7, <1>8 DEF t

LEMMA ThoseExact ==
  ASSUME NEW s \in Seq(Requests), NEW S
  PROVE  /\ Those(s, S) \in Seq(Requests) /\ Range(Those(s, S)) = Range(s) \cap S
         /\ IsInjective(s) => IsInjective(Those(s, S))
<1>1. Range(s) \subseteq Requests
  BY RangeBounds
<1>2. /\ Those(s, S) \in Seq(Requests)
      /\ \A x : x \in Range(Those(s, S)) <=> x \in Range(s) /\ x \notin Requests \ S
      /\ IsInjective(s) => IsInjective(Those(s, S))
  BY WithoutExact DEF Those
<1>3. Range(Those(s, S)) = Range(s) \cap S
  BY <1>1, <1>2
<1> QED
  BY <1>2, <1>3

LEMMA WithoutQueue ==
  ASSUME NEW s \in Seq(Requests), NEW D
  PROVE  /\ Without(s, D) \in Seq(Requests) /\ Range(Without(s, D)) = Range(s) \ D
         /\ IsInjective(s) => IsInjective(Without(s, D))
<1>1. /\ Without(s, D) \in Seq(Requests)
      /\ \A x : x \in Range(Without(s, D)) <=> x \in Range(s) /\ x \notin D
      /\ IsInjective(s) => IsInjective(Without(s, D))
  BY WithoutExact
<1> QED
  BY <1>1

LEMMA QueueRange ==
  ASSUME NEW s \in Seq(Requests)
  PROVE  /\ Range(s) \subseteq Requests /\ Range(s) \in SUBSET Requests
         /\ s = <<>> <=> Range(s) = {}
         /\ IsFiniteSet(Range(s))
<1>1. Range(s) \subseteq Requests /\ IsFiniteSet(Range(s))
  BY RangeBounds
<1>2. s = <<>> => Range(s) = {}
  BY DEF Range
<1>3. s # <<>> => Head(s) \in Range(s)
  BY QueueTail
<1> QED
  BY <1>1, <1>2, <1>3

LEMMA QueueJoin ==
  ASSUME NEW S, NEW s \in Seq(S), NEW t \in Seq(S), IsInjective(s), IsInjective(t),
         Range(s) \cap Range(t) = {}
  PROVE  IsInjective(s \o t)
<1> DEFINE u == s \o t
           n == Len(s)
<1>1. /\ n \in Nat /\ Len(t) \in Nat /\ DOMAIN s = 1..n /\ DOMAIN t = 1..Len(t)
      /\ DOMAIN u = 1..(n + Len(t))
      /\ \A i \in 1..n : u[i] = s[i]
      /\ \A i \in (n + 1)..(n + Len(t)) : u[i] = t[i - n]
  OBVIOUS
<1> HIDE DEF u, n
<1>2. ASSUME NEW i \in DOMAIN u PROVE \/ i \in DOMAIN s /\ u[i] = s[i]
                                      \/ i - n \in DOMAIN t /\ u[i] = t[i - n] /\ i \in Int
  BY <1>1
<1>3. ASSUME NEW i \in DOMAIN u, NEW j \in DOMAIN u, u[i] = u[j] PROVE i = j
  <2>1. CASE i \in DOMAIN s /\ u[i] = s[i] /\ j \in DOMAIN s /\ u[j] = s[j]
    BY <1>3, <2>1 DEF IsInjective
  <2>2. CASE i \in DOMAIN s /\ u[i] = s[i] /\ j - n \in DOMAIN t /\ u[j] = t[j - n]
    BY <1>3, <2>2 DEF Range
  <2>3. CASE i - n \in DOMAIN t /\ u[i] = t[i - n] /\ j \in DOMAIN s /\ u[j] = s[j]
    BY <1>3, <2>3 DEF Range
  <2>4. CASE i - n \in DOMAIN t /\ u[i] = t[i - n] /\ j - n \in DOMAIN t /\ u[j] = t[j - n]
    <3>1. i - n = j - n
      BY <1>3, <2>4 DEF IsInjective
    <3> QED
      BY <1>1, <3>1
  <2> QED
    BY <1>2, <2>1, <2>2, <2>3, <2>4
<1> QED
  BY <1>3 DEF IsInjective, u

LEMMA NoQueue == <<>> \in Seq(Requests) /\ Range(<<>>) = {} /\ IsInjective(<<>>)
  BY DEF Range, IsInjective

-----------------------------------------------------------------------------
(* What requests ask for *)

LEMMA Amounts ==
  ASSUME Typed
  PROVE  \A r \in Requests :
           /\ ask[r] \in Asks /\ ask[r].prompt \in Nat \ {0} /\ ask[r].new \in Nat \ {0}
           /\ generated[r] \in Nat
           /\ Sequence(r) \in Nat /\ Sequence(r) <= ask[r].prompt + generated[r]
           /\ generated[r] > 0 => Sequence(r) = ask[r].prompt + generated[r] - 1
           /\ generated[r] = 0 => Sequence(r) = ask[r].prompt
           /\ Footprint(r) \in Nat /\ MaxBlocksFor(r) \in Nat
           /\ Positions(Sequence(r)) <= Footprint(r)
           /\ Remaining(r) = ask[r].new - generated[r]
           /\ generated[r] < ask[r].new => /\ Sequence(r) <= ask[r].prompt + ask[r].new - 1
                                           /\ Positions(Sequence(r)) <= MaxBlocksFor(r)
<1> SUFFICES ASSUME NEW r \in Requests
             PROVE  /\ ask[r] \in Asks /\ ask[r].prompt \in Nat \ {0} /\ ask[r].new \in Nat \ {0}
                    /\ generated[r] \in Nat
                    /\ Sequence(r) \in Nat /\ Sequence(r) <= ask[r].prompt + generated[r]
                    /\ generated[r] > 0 => Sequence(r) = ask[r].prompt + generated[r] - 1
                    /\ generated[r] = 0 => Sequence(r) = ask[r].prompt
                    /\ Footprint(r) \in Nat /\ MaxBlocksFor(r) \in Nat
                    /\ Positions(Sequence(r)) <= Footprint(r)
                    /\ Remaining(r) = ask[r].new - generated[r]
                    /\ generated[r] < ask[r].new => /\ Sequence(r) <= ask[r].prompt + ask[r].new - 1
                                                    /\ Positions(Sequence(r)) <= MaxBlocksFor(r)
  OBVIOUS
<1> DEFINE p == ask[r].prompt
           w == ask[r].new
           g == generated[r]
           s == Sequence(r)
<1>1. Built
  BY DEF Typed, Built
<1>2. ask[r] \in Asks /\ p \in Nat \ {0} /\ w \in Nat \ {0} /\ g \in Nat
  <2>1. ask \in [Requests -> Asks]
    BY <1>1, ConfTypes DEF Typed
  <2> QED
    BY <2>1 DEF Typed, Asks
<1>3. s = IF g > 0 THEN p + (g - 1) ELSE p + 0
  BY <1>2 DEF Sequence
<1> HIDE DEF p, w, g, s
<1>4. /\ s \in Nat /\ s <= p + g /\ (g > 0 => s = p + g - 1) /\ (g = 0 => s = p)
      /\ g < w => s <= p + w - 1
      /\ p + g \in Nat /\ p + w - 1 \in Nat
  BY <1>2, <1>3
<1>5. Positions(s) <= Positions(p + g) /\ Positions(p + g) \in Nat /\ Positions(p + w - 1) \in Nat
      /\ (g < w => Positions(s) <= Positions(p + w - 1))
  BY <1>1, <1>4, PositionsMono
<1>6. Footprint(r) = Positions(p + g) /\ MaxBlocksFor(r) = Positions(p + w - 1) /\ Remaining(r) = w - g
  BY DEF Footprint, MaxBlocksFor, Remaining, p, g, w
<1> QED
  BY <1>2, <1>4, <1>5, <1>6 DEF p, w, g, s

LEMMA DraftIs ==
  ASSUME Typed, NEW r \in Requests, generated[r] < ask[r].new
  PROVE  Draft(r) \in Nat /\ Draft(r) <= Remaining(r) - 1 /\ Remaining(r) \in Nat \ {0}
<1>1. conf.draft \in Nat
  BY ConfTypes DEF Typed, Built
<1>2. Remaining(r) \in Nat \ {0} /\ Remaining(r) - 1 \in Nat
  BY Amounts
<1>3. Min({conf.draft, Remaining(r) - 1}) \in Nat /\ Min({conf.draft, Remaining(r) - 1}) <= Remaining(r) - 1
  BY <1>1, <1>2, MinOfTwo
<1> QED
  BY <1>2, <1>3 DEF Draft

Draws == [r \in Requests |-> BlocksToGrow(mem, r, 1 + Draft(r))]

LEMMA DemandIsSum ==
  ASSUME NEW batch, Range(batch) \subseteq Requests
  PROVE  Demand(batch) = SumOver(Draws, Range(batch))
<1> DEFINE S == Range(batch)
           Here(it) == it = [s \in SUBSET S |->
             IF s = {} THEN 0 ELSE BlocksToGrow(mem, Pick(s), 1 + Draft(Pick(s))) + it[s \ {Pick(s)}]]
           Sums(it) == Unfolds(it, Draws, S)
<1>1. Demand(batch) = (CHOOSE it : Here(it))[S]
  BY DEF Demand, MapThenSumSet, MapThenFoldSet, Pick
<1>2. SumOver(Draws, S) = (CHOOSE it : Sums(it))[S]
  BY SumUnfolds DEF Partial
<1>3. ASSUME NEW it PROVE Here(it) <=> Sums(it)
  <2>1. \A s \in SUBSET S : s # {} => Pick(s) \in Requests
    BY DEF Pick
  <2>2. \A s \in SUBSET S :
          (IF s = {} THEN 0 ELSE BlocksToGrow(mem, Pick(s), 1 + Draft(Pick(s))) + it[s \ {Pick(s)}])
            = Adds(it, Draws, s)
    BY <2>1 DEF Adds, Draws
  <2>3. [s \in SUBSET S |->
           IF s = {} THEN 0 ELSE BlocksToGrow(mem, Pick(s), 1 + Draft(Pick(s))) + it[s \ {Pick(s)}]]
        = [s \in SUBSET S |-> Adds(it, Draws, s)]
    BY <2>2
  <2> QED
    BY <2>3 DEF Unfolds
<1> HIDE DEF Here, Sums
<1>4. (CHOOSE it : Here(it)) = (CHOOSE it : Sums(it))
  BY <1>3, Zenon
<1> QED
  BY <1>1, <1>2, <1>4

-----------------------------------------------------------------------------
(* What covers an append *)

(* In reserve mode no table outgrows what its request was promised. *)
LEMMA WithinBudget ==
  ASSUME IInv, ~conf.preemption
  PROVE  \A q \in Requests : Len(mem.table[q]) <= budget[q]
<1>1. Built /\ Shaped(mem) /\ Range(running) \subseteq Requests
  BY QueueRange DEF IInv, Typed, Built, Sound
<1>3. \A q \in Requests : mem.length[q] \in Nat /\ mem.table[q] \in Seq(Blocks)
  BY <1>1, Shapes
<1>4. \A q \in Requests : budget[q] \in Nat
  BY DEF IInv, Typed
<1>5. \A q \in Range(running) : generated[q] < ask[q].new /\ budget[q] = MaxBlocksFor(q)
  BY DEF IInv, Queued, Promised, Live
<1>6. \A q \in Requests : Len(mem.table[q]) <= budget[q]
  <2> SUFFICES ASSUME NEW q \in Requests PROVE Len(mem.table[q]) <= budget[q]
    OBVIOUS
  <2>1. CASE q \notin Range(running)
    <3>1. mem.table[q] = <<>>
      BY <2>1 DEF IInv, Promised
    <3> QED
      BY <1>4, <3>1
  <2>2. CASE q \in Range(running)
    <3>1. Len(mem.table[q]) = Positions(mem.length[q])
      BY DEF IInv, Exact, ExactIn
    <3>2. mem.length[q] <= Sequence(q)
      BY DEF IInv, Progress
    <3>3. /\ Sequence(q) \in Nat /\ Positions(Sequence(q)) <= MaxBlocksFor(q) /\ MaxBlocksFor(q) \in Nat
      BY <1>5, <2>2, Amounts DEF IInv
    <3>4. Positions(mem.length[q]) <= Positions(Sequence(q)) /\ Positions(mem.length[q]) \in Nat
          /\ Positions(Sequence(q)) \in Nat
      BY <1>1, <1>3, <3>2, <3>3, PositionsMono
    <3> QED
      BY <1>5, <2>2, <3>1, <3>3, <3>4
  <2> QED
    BY <2>1, <2>2
<1> QED
  BY <1>6

(* In reserve mode a request's budget is its worst case. *)
LEMMA ReserveCovers ==
  ASSUME IInv, ~conf.preemption, NEW D, D \subseteq Range(running),
         NEW count, \A q \in D : count[q] \in Nat /\ mem.length[q] + count[q] <= ask[q].prompt + ask[q].new - 1
  PROVE  Covers(mem, D, count, budget)
<1>1. Built /\ Shaped(mem) /\ Range(running) \subseteq Requests
  BY QueueRange DEF IInv, Typed, Built, Sound
<1>2. SumOver(budget, Requests) <= conf.pool
  BY DEF IInv, Promised
<1>3. \A q \in Requests : mem.length[q] \in Nat /\ mem.table[q] \in Seq(Blocks)
  BY <1>1, Shapes
<1>4. \A q \in Requests : budget[q] \in Nat
  BY DEF IInv, Typed
<1>5. \A q \in Range(running) : generated[q] < ask[q].new /\ budget[q] = MaxBlocksFor(q)
  BY DEF IInv, Queued, Promised, Live
<1>6. \A q \in Requests : Len(mem.table[q]) <= budget[q]
  BY WithinBudget
<1>7. \A q \in D : Positions(mem.length[q] + count[q]) <= budget[q]
  <2> SUFFICES ASSUME NEW q \in D PROVE Positions(mem.length[q] + count[q]) <= budget[q]
    OBVIOUS
  <2> DEFINE x == mem.length[q] + count[q]
             y == ask[q].prompt + ask[q].new - 1
  <2>1. q \in Requests /\ q \in Range(running)
    BY <1>1
  <2>2. ask[q].prompt \in Nat \ {0} /\ ask[q].new \in Nat \ {0}
    BY <2>1, Amounts DEF IInv
  <2>3. x \in Nat /\ y \in Nat /\ x <= y
    BY <1>3, <2>1, <2>2
  <2>4. budget[q] = Positions(y)
    BY <1>5, <2>1 DEF MaxBlocksFor
  <2> HIDE DEF x, y
  <2>5. Positions(x) <= budget[q]
    BY <1>1, <2>3, <2>4, PositionsMono
  <2> QED
    BY <2>5 DEF x
<1> QED
  BY <1>2, <1>4, <1>6, <1>7 DEF Covers

(* With preemption a request that runs alone has the pool to itself. *)
LEMMA LoneCovers ==
  ASSUME IInv, conf.preemption, NEW r \in Range(running), Range(running) = {r},
         NEW n \in Nat, mem.length[r] + n <= Sequence(r)
  PROVE  BlocksToGrow(mem, r, n) <= Cardinality(Free(mem))
<1> DEFINE share == [q \in Requests |-> IF q = r THEN MaxBlocksFor(r) ELSE 0]
<1>1. Built /\ Sound(mem) /\ Exact(mem) /\ Shaped(mem) /\ r \in Requests /\ IsFiniteSet(Requests)
  BY QueueRange, EngineAssumption DEF IInv, Typed, Built, Sound
<1>2. mem.length[r] \in Nat /\ mem.length[r] + n \in Nat
  BY <1>1, Shapes
<1>3. /\ Sequence(r) \in Nat /\ Positions(Sequence(r)) <= MaxBlocksFor(r) /\ MaxBlocksFor(r) \in Nat
      /\ MaxBlocksFor(r) <= conf.pool
  <2>1. generated[r] < ask[r].new /\ MaxBlocksFor(r) <= conf.pool
    BY DEF IInv, Queued, Live
  <2> QED
    BY <1>1, <2>1, Amounts DEF IInv
<1>4. Positions(mem.length[r] + n) <= share[r] /\ Positions(mem.length[r]) <= share[r]
  <2>1. Positions(mem.length[r] + n) <= Positions(Sequence(r)) /\ Positions(mem.length[r] + n) \in Nat
        /\ Positions(Sequence(r)) \in Nat /\ Positions(mem.length[r]) <= Positions(Sequence(r))
        /\ Positions(mem.length[r]) \in Nat
    <3>1. mem.length[r] <= Sequence(r)
      BY <1>1 DEF IInv, Progress
    <3> QED
      BY <1>1, <1>2, <1>3, <3>1, PositionsMono
  <2>2. share[r] = MaxBlocksFor(r)
    BY <1>1
  <2> QED
    BY <1>3, <2>1, <2>2
<1>5. \A q \in Requests : share[q] \in Nat /\ Len(mem.table[q]) <= share[q]
  <2> SUFFICES ASSUME NEW q \in Requests PROVE share[q] \in Nat /\ Len(mem.table[q]) <= share[q]
    OBVIOUS
  <2>1. CASE q = r
    BY <1>1, <1>3, <1>4, <2>1 DEF Exact, ExactIn
  <2>2. CASE q # r
    <3>1. mem.table[q] = <<>>
      BY <2>2 DEF IInv, Promised
    <3> QED
      BY <2>2, <3>1
  <2> QED
    BY <2>1, <2>2
<1>6. SumOver(share, Requests) <= conf.pool
  <2>1. share[r] = MaxBlocksFor(r)
    BY <1>1
  <2>2. \A q \in Requests \ {r} : share[q] = 0
    OBVIOUS
  <2> HIDE DEF share
  <2>3. SumOver(share, Requests) = share[r] + SumOver(share, Requests \ {r})
    BY <1>1, <1>5, SumSplits
  <2>4. SumOver(share, Requests \ {r}) = 0
    <3>1. IsFiniteSet(Requests \ {r})
      BY <1>1, FS_Subset
    <3> QED
      BY <2>2, <3>1, SumOfZeros
  <2> QED
    BY <1>3, <2>1, <2>3, <2>4
<1> HIDE DEF share
<1>7. BlocksToGrow(mem, r, n) <= Cardinality(Free(Forget(mem, Len(mem.cache))))
  BY <1>1, <1>4, <1>5, <1>6, RoomForShare
<1>8. Forget(mem, Len(mem.cache)) = mem
  <2>1. conf.entries = 0
    BY <1>1, ConfTypes
  <2>2. mem.cache = <<>>
    BY <1>1, <2>1 DEF Sound
  <2>3. SubSeq(mem.cache, Len(mem.cache) + 1, Len(mem.cache)) = mem.cache
    BY <2>2
  <2> QED
    BY <1>1, <2>3 DEF Forget, Shaped
<1> QED
  BY <1>7, <1>8

(* The budgets that are returned leave the committed total. *)
LEMMA LeaveReturns ==
  ASSUME Typed, committed = SumOver(budget, Requests), NEW D \in SUBSET Requests, Leave(D)
  PROVE  /\ committed' = SumOver(budget', Requests) /\ committed' \in Nat /\ committed' <= committed
         /\ budget' \in [Requests -> Nat]
         /\ \A r \in Requests : budget'[r] = IF r \in D THEN 0 ELSE budget[r]
         /\ running' \in Seq(Requests) /\ Range(running') = Range(running) \ D
         /\ IsInjective(running) => IsInjective(running')
<1>1. budget \in [Requests -> Nat] /\ running \in Seq(Requests) /\ IsFiniteSet(Requests)
  BY EngineAssumption DEF Typed
<1>2. budget' = [r \in Requests |-> IF r \in D THEN 0 ELSE budget[r]]
  BY DEF Leave
<1>3. /\ budget' \in [Requests -> Nat]
      /\ \A r \in Requests : budget'[r] = IF r \in D THEN 0 ELSE budget[r]
  BY <1>1, <1>2
<1>4. running' = Without(running, D)
  BY DEF Leave
<1>5. /\ running' \in Seq(Requests) /\ Range(running') = Range(running) \ D
      /\ IsInjective(running) => IsInjective(running')
  BY <1>1, <1>4, WithoutQueue
<1>6. committed' = committed - SumOver(budget, D)
  BY DEF Leave, SumOver
<1> DEFINE c == budget'
<1>7. \A r \in Requests : c[r] \in Nat /\ c[r] = IF r \in D THEN 0 ELSE budget[r]
  BY <1>3
<1> HIDE DEF c
<1>8. SumOver(budget, Requests) = SumOver(budget, D) + SumOver(budget, Requests \ D)
  BY <1>1, SumJoins
<1>9. SumOver(c, Requests) = SumOver(c, D) + SumOver(c, Requests \ D)
  BY <1>1, <1>7, SumJoins
<1>10. IsFiniteSet(D) /\ IsFiniteSet(Requests \ D)
  BY <1>1, FS_Subset
<1>11. SumOver(c, D) = 0
  BY <1>7, <1>10, SumOfZeros
<1>12. SumOver(c, Requests \ D) = SumOver(budget, Requests \ D)
  BY <1>1, <1>7, <1>10, SumAgrees
<1>13. SumOver(budget, D) \in Nat /\ SumOver(budget, Requests \ D) \in Nat
  <2>1. SumOver(budget, D) \in Nat
    BY <1>1, SumIsNat
  <2>2. SumOver(budget, Requests \ D) \in Nat
    BY <1>1, SumIsNat
  <2> QED
    BY <2>1, <2>2
<1>14. committed' = SumOver(c, Requests) /\ committed' \in Nat /\ committed' <= committed
  BY <1>6, <1>8, <1>9, <1>11, <1>12, <1>13
<1> QED
  BY <1>3, <1>5, <1>14 DEF c

(* A pure memory becomes the memory of the next state. *)
LEMMA NextMemory ==
  ASSUME NEW m, mem' = m, conf' = conf
  PROVE  /\ Sound(m) => Sound(mem)'
         /\ Exact(m) => Exact(mem)'
         /\ Free(mem)' = Free(m)
         /\ \A r \in Requests, k \in Nat : BlocksToGrow(mem, r, k)' = BlocksToGrow(m, r, k)
         /\ \A n \in Nat : Positions(n)' = Positions(n)
<1>1. \A n \in Nat : Positions(n)' = Positions(n)
  BY DEF Positions
<1>2. Sound(m) => Sound(mem)'
  BY DEF Sound, Shaped, Entries, Blocks, Level, CachedWhole, Cached, Whole
<1>3. Exact(m) => Exact(mem)'
  BY DEF Exact, ExactIn, Positions
<1>4. Free(mem)' = Free(m)
  BY DEF Free, Refs
<1>5. \A r \in Requests, k \in Nat : BlocksToGrow(mem, r, k)' = BlocksToGrow(m, r, k)
  BY DEF BlocksToGrow, Growth, Copied, Touched, Positions, Refs
<1> QED
  BY <1>1, <1>2, <1>3, <1>4, <1>5

-----------------------------------------------------------------------------
(* Steps that only move the pass on *)

Leaders1 == \A r, q \in Unstarted :
  r # q /\ SameGroup(r, q) => mem.table[r] = <<>> \/ mem.table[q] = <<>>

Passing == /\ phase \in Phases /\ room \in Nat
           /\ visiting \in Seq(Requests) /\ prefilling \in Seq(Requests) /\ decoding \in Seq(Requests)

LEMMA QuietStep ==
  ASSUME IInv, UNCHANGED <<conf, ask, known, queues, mem, prefilled, generated, finished>>
  PROVE  /\ Sound(mem)' /\ Exact(mem)' /\ Queued' /\ Promised' /\ Progress' /\ Leaders1'
         /\ Resuming' = Resuming /\ Unstarted' = Unstarted /\ Missing' = Missing
         /\ Free(mem)' = Free(mem)
         /\ Passing' => Typed'
<1>1. Sound(mem)' /\ Exact(mem)' /\ Free(mem)' = Free(mem)
  BY NextMemory DEF IInv
<1>2. Queued'
  BY DEF IInv, Queued, Live, queues, MaxBlocksFor, Positions
<1>3. Promised'
  BY DEF IInv, Promised, queues, MaxBlocksFor, Positions
<1>4. Progress'
  BY DEF IInv, Progress, Sequence
<1>5. Resuming' = Resuming /\ Unstarted' = Unstarted
  BY DEF Resuming, Unstarted, queues
<1>6. Missing' = Missing
  BY DEF Missing, Footprint, Positions
<1>7. Leaders1'
  BY <1>5 DEF IInv, Prefills, Leaders1, SameGroup
<1>8. Passing' => Typed'
  BY DEF IInv, Typed, Passing, queues, Alike
<1> QED
  BY <1>1, <1>2, <1>3, <1>4, <1>5, <1>6, <1>7, <1>8

LEMMA BeginStep ==
  ASSUME IInv, Begin
  PROVE  IInv'
<1>1. UNCHANGED <<conf, ask, known, queues, mem, prefilled, generated, finished>> /\ UNCHANGED lists
  BY DEF Begin
<1>2. /\ Sound(mem)' /\ Exact(mem)' /\ Queued' /\ Promised' /\ Progress' /\ Leaders1'
      /\ Resuming' = Resuming /\ Unstarted' = Unstarted /\ Missing' = Missing
      /\ Free(mem)' = Free(mem)
      /\ Passing' => Typed'
  BY <1>1, QuietStep
<1>3. Built
  BY DEF IInv, Typed, Built
<1>4. Cardinality(Free(mem)) \in Nat
  BY <1>3, FreeCounts
<1>5. Passing'
  BY <1>4 DEF IInv, Typed, Passing, Begin, lists, Phases
<1>6. Resuming = {}
  BY DEF IInv, Resumes, Begin
<1>7. Resumes'
  <2>1. SumOver(Missing, {}) = 0
    BY SumEmpty
  <2>2. conf.preemption => room' = Cardinality(Free(mem))
    BY DEF Begin
  <2>3. phase' = "admit" /\ conf' = conf
    BY DEF Begin
  <2>4. conf.preemption => SumOver(Missing, {}) + room' <= Cardinality(Free(mem))
    BY <1>4, <2>1, <2>2
  <2> QED
    BY <1>2, <1>6, <2>3, <2>4 DEF Resumes
<1>8. Prefills'
  BY <1>2 DEF Begin, Prefills, Leaders1
<1>9. Decodes' /\ Alive'
  BY DEF Begin, Decodes, Alive
<1> QED
  BY <1>2, <1>5, <1>7, <1>8, <1>9 DEF IInv

LEMMA ClassifyStep ==
  ASSUME IInv, Classify
  PROVE  IInv'
<1>1. UNCHANGED <<conf, ask, known, queues, mem, prefilled, generated, finished>>
      /\ phase = "admit" /\ phase' = "resume" /\ room' = 0
  BY DEF Classify
<1>2. /\ Sound(mem)' /\ Exact(mem)' /\ Queued' /\ Promised' /\ Progress' /\ Leaders1'
      /\ Resuming' = Resuming /\ Unstarted' = Unstarted /\ Missing' = Missing
      /\ Free(mem)' = Free(mem)
      /\ Passing' => Typed'
  BY <1>1, QuietStep
<1>3. running \in Seq(Requests) /\ Range(running) \subseteq Requests /\ IsInjective(running)
      /\ generated \in [Requests -> Nat] /\ running' = running /\ prefilled' = prefilled
  BY <1>1, QueueRange DEF IInv, Typed, Queued, queues
<1>4. /\ visiting' \in Seq(Requests) /\ IsInjective(visiting')
      /\ Range(visiting') = Range(running) \cap {r \in Requests : ~prefilled[r] /\ generated[r] > 0}
      /\ prefilling' \in Seq(Requests) /\ IsInjective(prefilling')
      /\ Range(prefilling') = Range(running) \cap {r \in Requests : ~prefilled[r] /\ generated[r] = 0}
      /\ decoding' \in Seq(Requests) /\ IsInjective(decoding')
      /\ Range(decoding') = Range(running) \cap {r \in Requests : prefilled[r]}
  BY <1>3, ThoseExact DEF Classify
<1>5. Range(visiting') = Resuming /\ Range(prefilling') = Unstarted
  BY <1>3, <1>4 DEF Resuming, Unstarted
<1>6. Passing'
  BY <1>1, <1>4 DEF Passing, Phases
<1>7. Resumes'
  <2>1. conf' = conf /\ mem' = mem
    BY <1>1
  <2>2. conf.preemption => SumOver(Missing, Resuming) + room <= Cardinality(Free(mem))
    BY <1>1 DEF IInv, Resumes
  <2>3. ASSUME conf.preemption PROVE SumOver(Missing, Resuming) + 0 <= Cardinality(Free(mem))
    <3>1. Cardinality(Free(mem)) \in Nat /\ room \in Nat
      BY FreeCounts DEF IInv, Typed, Built
    <3>2. SumOver(Missing, Resuming) \in Nat
      <4>1. \A r \in Resuming : Missing[r] \in Nat
        <5> SUFFICES ASSUME NEW r \in Resuming PROVE Missing[r] \in Nat
          OBVIOUS
        <5>1. r \in Requests
          BY <1>3 DEF Resuming
        <5>2. Len(mem.table[r]) = Positions(mem.length[r]) /\ mem.length[r] <= Sequence(r)
          BY <5>1 DEF IInv, Exact, ExactIn, Progress
        <5>3. Built /\ Shaped(mem)
          BY DEF IInv, Typed, Built, Sound
        <5>4. mem.length[r] \in Nat
          BY <5>1, <5>3, Shapes
        <5>5. /\ Sequence(r) \in Nat /\ Footprint(r) \in Nat /\ Positions(Sequence(r)) <= Footprint(r)
          BY <5>1, Amounts DEF IInv
        <5>6. Positions(mem.length[r]) <= Positions(Sequence(r)) /\ Positions(mem.length[r]) \in Nat
              /\ Positions(Sequence(r)) \in Nat
          BY <5>2, <5>3, <5>4, <5>5, PositionsMono
        <5> QED
          BY <5>1, <5>2, <5>5, <5>6 DEF Missing
      <4>2. IsFiniteSet(Resuming)
        BY <1>3, QueueRange, FS_Subset DEF Resuming
      <4> QED
        BY <4>1, <4>2, SumSplits
    <3> QED
      BY <2>2, <2>3, <3>1, <3>2
  <2>4. conf.preemption => \A r \in Resuming : \A q \in Requests \ {r} :
            Range(mem.table[r]) \cap Range(mem.table[q]) = {}
    BY <1>1 DEF IInv, Resumes
  <2> QED
    BY <1>1, <1>2, <1>4, <1>5, <2>1, <2>3, <2>4 DEF Resumes
<1>8. Prefills'
  <2>1. Unstarted \subseteq Range(running)
    BY DEF Unstarted
  <2> QED
    BY <1>1, <1>2, <1>3, <1>4, <1>5, <2>1 DEF Prefills, Leaders1
<1>9. Decodes' /\ Alive'
  BY <1>1, <1>3, <1>4 DEF Decodes, Alive
<1> QED
  BY <1>2, <1>6, <1>7, <1>8, <1>9 DEF IInv

-----------------------------------------------------------------------------
(* What every step needs *)

LEMMA Basics ==
  ASSUME IInv
  PROVE  /\ Built /\ IsFiniteSet(Requests)
         /\ Sound(mem) /\ Exact(mem) /\ Shaped(mem)
         /\ running \in Seq(Requests) /\ Range(running) \subseteq Requests
         /\ IsInjective(running) /\ IsFiniteSet(Range(running))
         /\ Cardinality(Free(mem)) \in Nat /\ Free(mem) \subseteq Blocks
         /\ \A r \in Requests : mem.length[r] \in Nat /\ mem.table[r] \in Seq(Blocks)
         /\ \A r \in Requests : ask[r] \in Asks
<1>1. Built /\ IsFiniteSet(Requests) /\ Sound(mem) /\ Exact(mem) /\ Shaped(mem)
  BY EngineAssumption DEF IInv, Typed, Built, Sound
<1>2. /\ running \in Seq(Requests) /\ Range(running) \subseteq Requests
      /\ IsInjective(running) /\ IsFiniteSet(Range(running))
  BY QueueRange DEF IInv, Typed, Queued
<1>3. Cardinality(Free(mem)) \in Nat /\ Free(mem) \subseteq Blocks
  BY <1>1, FreeCounts
<1>4. \A r \in Requests : mem.length[r] \in Nat /\ mem.table[r] \in Seq(Blocks)
  BY <1>1, Shapes
<1>5. \A r \in Requests : ask[r] \in Asks
  BY Amounts DEF IInv
<1> QED
  BY <1>1, <1>2, <1>3, <1>4, <1>5

LEMMA MissingIsNat ==
  ASSUME IInv
  PROVE  /\ \A r \in Requests : Missing[r] \in Nat
         /\ Resuming \subseteq Requests /\ IsFiniteSet(Resuming)
         /\ SumOver(Missing, Resuming) \in Nat
<1>1. Built /\ Shaped(mem) /\ Range(running) \subseteq Requests /\ IsFiniteSet(Requests)
  BY Basics
<1>2. \A r \in Requests : Missing[r] \in Nat
  <2> SUFFICES ASSUME NEW r \in Requests PROVE Missing[r] \in Nat
    OBVIOUS
  <2>1. Len(mem.table[r]) = Positions(mem.length[r]) /\ mem.length[r] <= Sequence(r)
    BY DEF IInv, Exact, ExactIn, Progress
  <2>2. mem.length[r] \in Nat
    BY <1>1, Shapes
  <2>3. Sequence(r) \in Nat /\ Footprint(r) \in Nat /\ Positions(Sequence(r)) <= Footprint(r)
    BY Amounts DEF IInv
  <2>4. Positions(mem.length[r]) <= Positions(Sequence(r)) /\ Positions(mem.length[r]) \in Nat
        /\ Positions(Sequence(r)) \in Nat
    BY <1>1, <2>1, <2>2, <2>3, PositionsMono
  <2> QED
    BY <2>1, <2>3, <2>4 DEF Missing
<1>3. Resuming \subseteq Requests
  BY <1>1 DEF Resuming
<1>4. IsFiniteSet(Resuming)
  BY <1>1, <1>3, FS_Subset
<1>5. SumOver(Missing, Resuming) \in Nat
  BY <1>2, <1>3, <1>4, SumIsNat
<1> QED
  BY <1>2, <1>3, <1>4, <1>5

(* An error that leaves the step: the invariant asks nothing more, but     *)
(* that clients mixed prompts in a group.                                  *)
LEMMA DieStep ==
  ASSUME IInv, Die, ~SamePrompts
  PROVE  IInv'
<1>1. UNCHANGED <<conf, ask, known, queues, mem, prefilled, generated, finished>>
      /\ phase' = "dead" /\ room' = room /\ UNCHANGED lists
  BY DEF Die
<1>2. /\ Sound(mem)' /\ Exact(mem)' /\ Queued' /\ Promised' /\ Progress' /\ Leaders1'
      /\ Passing' => Typed'
  BY <1>1, QuietStep
<1>3. Passing'
  BY <1>1 DEF IInv, Typed, Passing, lists, Phases
<1>4. Resumes' /\ Decodes' /\ Alive'
  BY <1>1 DEF Resumes, Decodes, Alive
<1>5. Prefills'
  BY <1>1, <1>2 DEF Prefills, Leaders1
<1> QED
  BY <1>2, <1>3, <1>4, <1>5 DEF IInv

(* What the recompute or the prefill of a request does in one call. *)
LEMMA ChunkIs ==
  ASSUME IInv, NEW r \in Requests
  PROVE  /\ Chunk(r) \in Nat /\ mem.length[r] + Chunk(r) <= Sequence(r)
         /\ conf.chunk = 0 => mem.length[r] + Chunk(r) = Sequence(r)
<1> DEFINE left == Sequence(r) - mem.length[r]
<1>1. conf.chunk \in Nat
  BY Basics, ConfTypes
<1>2. mem.length[r] \in Nat /\ Sequence(r) \in Nat /\ mem.length[r] <= Sequence(r)
  BY Basics, Amounts DEF IInv, Progress
<1>3. Chunk(r) = IF conf.chunk = 0 \/ left < conf.chunk THEN left ELSE conf.chunk
  BY DEF Chunk
<1>4. left \in Nat /\ left = Sequence(r) - mem.length[r]
  BY <1>2
<1> HIDE DEF left
<1> QED
  BY <1>1, <1>2, <1>3, <1>4

(* A chunk that found room, or was promised it, extends its table. *)
LEMMA ChunkGrows ==
  ASSUME IInv, NEW r \in Range(running), HasRoom(r)
  PROVE  Grown(mem, Appended(mem, r, Chunk(r)), r, Chunk(r))
<1>1. /\ Built /\ Sound(mem) /\ Exact(mem) /\ Shaped(mem) /\ r \in Requests
      /\ mem.length[r] \in Nat /\ IsFiniteSet(Requests)
  BY Basics
<1>2. Chunk(r) \in Nat /\ mem.length[r] + Chunk(r) <= Sequence(r)
  BY <1>1, ChunkIs
<1>3. ExactIn(mem, r)
  BY <1>1 DEF Exact
<1>4. CASE conf.preemption
  <2>1. BlocksToGrow(mem, r, Chunk(r)) <= Cardinality(Free(mem))
    BY <1>4 DEF HasRoom
  <2>2. Len(mem.cache) \in Nat
    BY <1>1, Shapes
  <2>3. Cardinality(Free(mem)) <= Cardinality(Free(Forget(mem, Len(mem.cache))))
    BY <1>1, <2>2, Forgotten
  <2>4. /\ BlocksToGrow(mem, r, Chunk(r)) \in Nat /\ Cardinality(Free(mem)) \in Nat
        /\ Cardinality(Free(Forget(mem, Len(mem.cache)))) \in Nat
    BY <1>1, <1>2, <1>3, GrowthIs, FreeCounts
  <2> QED
    BY <1>1, <1>2, <1>3, <2>1, <2>3, <2>4, AppendedGrows
<1>5. CASE ~conf.preemption
  <2> DEFINE count == [q \in Requests |-> IF q = r THEN Chunk(r) ELSE 0]
  <2>1. count[r] = Chunk(r) /\ \A q \in Requests : count[q] \in Nat
    BY <1>1, <1>2
  <2>2. ask[r].prompt \in Nat /\ ask[r].new \in Nat /\ Sequence(r) \in Nat
        /\ Sequence(r) <= ask[r].prompt + ask[r].new - 1
    <3>1. generated[r] < ask[r].new
      BY DEF IInv, Queued, Live
    <3> QED
      BY <1>1, <3>1, Amounts DEF IInv
  <2> HIDE DEF count
  <2>3. {r} \subseteq Range(running) /\ {r} \in SUBSET Requests
    BY <1>1
  <2>4. \A q \in {r} : count[q] \in Nat /\ mem.length[q] + count[q] <= ask[q].prompt + ask[q].new - 1
    BY <1>1, <1>2, <2>1, <2>2
  <2>5. Funded(mem, {r}, count, budget)
    BY <1>5, <2>3, <2>4, ReserveCovers DEF Funded
  <2>6. BlocksToGrow(mem, r, count[r]) <= Cardinality(Free(Forget(mem, Len(mem.cache))))
    BY <1>1, <2>1, <2>3, <2>5, FundedNow
  <2> QED
    BY <1>1, <1>2, <1>3, <2>1, <2>6, AppendedGrows
<1> QED
  BY <1>4, <1>5

LEMMA ResumeDoneStep ==
  ASSUME IInv, ResumeDone
  PROVE  IInv'
<1>1. UNCHANGED <<conf, ask, known, queues, mem, prefilled, generated, finished>>
      /\ phase = "resume" /\ visiting = <<>> /\ room' = room
      /\ prefilling' = prefilling /\ decoding' = decoding
  BY DEF ResumeDone
<1>2. /\ Sound(mem)' /\ Exact(mem)' /\ Queued' /\ Promised' /\ Progress' /\ Leaders1'
      /\ Resuming' = Resuming /\ Unstarted' = Unstarted
      /\ Passing' => Typed'
  BY <1>1, QuietStep
<1>3. /\ visiting \in Seq(Requests) /\ prefilling \in Seq(Requests) /\ decoding \in Seq(Requests)
      /\ room \in Nat /\ conf.entries \in Nat /\ running' = running /\ conf' = conf /\ ask' = ask
  BY <1>1, Basics, ConfTypes DEF IInv, Typed, queues
<1>4. Resuming = {}
  BY <1>1, NoQueue DEF IInv, Resumes
<1>5. /\ IsInjective(prefilling)
      /\ Range(prefilling) \cap Range(running) \subseteq Unstarted
      /\ ~conf.preemption => Range(prefilling) \subseteq Range(running)
      /\ \A r \in Range(prefilling) \cap Range(running), q \in Unstarted :
           SameGroup(r, q) => q \in Range(prefilling)
  BY <1>1 DEF IInv, Prefills
<1>6. IsInjective(decoding) /\ (~conf.preemption => \A r \in Range(decoding) : prefilled[r])
  BY <1>1 DEF IInv, Decodes
<1>7. CASE conf.entries > 0
  <2>1. /\ phase' = "lookup"
        /\ visiting' = Those(prefilling, {r \in Requests : mem.table[r] = <<>> /\ ask[r].group = 0})
    BY <1>7 DEF ResumeDone
  <2>2. ~conf.preemption
    BY <1>7, Basics, ConfTypes
  <2>3. /\ visiting' \in Seq(Requests) /\ IsInjective(visiting')
        /\ Range(visiting') = Range(prefilling) \cap {r \in Requests : mem.table[r] = <<>> /\ ask[r].group = 0}
    BY <1>3, <1>5, <2>1, ThoseExact
  <2>4. Passing'
    BY <1>1, <1>3, <2>1, <2>3 DEF Passing, Phases
  <2>5. Resumes'
    BY <1>2, <1>4, <2>1 DEF Resumes
  <2>6. Prefills'
    <3>1. \A r \in Range(visiting') : ask[r].group = 0
      BY <2>3
    <3>2. Range(visiting') \subseteq Range(prefilling)
      BY <2>3
    <3> QED
      BY <1>1, <1>2, <1>3, <1>5, <2>1, <2>2, <2>3, <3>1, <3>2 DEF Prefills, Leaders1, SameGroup
  <2>7. Decodes' /\ Alive'
    BY <1>1, <1>6, <2>1, <2>2 DEF Decodes, Alive
  <2> QED
    BY <1>2, <2>4, <2>5, <2>6, <2>7 DEF IInv
<1>8. CASE ~(conf.entries > 0)
  <2>1. visiting' = visiting /\ phase' = (IF CanPrefillMany THEN "many" ELSE "prefill")
    BY <1>8 DEF ResumeDone
  <2>2. Passing'
    BY <1>1, <1>3, <2>1 DEF Passing, Phases
  <2>3. Resumes'
    BY <1>2, <1>4, <2>1 DEF Resumes
  <2>4. Prefills'
    <3>1. phase' = "many" => CanPrefillMany'
      BY <1>1, <1>3, <2>1 DEF CanPrefillMany
    <3> QED
      BY <1>1, <1>2, <1>3, <1>5, <2>1, <3>1 DEF Prefills, Leaders1, SameGroup
  <2>5. Decodes' /\ Alive'
    BY <1>1, <1>6, <2>1 DEF Decodes, Alive
  <2> QED
    BY <1>2, <2>2, <2>3, <2>4, <2>5 DEF IInv
<1> QED
  BY <1>7, <1>8

LEMMA PrefillSkipStep ==
  ASSUME IInv, PrefillSkip
  PROVE  IInv'
<1>1. UNCHANGED <<conf, ask, known, queues, mem, prefilled, generated, finished>>
      /\ phase = "prefill" /\ phase' = "prefill" /\ room' = room /\ prefilling # <<>>
      /\ prefilling' = Tail(prefilling) /\ visiting' = visiting /\ decoding' = decoding
      /\ conf.preemption /\ Head(prefilling) \notin Range(running)
  BY DEF PrefillSkip, Gone
<1>2. /\ Sound(mem)' /\ Exact(mem)' /\ Queued' /\ Promised' /\ Progress' /\ Leaders1'
      /\ Resuming' = Resuming /\ Unstarted' = Unstarted
      /\ Passing' => Typed'
  BY <1>1, QuietStep
<1>3. /\ visiting \in Seq(Requests) /\ prefilling \in Seq(Requests) /\ decoding \in Seq(Requests)
      /\ room \in Nat /\ running' = running /\ conf' = conf /\ ask' = ask
  BY <1>1 DEF IInv, Typed, queues
<1>4. /\ IsInjective(prefilling)
      /\ Range(prefilling) \cap Range(running) \subseteq Unstarted
      /\ \A r \in Range(prefilling) \cap Range(running), q \in Unstarted :
           SameGroup(r, q) => q \in Range(prefilling)
  BY <1>1 DEF IInv, Prefills
<1>5. /\ prefilling' \in Seq(Requests) /\ IsInjective(prefilling')
      /\ Range(prefilling') = Range(prefilling) \ {Head(prefilling)}
  BY <1>1, <1>3, <1>4, QueueTail
<1>6. Passing'
  BY <1>1, <1>3, <1>5 DEF Passing, Phases
<1>7. Resumes'
  BY <1>1, <1>2 DEF IInv, Resumes
<1>8. Prefills'
  <2>1. Unstarted \subseteq Range(running)
    BY DEF Unstarted
  <2> QED
    BY <1>1, <1>2, <1>3, <1>4, <1>5, <2>1 DEF Prefills, Leaders1, SameGroup
<1>9. Decodes' /\ Alive'
  BY <1>1 DEF IInv, Decodes, Alive
<1> QED
  BY <1>2, <1>6, <1>7, <1>8, <1>9 DEF IInv

LEMMA PrefillDoneStep ==
  ASSUME IInv, PrefillDone
  PROVE  IInv'
<1>1. UNCHANGED <<conf, ask, known, queues, mem, prefilled, generated, finished>>
      /\ phase = "prefill" /\ room' = room /\ UNCHANGED lists
      /\ phase' = (IF decoding = <<>> THEN "between" ELSE IF conf.preemption THEN "room" ELSE "decode")
  BY DEF PrefillDone
<1>2. /\ Sound(mem)' /\ Exact(mem)' /\ Queued' /\ Promised' /\ Progress' /\ Leaders1'
      /\ Resuming' = Resuming /\ Unstarted' = Unstarted
      /\ Passing' => Typed'
  BY <1>1, QuietStep
<1>3. Passing'
  BY <1>1 DEF IInv, Typed, Passing, lists, Phases
<1>4. Resumes'
  BY <1>1, <1>2 DEF IInv, Resumes
<1>5. Prefills'
  BY <1>1, <1>2 DEF Prefills, Leaders1
<1>6. Decodes' /\ Alive'
  BY <1>1 DEF IInv, Decodes, Alive, lists
<1> QED
  BY <1>2, <1>3, <1>4, <1>5, <1>6 DEF IInv

(* The same of the state after a step. *)
LEMMA DemandIsSumNext ==
  Range(decoding') \subseteq Requests => Demand(decoding)' = SumOver(Draws', Range(decoding'))
<1>1. Range(decoding) \subseteq Requests => Demand(decoding) = SumOver(Draws, Range(decoding))
  BY DemandIsSum
<1>2. (Range(decoding) \subseteq Requests => Demand(decoding) = SumOver(Draws, Range(decoding)))'
  BY <1>1, PTL
<1> QED
  BY <1>2

LEMMA RoomDoneStep ==
  ASSUME IInv, RoomDone
  PROVE  IInv'
<1>1. UNCHANGED <<conf, ask, known, queues, mem, prefilled, generated, finished>>
      /\ phase = "room" /\ room' = room /\ visiting' = visiting /\ prefilling' = prefilling
      /\ decoding' = Survivors /\ phase' = (IF Survivors = <<>> THEN "between" ELSE "decode")
      /\ Demand(Survivors) <= Cardinality(Free(mem))
  BY DEF RoomDone
<1>2. /\ Sound(mem)' /\ Exact(mem)' /\ Queued' /\ Promised' /\ Progress' /\ Leaders1'
      /\ Resuming' = Resuming /\ Unstarted' = Unstarted /\ Free(mem)' = Free(mem)
      /\ Passing' => Typed'
  BY <1>1, QuietStep
<1>3. decoding \in Seq(Requests) /\ IsInjective(decoding)
  BY <1>1 DEF IInv, Typed, Decodes
<1>4. /\ decoding' \in Seq(Requests) /\ IsInjective(decoding')
      /\ Range(decoding') = Range(decoding) \cap {r \in Requests : prefilled[r]}
  BY <1>1, <1>3, ThoseExact DEF Survivors
<1>5. Passing'
  BY <1>1, <1>4 DEF IInv, Typed, Passing, Phases
<1>6. Resumes'
  BY <1>1, <1>2 DEF IInv, Resumes
<1>7. Prefills'
  BY <1>1, <1>2 DEF Prefills, Leaders1
<1>8. Draws' = Draws
  BY <1>1 DEF Draws, BlocksToGrow, Growth, Copied, Touched, Refs, Positions, Draft, Remaining
<1>9. Demand(decoding)' <= Cardinality(Free(mem))'
  <2>1. Range(decoding') \subseteq Requests
    BY <1>4
  <2>2. Demand(decoding)' = SumOver(Draws, Range(decoding'))
    BY <1>8, <2>1, DemandIsSumNext
  <2>3. Demand(Survivors) = SumOver(Draws, Range(decoding'))
    BY <1>1, <2>1, DemandIsSum
  <2> QED
    BY <1>1, <1>2, <2>2, <2>3
<1>10. Decodes' /\ Alive'
  BY <1>1, <1>4, <1>9 DEF Decodes, Alive
<1> QED
  BY <1>2, <1>5, <1>6, <1>7, <1>10 DEF IInv

-----------------------------------------------------------------------------
(* Arrival, admission and departure *)

LEMMA AddStep ==
  ASSUME IInv, NEW r \in Requests, Add(r)
  PROVE  IInv'
<1>1. /\ UNCHANGED <<conf, ask, running, committed, budget, mem, prefilled, generated, finished,
                     phase, room, lists>>
      /\ phase = "between" /\ r \notin Range(known) /\ MaxBlocksFor(r) <= conf.pool
      /\ known' = Append(known, r) /\ waiting' = Append(waiting, r)
  BY DEF Add
<1>2. /\ known \in Seq(Requests) /\ waiting \in Seq(Requests) /\ IsInjective(waiting)
      /\ Range(waiting) \cap Range(running) = {}
      /\ r \notin Live /\ generated[r] = 0 /\ finished[r] = FALSE
  BY <1>1 DEF IInv, Typed, Queued
<1>3. /\ known' \in Seq(Requests) /\ Range(known') = Range(known) \cup {r}
      /\ waiting' \in Seq(Requests) /\ Range(waiting') = Range(waiting) \cup {r}
      /\ IsInjective(waiting')
  BY <1>1, <1>2, QueueAppend DEF Live
<1>4. Typed'
  BY <1>1, <1>3 DEF IInv, Typed, Alike, lists
<1>5. Sound(mem)' /\ Exact(mem)'
  BY <1>1, NextMemory DEF IInv
<1>6. Queued'
  <2>1. \A q \in Requests : MaxBlocksFor(q)' = MaxBlocksFor(q)
    BY <1>1 DEF MaxBlocksFor, Positions
  <2>2. Live' = Live \cup {r} /\ Live \subseteq Requests
    BY <1>1, <1>2, <1>3, Basics, QueueRange DEF Live
  <2>3. ask[r].new \in Nat \ {0}
    BY Amounts DEF IInv
  <2>4. Range(waiting') \cap Range(running') = {} /\ IsInjective(running')
    BY <1>1, <1>2, <1>3 DEF IInv, Queued, Live
  <2>5. \A q \in Live' : /\ q \in Range(known') /\ finished'[q] = FALSE
                         /\ generated'[q] < ask'[q].new /\ MaxBlocksFor(q)' <= conf'.pool
    BY <1>1, <1>2, <1>3, <2>1, <2>2, <2>3 DEF IInv, Queued
  <2> QED
    BY <1>1, <1>3, <2>1, <2>2, <2>4, <2>5 DEF IInv, Queued
<1>7. Promised'
  BY <1>1 DEF IInv, Promised, MaxBlocksFor, Positions
<1>8. Progress'
  BY <1>1 DEF IInv, Progress, Sequence
<1>9. Resuming' = Resuming /\ Unstarted' = Unstarted
  BY <1>1 DEF Resuming, Unstarted
<1>10. Resumes'
  BY <1>1, <1>9 DEF IInv, Resumes
<1>11. Prefills'
  BY <1>1, <1>9 DEF IInv, Prefills, SameGroup
<1>12. Decodes' /\ Alive'
  BY <1>1 DEF IInv, Decodes, Alive
<1> QED
  BY <1>4, <1>5, <1>6, <1>7, <1>8, <1>10, <1>11, <1>12 DEF IInv

LEMMA AdmitOneStep ==
  ASSUME IInv, AdmitOne
  PROVE  IInv'
<1> DEFINE r == Head(waiting)
<1>1. /\ UNCHANGED <<conf, ask, known, mem, prefilled, generated, finished, phase, lists>>
      /\ phase = "admit" /\ waiting # <<>> /\ Fits(r)
      /\ waiting' = Tail(waiting) /\ running' = Append(running, r)
      /\ committed' = committed + Need(r)
      /\ budget' = [budget EXCEPT ![r] = Need(r)]
      /\ room' = IF conf.preemption THEN room - Need(r) ELSE room
  BY DEF AdmitOne
<1> HIDE DEF r
<1>2. /\ waiting \in Seq(Requests) /\ IsInjective(waiting)
      /\ running \in Seq(Requests) /\ IsInjective(running)
      /\ Range(waiting) \cap Range(running) = {}
      /\ budget \in [Requests -> Nat] /\ committed \in Nat /\ room \in Nat
      /\ committed = SumOver(budget, Requests)
  BY DEF IInv, Typed, Queued, Promised
<1>3. /\ r \in Range(waiting) /\ r \in Requests /\ waiting' \in Seq(Requests)
      /\ IsInjective(waiting') /\ Range(waiting') = Range(waiting) \ {r}
  BY <1>1, <1>2, QueueTail DEF r
<1>4. /\ running' \in Seq(Requests) /\ Range(running') = Range(running) \cup {r}
      /\ IsInjective(running') /\ r \notin Range(running)
  BY <1>1, <1>2, <1>3, QueueAppend
<1>5. /\ mem.table[r] = <<>> /\ mem.length[r] = 0 /\ prefilled[r] = FALSE /\ budget[r] = 0
  BY <1>3, <1>4 DEF IInv, Promised
<1>6. Need(r) \in Nat
  BY <1>3, Amounts DEF IInv, Need
<1>7. /\ room' \in Nat /\ committed' \in Nat
      /\ conf.preemption => Need(r) = Footprint(r) /\ room' = room - Need(r)
      /\ ~conf.preemption => Need(r) = MaxBlocksFor(r) /\ committed' <= conf.pool
  BY <1>1, <1>2, <1>6 DEF Fits, Need
<1>8. /\ budget' \in [Requests -> Nat] /\ budget'[r] = Need(r)
      /\ \A q \in Requests \ {r} : budget'[q] = budget[q]
  BY <1>1, <1>2, <1>3, <1>6
<1>9. committed' = SumOver(budget', Requests)
  <2> DEFINE f == budget
             g == budget'
  <2>1. IsFiniteSet(Requests) /\ \A q \in Requests : f[q] \in Nat
    BY <1>2, Basics
  <2>2. g[r] \in Nat /\ \A q \in Requests \ {r} : g[q] = f[q]
    BY <1>6, <1>8
  <2> HIDE DEF f, g
  <2>3. SumOver(g, Requests) = SumOver(f, Requests) - f[r] + g[r]
    BY <1>3, <2>1, <2>2, SumMoves
  <2> QED
    BY <1>1, <1>2, <1>5, <1>6, <1>8, <2>3 DEF f, g
<1>10. Typed'
  BY <1>1, <1>3, <1>4, <1>7, <1>8 DEF IInv, Typed, Alike, lists
<1>11. Sound(mem)' /\ Exact(mem)' /\ Free(mem)' = Free(mem)
  BY <1>1, NextMemory DEF IInv
<1>12. Queued'
  <2>1. \A q \in Requests : MaxBlocksFor(q)' = MaxBlocksFor(q)
    BY <1>1 DEF MaxBlocksFor, Positions
  <2>2. Live' = Live /\ Live \subseteq Requests
    BY <1>2, <1>3, <1>4, QueueRange DEF Live
  <2>3. Range(waiting') \cap Range(running') = {}
    BY <1>2, <1>3, <1>4
  <2> QED
    BY <1>1, <1>3, <1>4, <2>1, <2>2, <2>3 DEF IInv, Queued
<1>13. Promised'
  <2>1. \A q \in Requests : MaxBlocksFor(q)' = MaxBlocksFor(q)
    BY <1>1 DEF MaxBlocksFor, Positions
  <2>2. Range(running') \subseteq Requests
    BY <1>4, QueueRange
  <2>3. conf' = conf /\ mem' = mem /\ prefilled' = prefilled
    BY <1>1
  <2>4. \A q \in Requests : q \notin Range(running') =>
          mem'.table[q] = <<>> /\ mem'.length[q] = 0 /\ prefilled'[q] = FALSE /\ budget'[q] = 0
    BY <1>4, <1>8, <2>3 DEF IInv, Promised
  <2>5. ~conf.preemption => \A q \in Range(running') : budget'[q] = MaxBlocksFor(q)'
    BY <1>4, <1>7, <1>8, <2>1, <2>2 DEF IInv, Promised
  <2> QED
    BY <1>7, <1>9, <2>3, <2>4, <2>5 DEF Promised
<1>14. Progress'
  BY <1>1 DEF IInv, Progress, Sequence
<1>15. /\ Resuming' = Resuming \cup (IF generated[r] > 0 THEN {r} ELSE {})
       /\ Unstarted' = Unstarted \cup (IF generated[r] = 0 THEN {r} ELSE {})
       /\ r \notin Resuming
  BY <1>1, <1>4, <1>5 DEF Resuming, Unstarted
<1>16. Missing' = Missing /\ Missing[r] = Footprint(r)
  <2>1. Missing' = Missing
    BY <1>1 DEF Missing, Footprint, Positions
  <2>2. Footprint(r) \in Nat /\ Len(mem.table[r]) = 0
    BY <1>3, <1>5, Amounts DEF IInv
  <2> QED
    BY <1>3, <2>1, <2>2 DEF Missing
<1>17. Resumes'
  <2>1. ASSUME conf.preemption
        PROVE  SumOver(Missing, Resuming') + room' <= Cardinality(Free(mem))
    <3>1. SumOver(Missing, Resuming) + room <= Cardinality(Free(mem))
      BY <1>1, <2>1 DEF IInv, Resumes
    <3>2. /\ \A q \in Requests : Missing[q] \in Nat
          /\ Resuming \subseteq Requests /\ SumOver(Missing, Resuming) \in Nat
      BY MissingIsNat
    <3>3. Cardinality(Free(mem)) \in Nat
      BY Basics
    <3>4. CASE generated[r] > 0
      <4> DEFINE S == Resuming \cup {r}
      <4>1. IsFiniteSet(S) /\ S \subseteq Requests /\ S \ {r} = Resuming /\ r \in S
        <5>1. IsFiniteSet(Requests)
          BY Basics
        <5>2. S \subseteq Requests /\ S \ {r} = Resuming /\ r \in S
          BY <1>3, <1>15, <3>2
        <5> QED
          BY <5>1, <5>2, FS_Subset
      <4>2. Resuming' = S
        BY <1>15, <3>4
      <4> HIDE DEF S
      <4>3. SumOver(Missing, S) = Missing[r] + SumOver(Missing, S \ {r})
        BY <3>2, <4>1, SumSplits
      <4>4. SumOver(Missing, Resuming') = Need(r) + SumOver(Missing, Resuming)
        BY <1>7, <1>16, <2>1, <4>1, <4>2, <4>3
      <4>5. room' = room - Need(r)
        BY <1>7, <2>1
      <4> QED
        BY <1>2, <1>6, <3>1, <3>2, <3>3, <4>4, <4>5
    <3>5. CASE ~(generated[r] > 0)
      <4>1. Resuming' = Resuming
        BY <1>15, <3>5
      <4> QED
        BY <1>2, <1>6, <1>7, <2>1, <3>1, <3>2, <3>3, <4>1
    <3> QED
      BY <3>4, <3>5
  <2>2. ASSUME conf.preemption
        PROVE  \A p \in Resuming' : \A q \in Requests \ {p} :
                 Range(mem.table[p]) \cap Range(mem.table[q]) = {}
    <3>1. \A p \in Resuming : \A q \in Requests \ {p} :
                 Range(mem.table[p]) \cap Range(mem.table[q]) = {}
      BY <1>1, <2>2 DEF IInv, Resumes
    <3>2. Range(mem.table[r]) = {}
      BY <1>5, NoQueue
    <3>3. \A p \in Resuming' : p \in Resuming \/ p = r
      BY <1>15
    <3> QED
      BY <3>1, <3>2, <3>3
  <2>3. conf' = conf /\ phase' = "admit" /\ mem' = mem
    BY <1>1
  <2> QED
    BY <1>11, <1>16, <2>1, <2>2, <2>3 DEF Resumes
<1>18. Prefills'
  <2>1. \A p, q \in Unstarted' : p # q /\ SameGroup(p, q) => mem.table[p] = <<>> \/ mem.table[q] = <<>>
    <3>1. \A p \in Unstarted' : p \in Unstarted \/ p = r
      BY <1>15
    <3> QED
      BY <1>5, <3>1 DEF IInv, Prefills
  <2> QED
    BY <1>1, <2>1 DEF Prefills, SameGroup
<1>19. Decodes' /\ Alive'
  BY <1>1 DEF Decodes, Alive
<1> QED
  BY <1>10, <1>11, <1>12, <1>13, <1>14, <1>17, <1>18, <1>19 DEF IInv

(* A running request that leaves without having finished: evicted, or      *)
(* given up by its client.                                                 *)
LEMMA Departs ==
  ASSUME IInv, NEW v \in Range(running), UNCHANGED <<conf, ask>>,
         mem' = Freed(mem, {v}), Unprefilled({v}), Leave({v}),
         generated' \in [Requests -> Nat],
         \A q \in Requests \ {v} : generated'[q] = generated[q]
  PROVE  /\ Sound(mem)' /\ Exact(mem)' /\ Promised' /\ Progress'
         /\ running' \in Seq(Requests) /\ Range(running') = Range(running) \ {v}
         /\ IsInjective(running')
         /\ committed' \in Nat /\ budget' \in [Requests -> Nat]
         /\ prefilled' \in [Requests -> BOOLEAN]
         /\ Resuming' = Resuming \ {v} /\ Unstarted' = Unstarted \ {v}
         /\ Leaders1'
<1> DEFINE a == Freed(mem, {v})
<1>1. Built /\ Sound(mem) /\ Exact(mem) /\ Shaped(mem) /\ v \in Requests /\ IsInjective(running)
      /\ Range(running) \subseteq Requests /\ conf' = conf /\ ask' = ask /\ mem' = a
  BY Basics
<1>2. /\ a.table[v] = <<>> /\ a.length[v] = 0 /\ ExactIn(a, v)
      /\ \A q \in Requests \ {v} : /\ a.table[q] = mem.table[q] /\ a.length[q] = mem.length[q]
                                   /\ ExactIn(mem, q) => ExactIn(a, q)
      /\ Sound(a)
  BY <1>1, FreedKeeps
<1> HIDE DEF a
<1>3. Exact(a)
  BY <1>1, <1>2 DEF Exact
<1>4. Sound(mem)' /\ Exact(mem)'
  BY <1>1, <1>2, <1>3, NextMemory
<1>5. /\ committed' = SumOver(budget', Requests) /\ committed' \in Nat /\ committed' <= committed
      /\ budget' \in [Requests -> Nat]
      /\ \A q \in Requests : budget'[q] = IF q \in {v} THEN 0 ELSE budget[q]
      /\ running' \in Seq(Requests) /\ Range(running') = Range(running) \ {v}
      /\ IsInjective(running')
  <2>1. Typed /\ committed = SumOver(budget, Requests) /\ {v} \in SUBSET Requests
    BY <1>1 DEF IInv, Promised
  <2> QED
    BY <1>1, <2>1, LeaveReturns
<1>6. /\ prefilled \in [Requests -> BOOLEAN] /\ generated \in [Requests -> Nat]
      /\ committed \in Nat /\ conf.pool \in Nat
  BY <1>1, ConfTypes DEF IInv, Typed
<1>7. /\ prefilled' \in [Requests -> BOOLEAN] /\ prefilled'[v] = FALSE
      /\ \A q \in Requests \ {v} : prefilled'[q] = prefilled[q]
  BY <1>1, <1>6 DEF Unprefilled
<1>8. Promised'
  <2>1. \A q \in Requests : MaxBlocksFor(q)' = MaxBlocksFor(q)
    BY <1>1 DEF MaxBlocksFor, Positions
  <2>2. \A q \in Requests : q \notin Range(running') =>
          mem'.table[q] = <<>> /\ mem'.length[q] = 0 /\ prefilled'[q] = FALSE /\ budget'[q] = 0
    BY <1>1, <1>2, <1>5, <1>7 DEF IInv, Promised
  <2>3. ~conf.preemption => committed' <= conf.pool
    BY <1>5, <1>6 DEF IInv, Promised
  <2>4. ~conf.preemption => \A q \in Range(running') : budget'[q] = MaxBlocksFor(q)'
    BY <1>1, <1>5, <2>1 DEF IInv, Promised
  <2> QED
    BY <1>1, <1>5, <2>2, <2>3, <2>4 DEF Promised
<1>9. Progress'
  <2>1. \A q \in Requests \ {v} : Sequence(q)' = Sequence(q)
    BY <1>1 DEF Sequence
  <2>2. Sequence(v)' \in Nat
    BY <1>1, Amounts DEF IInv, Sequence
  <2>3. ASSUME NEW q \in Requests \ {v}
        PROVE  /\ mem'.length[q] <= Sequence(q)'
               /\ prefilled'[q] => generated'[q] > 0 /\ mem'.length[q] = Sequence(q)'
               /\ conf'.chunk = 0 /\ conf'.entries = 0 /\ ~prefilled'[q] => mem'.length[q] = 0
    BY <1>1, <1>2, <1>7, <2>1, <2>3 DEF IInv, Progress
  <2>4. /\ mem'.length[v] <= Sequence(v)' /\ prefilled'[v] = FALSE /\ mem'.length[v] = 0
    BY <1>1, <1>2, <1>7, <2>2
  <2> QED
    BY <2>3, <2>4 DEF Progress
<1>10. Resuming' = Resuming \ {v} /\ Unstarted' = Unstarted \ {v}
  BY <1>1, <1>5, <1>7 DEF Resuming, Unstarted
<1>11. Leaders1'
  <2>1. Unstarted \subseteq Requests
    BY <1>1 DEF Unstarted
  <2>2. \A p, q \in Unstarted : p # q /\ SameGroup(p, q) => mem.table[p] = <<>> \/ mem.table[q] = <<>>
    BY DEF IInv, Prefills
  <2>3. \A q \in Unstarted' : q \in Unstarted /\ mem'.table[q] = mem.table[q]
    BY <1>1, <1>2, <1>10, <2>1
  <2>4. \A p, q \in Unstarted' : p # q /\ SameGroup(p, q) => mem'.table[p] = <<>> \/ mem'.table[q] = <<>>
    BY <2>2, <2>3
  <2> QED
    BY <1>1, <2>4 DEF Leaders1, SameGroup
<1> QED
  BY <1>4, <1>5, <1>7, <1>8, <1>9, <1>10, <1>11

LEMMA PreemptStep ==
  ASSUME IInv, conf.preemption, phase \in {"prefill", "room"}, NEW v \in Range(running), Preempt(v)
  PROVE  IInv'
<1>1. /\ UNCHANGED <<conf, ask, known, generated, finished, phase, room, lists>>
      /\ mem' = Freed(mem, {v}) /\ Unprefilled({v}) /\ Leave({v})
      /\ waiting' = <<v>> \o waiting
  BY DEF Preempt
<1>2. generated \in [Requests -> Nat] /\ generated' = generated
  BY <1>1 DEF IInv, Typed
<1>3. /\ Sound(mem)' /\ Exact(mem)' /\ Promised' /\ Progress'
      /\ running' \in Seq(Requests) /\ Range(running') = Range(running) \ {v}
      /\ IsInjective(running')
      /\ committed' \in Nat /\ budget' \in [Requests -> Nat]
      /\ prefilled' \in [Requests -> BOOLEAN]
      /\ Resuming' = Resuming \ {v} /\ Unstarted' = Unstarted \ {v}
      /\ Leaders1'
  BY <1>1, <1>2, Departs
<1>4. waiting \in Seq(Requests) /\ IsInjective(waiting) /\ v \in Requests /\ v \notin Range(waiting)
      /\ Range(waiting) \cap Range(running) = {}
  BY Basics DEF IInv, Typed, Queued
<1>5. /\ waiting' \in Seq(Requests) /\ Range(waiting') = Range(waiting) \cup {v}
      /\ IsInjective(waiting')
  BY <1>1, <1>4, QueuePrepend
<1>6. Typed'
  BY <1>1, <1>3, <1>5 DEF IInv, Typed, Alike, lists
<1>7. Queued'
  <2>1. \A q \in Requests : MaxBlocksFor(q)' = MaxBlocksFor(q)
    BY <1>1 DEF MaxBlocksFor, Positions
  <2>2. Live' = Live /\ Live \subseteq Requests
    BY <1>3, <1>4, <1>5, Basics, QueueRange DEF Live
  <2>3. Range(waiting') \cap Range(running') = {}
    BY <1>3, <1>4, <1>5
  <2> QED
    BY <1>1, <1>3, <1>5, <2>1, <2>2, <2>3 DEF IInv, Queued
<1>8. Resumes'
  BY <1>1, <1>3 DEF IInv, Resumes
<1>9. Prefills'
  <2>1. \A p, q \in Unstarted' : p # q /\ SameGroup(p, q)' => mem'.table[p] = <<>> \/ mem'.table[q] = <<>>
    BY <1>3 DEF Leaders1
  <2>2. CASE phase = "room"
    BY <1>1, <2>1, <2>2 DEF Prefills
  <2>3. CASE phase = "prefill"
    <3>1. /\ IsInjective(prefilling)
          /\ Range(prefilling) \cap Range(running) \subseteq Unstarted
          /\ \A r \in Range(prefilling) \cap Range(running), q \in Unstarted :
               SameGroup(r, q) => q \in Range(prefilling)
      BY <2>3 DEF IInv, Prefills
    <3>2. /\ Range(prefilling) \cap Range(running') \subseteq Unstarted'
          /\ \A r \in Range(prefilling) \cap Range(running'), q \in Unstarted' :
               SameGroup(r, q) => q \in Range(prefilling)
      BY <1>3, <3>1
    <3>3. phase' = "prefill" /\ conf'.preemption /\ prefilling' = prefilling /\ ask' = ask
      BY <1>1, <2>3 DEF lists
    <3> QED
      BY <2>1, <3>1, <3>2, <3>3 DEF Prefills, SameGroup
  <2> QED
    BY <2>2, <2>3
<1>10. Decodes' /\ Alive'
  BY <1>1 DEF IInv, Decodes, Alive, lists
<1> QED
  BY <1>3, <1>6, <1>7, <1>8, <1>9, <1>10 DEF IInv

LEMMA AbortStep ==
  ASSUME IInv, NEW r \in Requests, Abort(r)
  PROVE  IInv'
<1>1. /\ UNCHANGED <<conf, ask, finished, phase, room, lists>>
      /\ phase = "between"
      /\ known' = Without(known, {r}) /\ generated' = [generated EXCEPT ![r] = 0]
  BY DEF Abort
<1>2. /\ known \in Seq(Requests) /\ generated \in [Requests -> Nat]
      /\ waiting \in Seq(Requests) /\ IsInjective(waiting) /\ Range(waiting) \cap Range(running) = {}
      /\ prefilled \in [Requests -> BOOLEAN]
  BY DEF IInv, Typed, Queued
<1>3. /\ known' \in Seq(Requests) /\ Range(known') = Range(known) \ {r}
      /\ generated' \in [Requests -> Nat] /\ generated'[r] = 0
      /\ \A q \in Requests \ {r} : generated'[q] = generated[q]
  BY <1>1, <1>2, WithoutQueue
<1>4. Live \subseteq Requests
  BY <1>2, Basics, QueueRange DEF Live
(* Whichever queue it leaves. *)
<1>5. ASSUME Sound(mem)', Exact(mem)', Promised', Progress', Leaders1', Resuming' = {},
             running' \in Seq(Requests), waiting' \in Seq(Requests),
             IsInjective(running'), IsInjective(waiting'),
             Range(waiting') \subseteq Range(waiting) \ {r}, Range(running') \subseteq Range(running) \ {r},
             committed' \in Nat, budget' \in [Requests -> Nat], prefilled' \in [Requests -> BOOLEAN],
             r \in Live
      PROVE  IInv'
  <2>1. Typed'
    BY <1>1, <1>3, <1>5 DEF IInv, Typed, Alike, lists
  <2>2. Queued'
    <3>1. \A q \in Requests : MaxBlocksFor(q)' = MaxBlocksFor(q)
      BY <1>1 DEF MaxBlocksFor, Positions
    <3>2. Live' \subseteq Live \ {r}
      BY <1>5 DEF Live
    <3>3. Range(waiting') \cap Range(running') = {}
      BY <1>2, <1>5
    <3>4. \A q \in Live' : /\ q \in Range(known') /\ finished'[q] = FALSE
                           /\ generated'[q] < ask'[q].new /\ MaxBlocksFor(q)' <= conf'.pool
      BY <1>1, <1>3, <1>4, <3>1, <3>2 DEF IInv, Queued
    <3>5. \A q \in Requests : q \notin Range(known') => generated'[q] = 0 /\ finished'[q] = FALSE
      BY <1>1, <1>3, <1>5 DEF IInv, Queued
    <3> QED
      BY <1>5, <3>3, <3>4, <3>5 DEF Queued
  <2>3. Resumes' /\ Decodes' /\ Alive'
    BY <1>1, <1>5 DEF Resumes, Decodes, Alive
  <2>4. Prefills'
    BY <1>1, <1>5 DEF Prefills, Leaders1
  <2> QED
    BY <1>5, <2>1, <2>2, <2>3, <2>4 DEF IInv
<1>6. Resuming = {}
  BY <1>1 DEF IInv, Resumes
<1>7. CASE r \in Range(running) /\ mem' = Freed(mem, {r}) /\ Unprefilled({r}) /\ Leave({r})
           /\ waiting' = waiting
  <2>1. /\ Sound(mem)' /\ Exact(mem)' /\ Promised' /\ Progress'
        /\ running' \in Seq(Requests) /\ Range(running') = Range(running) \ {r}
        /\ IsInjective(running')
        /\ committed' \in Nat /\ budget' \in [Requests -> Nat]
        /\ prefilled' \in [Requests -> BOOLEAN]
        /\ Resuming' = Resuming \ {r} /\ Leaders1'
    BY <1>1, <1>3, <1>7, Departs
  <2>2. r \in Live /\ Range(waiting') \subseteq Range(waiting) \ {r}
    BY <1>2, <1>7 DEF Live
  <2> QED
    BY <1>2, <1>5, <1>6, <1>7, <2>1, <2>2
<1>8. CASE r \in Range(waiting) /\ waiting' = Without(waiting, {r})
           /\ UNCHANGED <<running, committed, budget, mem, prefilled>>
  <2>1. /\ waiting' \in Seq(Requests) /\ IsInjective(waiting')
        /\ Range(waiting') = Range(waiting) \ {r}
    BY <1>2, <1>8, WithoutQueue
  <2>2. r \notin Range(running) /\ r \in Live
    BY <1>2, <1>8 DEF Live
  <2>3. mem.length[r] = 0 /\ prefilled[r] = FALSE
    BY <2>2 DEF IInv, Promised
  <2>4. Sound(mem)' /\ Exact(mem)'
    BY <1>1, <1>8, NextMemory DEF IInv
  <2>5. Promised'
    BY <1>1, <1>8 DEF IInv, Promised, MaxBlocksFor, Positions
  <2>6. Progress'
    <3>1. \A q \in Requests \ {r} : Sequence(q)' = Sequence(q)
      BY <1>1, <1>3 DEF Sequence
    <3>2. Sequence(r)' \in Nat
      BY <1>1, <1>3, Amounts DEF IInv, Sequence
    <3>3. mem' = mem /\ prefilled' = prefilled /\ conf' = conf
      BY <1>1, <1>8
    <3> QED
      BY <1>3, <2>3, <3>1, <3>2, <3>3 DEF IInv, Progress
  <2>7. \A q \in Range(running) : generated'[q] = generated[q]
    BY <1>3, <2>2, Basics
  <2>8. Resuming' = Resuming /\ Unstarted' = Unstarted
    BY <1>8, <2>7 DEF Resuming, Unstarted
  <2>9. Leaders1'
    BY <1>1, <1>8, <2>8 DEF IInv, Prefills, Leaders1, SameGroup
  <2>10. /\ running' \in Seq(Requests) /\ IsInjective(running') /\ Range(running') \subseteq Range(running) \ {r}
         /\ committed' \in Nat /\ budget' \in [Requests -> Nat] /\ prefilled' \in [Requests -> BOOLEAN]
    BY <1>8, <2>2 DEF IInv, Typed, Queued
  <2> QED
    BY <1>5, <1>6, <2>1, <2>2, <2>4, <2>5, <2>6, <2>8, <2>9, <2>10
<1> QED
  BY <1>7, <1>8 DEF Abort

-----------------------------------------------------------------------------
(* Prefix groups, and the room that is made for a chunk *)

LEMMA GroupIs ==
  ASSUME IInv, phase = "prefill", prefilling # <<>>, ~Gone(Head(prefilling)),
         NEW h, h = Head(prefilling), NEW g, g = Group(h)
  PROVE  /\ g \in Seq(Requests) /\ h \in Range(g)
         /\ Range(g) \subseteq Range(prefilling) \cap Unstarted
         /\ \A q \in Range(g) : q = h \/ SameGroup(h, q)
         /\ \A q \in Unstarted : SameGroup(h, q) => q \in Range(g)
         /\ Leader(g) \in Range(g)
         /\ \A q \in Range(g) \ {Leader(g)} : mem.table[q] = <<>>
         /\ ~Refused(g) => \A q \in Range(g) : ask[q].prompt = ask[Leader(g)].prompt
         /\ SamePrompts => ~Refused(g)
<1>1. /\ prefilling \in Seq(Requests) /\ IsInjective(prefilling)
      /\ Range(prefilling) \cap Range(running) \subseteq Unstarted
      /\ ~conf.preemption => Range(prefilling) \subseteq Range(running)
      /\ \A r \in Range(prefilling) \cap Range(running), q \in Unstarted :
           SameGroup(r, q) => q \in Range(prefilling)
      /\ \A r, q \in Unstarted : r # q /\ SameGroup(r, q) => mem.table[r] = <<>> \/ mem.table[q] = <<>>
  BY DEF IInv, Typed, Prefills
<1>2. h \in Range(prefilling) /\ h \in Requests /\ Unstarted \subseteq Range(running)
      /\ Range(running) \subseteq Requests
  BY <1>1, QueueTail, Basics DEF Unstarted
<1>3. /\ g \in Seq(Requests) /\ IsInjective(g)
      /\ Range(g) = Range(prefilling) \cap {q \in Requests :
           ~Gone(q) /\ (q = h \/ (ask[h].group # 0 /\ ask[q].group = ask[h].group))}
  BY <1>1, ThoseExact DEF Group
<1>4. \A q \in Range(prefilling) : ~Gone(q) <=> q \in Range(running)
  BY <1>1 DEF Gone
<1>5. h \in Range(g) /\ h \in Unstarted
  BY <1>1, <1>2, <1>3, <1>4
<1>6. \A q \in Range(g) : /\ q \in Range(prefilling) /\ q \in Unstarted /\ q \in Requests
                          /\ q = h \/ SameGroup(h, q)
  BY <1>1, <1>3, <1>4 DEF SameGroup
<1>7. ASSUME NEW q \in Unstarted, SameGroup(h, q) PROVE q \in Range(g)
  <2>1. h \in Range(prefilling) \cap Range(running)
    BY <1>2, <1>5
  <2>2. q \in Range(prefilling) /\ q \in Range(running) /\ q \in Requests
    BY <1>1, <1>2, <1>7, <2>1
  <2> QED
    BY <1>3, <1>4, <1>7, <2>2 DEF SameGroup
<1>8. \A x, y \in Range(g) : x # y => SameGroup(x, y)
  BY <1>6 DEF SameGroup
<1> DEFINE lead == Leaders(g)
<1>9. /\ lead \in Seq(Requests) /\ IsInjective(lead)
      /\ Range(lead) = Range(g) \cap {q \in Requests : mem.table[q] # <<>>}
  BY <1>3, ThoseExact DEF Leaders
<1>10. g # <<>> /\ Head(g) \in Range(g)
  BY <1>3, <1>5, QueueRange, QueueTail
<1>11. Leader(g) = IF lead # <<>> THEN Head(lead) ELSE Head(g)
  BY DEF Leader
<1> HIDE DEF lead
<1>12. \A x, y \in Range(lead) : x = y
  BY <1>1, <1>6, <1>8, <1>9
<1>13. Len(lead) <= 1
  <2> SUFFICES ASSUME ~(Len(lead) <= 1) PROVE FALSE
    OBVIOUS
  <2>1. 1 \in DOMAIN lead /\ 2 \in DOMAIN lead
    BY <1>9
  <2>2. lead[1] \in Range(lead) /\ lead[2] \in Range(lead)
    BY <2>1 DEF Range
  <2>3. lead[1] = lead[2]
    BY <1>12, <2>2
  <2>4. \A i, j \in DOMAIN lead : lead[i] = lead[j] => i = j
    BY <1>9 DEF IsInjective
  <2>5. 1 = 2
    BY <2>1, <2>3, <2>4
  <2> QED
    BY <2>5
<1>14. lead # <<>> => Head(lead) \in Range(lead)
  BY <1>9, QueueTail
<1>15. Leader(g) \in Range(g)
  BY <1>9, <1>10, <1>11, <1>14
<1>16. ASSUME NEW q \in Range(g), q # Leader(g) PROVE mem.table[q] = <<>>
  <2> SUFFICES ASSUME mem.table[q] # <<>> PROVE FALSE
    OBVIOUS
  <2>1. q \in Range(lead)
    BY <1>6, <1>9
  <2>2. lead # <<>>
    BY <2>1, NoQueue
  <2> QED
    BY <1>11, <1>12, <1>14, <1>16, <2>1, <2>2
<1>17. ASSUME ~Refused(g) PROVE \A q \in Range(g) : ask[q].prompt = ask[Leader(g)].prompt
  BY <1>15, <1>17 DEF Refused
<1>18. ASSUME SamePrompts PROVE ~Refused(g)
  <2>1. \A r, q \in Requests : ask[r].group = ask[q].group /\ ask[r].group # 0 =>
          ask[r].prompt = ask[q].prompt /\ ask[r].text = ask[q].text
    BY <1>18 DEF IInv, Typed, Alike
  <2>2. \A q \in Range(g) : ask[q].prompt = ask[Head(g)].prompt /\ ask[q].text = ask[Head(g)].text
    <3> SUFFICES ASSUME NEW q \in Range(g)
                 PROVE  ask[q].prompt = ask[Head(g)].prompt /\ ask[q].text = ask[Head(g)].text
      OBVIOUS
    <3>1. q = Head(g) \/ SameGroup(q, Head(g))
      BY <1>8, <1>10
    <3> QED
      BY <1>6, <1>10, <2>1, <3>1 DEF SameGroup
  <2> QED
    BY <1>13, <2>2 DEF Refused, lead
<1> QED
  BY <1>3, <1>5, <1>6, <1>7, <1>15, <1>16, <1>17, <1>18

(* Admission left room for the recomputes: their tables are private, so    *)
(* they copy nothing, and what they miss was counted.                      *)
LEMMA ResumeFinds ==
  ASSUME IInv, conf.preemption, phase = "resume", NEW r \in Resuming
  PROVE  /\ Growth(mem, r, Chunk(r)) \in Nat /\ Growth(mem, r, Chunk(r)) <= Missing[r]
         /\ BlocksToGrow(mem, r, Chunk(r)) = Growth(mem, r, Chunk(r))
         /\ BlocksToGrow(mem, r, Chunk(r)) <= Cardinality(Free(mem))
<1>1. Built /\ Sound(mem) /\ Exact(mem) /\ Shaped(mem) /\ Cardinality(Free(mem)) \in Nat
  BY Basics
<1>2. /\ \A q \in Requests : Missing[q] \in Nat
      /\ Resuming \subseteq Requests /\ IsFiniteSet(Resuming)
      /\ SumOver(Missing, Resuming) \in Nat
  BY MissingIsNat
<1>3. r \in Requests /\ ExactIn(mem, r) /\ mem.length[r] \in Nat
  BY <1>1, <1>2, Basics DEF Exact
<1>4. Chunk(r) \in Nat /\ mem.length[r] + Chunk(r) <= Sequence(r)
  BY <1>3, ChunkIs
<1>5. /\ Growth(mem, r, Chunk(r)) = Positions(mem.length[r] + Chunk(r)) - Len(mem.table[r])
      /\ Growth(mem, r, Chunk(r)) \in Nat
  BY <1>1, <1>3, <1>4, GrowthIs
<1>6. Growth(mem, r, Chunk(r)) <= Missing[r]
  <2>1. Sequence(r) \in Nat /\ Footprint(r) \in Nat /\ Positions(Sequence(r)) <= Footprint(r)
    BY <1>3, Amounts DEF IInv
  <2>2. mem.length[r] + Chunk(r) \in Nat
    BY <1>3, <1>4
  <2>3. Positions(mem.length[r] + Chunk(r)) <= Positions(Sequence(r))
        /\ Positions(mem.length[r] + Chunk(r)) \in Nat /\ Positions(Sequence(r)) \in Nat
    BY <1>1, <1>4, <2>1, <2>2, PositionsMono
  <2>4. Missing[r] = Footprint(r) - Len(mem.table[r]) /\ Len(mem.table[r]) \in Nat
    BY <1>1, <1>3, Shapes DEF Missing
  <2> QED
    BY <1>5, <2>1, <2>3, <2>4
<1>7. Copied(mem, r, Chunk(r)) = {}
  <2>1. Copied(mem, r, Chunk(r)) = {i \in DOMAIN mem.table[r] : ~Whole(mem, r, i) /\
                              \E q \in Requests \ {r} : mem.table[r][i] \in Range(mem.table[q])}
    BY <1>1, <1>3, <1>4, CopiedShared
  <2>2. \A q \in Requests \ {r} : Range(mem.table[r]) \cap Range(mem.table[q]) = {}
    BY DEF IInv, Resumes
  <2>3. \A i \in DOMAIN mem.table[r] : mem.table[r][i] \in Range(mem.table[r])
    BY DEF Range
  <2> QED
    BY <2>1, <2>2, <2>3
<1>8. BlocksToGrow(mem, r, Chunk(r)) = Growth(mem, r, Chunk(r))
  <2>1. Cardinality(Copied(mem, r, Chunk(r))) = 0
    BY <1>7, FS_EmptySet
  <2> QED
    BY <1>5, <2>1 DEF BlocksToGrow
<1>9. Missing[r] <= Cardinality(Free(mem))
  <2>1. SumOver(Missing, Resuming) + room <= Cardinality(Free(mem)) /\ room \in Nat
    BY DEF IInv, Typed, Resumes
  <2>2. SumOver(Missing, Resuming) = Missing[r] + SumOver(Missing, Resuming \ {r})
    BY <1>2, SumSplits
  <2>3. SumOver(Missing, Resuming \ {r}) \in Nat
    <3>1. Resuming \ {r} \in SUBSET Resuming /\ \A q \in Resuming : Missing[q] \in Nat
      BY <1>2
    <3> QED
      BY <1>2, <3>1, SumIsNat
  <2>4. Missing[r] \in Nat
    BY <1>2, <1>3
  <2> QED
    BY <1>1, <1>2, <2>1, <2>2, <2>3, <2>4
<1>10. Missing[r] \in Nat
  BY <1>2, <1>3
<1> QED
  BY <1>1, <1>5, <1>6, <1>8, <1>9, <1>10

LEMMA VictimRuns ==
  ASSUME IInv, NEW exclude
  PROVE  LET victims == Victims(exclude) IN
         /\ victims = <<>> => Range(running) \subseteq exclude
         /\ victims # <<>> => Last(victims) \in Range(running)
<1> DEFINE victims == Victims(exclude)
           D == exclude \cup {r \in Requests : finished[r]}
<1>1. running \in Seq(Requests) /\ Range(running) \subseteq Requests
  BY Basics
<1>2. victims \in Seq(Requests) /\ Range(victims) = Range(running) \ D
  BY <1>1, WithoutQueue DEF Victims
<1>3. \A r \in Range(running) : finished[r] = FALSE
  BY DEF IInv, Queued, Live
<1>4. Range(victims) = Range(running) \ exclude
  BY <1>1, <1>2, <1>3
<1> HIDE DEF victims
<1>5. victims = <<>> => Range(victims) = {}
  BY NoQueue
<1>6. victims # <<>> => Last(victims) \in Range(victims)
  <2> SUFFICES ASSUME victims # <<>> PROVE Last(victims) \in Range(victims)
    OBVIOUS
  <2>1. Len(victims) \in DOMAIN victims
    BY <1>2
  <2> QED
    BY <2>1 DEF Last, Range
<1> QED
  BY <1>4, <1>5, <1>6 DEF victims

LEMMA EnsurePoolRoomStep ==
  ASSUME IInv, EnsurePoolRoom
  PROVE  IInv'
<1>1. PICK r \in Requests :
       /\ \/ phase = "resume" /\ visiting # <<>> /\ r = Head(visiting)
          \/ /\ phase = "prefill" /\ prefilling # <<>> /\ ~Gone(Head(prefilling))
             /\ r = Leader(Group(Head(prefilling)))
       /\ Cardinality(Free(mem)) < BlocksToGrow(mem, r, Chunk(r))
       /\ EvictFor({r})
  BY DEF EnsurePoolRoom
<1>2. conf.preemption /\ Cardinality(Free(mem)) \in Nat /\ r \in Requests
      /\ BlocksToGrow(mem, r, Chunk(r)) \in Nat
  <2>1. ExactIn(mem, r) /\ Built /\ Shaped(mem) /\ Cardinality(Free(mem)) \in Nat
    BY Basics DEF Exact
  <2>2. Chunk(r) \in Nat
    BY ChunkIs
  <2> QED
    BY <2>1, <2>2, GrowthIs DEF EnsurePoolRoom
<1>3. CASE phase = "resume" /\ visiting # <<>> /\ r = Head(visiting)
  <2>1. r \in Resuming
    BY <1>3, QueueTail DEF IInv, Typed, Resumes
  <2>2. BlocksToGrow(mem, r, Chunk(r)) <= Cardinality(Free(mem))
    BY <1>2, <1>3, <2>1, ResumeFinds
  <2> QED
    BY <1>1, <1>2, <2>2
<1>4. CASE /\ phase = "prefill" /\ prefilling # <<>> /\ ~Gone(Head(prefilling))
           /\ r = Leader(Group(Head(prefilling)))
  <2>1. r \in Range(running)
    BY <1>4, GroupIs DEF Unstarted
  <2>2. CASE Victims({r}) = <<>>
    <3>1. Range(running) = {r}
      BY <2>1, <2>2, VictimRuns
    <3>2. Chunk(r) \in Nat /\ mem.length[r] + Chunk(r) <= Sequence(r)
      BY ChunkIs
    <3>3. BlocksToGrow(mem, r, Chunk(r)) <= Cardinality(Free(mem))
      BY <1>2, <2>1, <3>1, <3>2, LoneCovers
    <3> QED
      BY <1>1, <1>2, <3>3
  <2>3. CASE Victims({r}) # <<>>
    <3>1. Preempt(Last(Victims({r}))) /\ Last(Victims({r})) \in Range(running)
      BY <1>1, <2>3, VictimRuns DEF EvictFor
    <3> QED
      BY <1>2, <1>4, <3>1, PreemptStep
  <2> QED
    BY <2>2, <2>3
<1> QED
  BY <1>1, <1>3, <1>4

LEMMA RoomEvictStep ==
  ASSUME IInv, RoomEvict
  PROVE  IInv'
<1>1. phase = "room" /\ Demand(Survivors) > Cardinality(Free(mem)) /\ EvictFor({})
  BY DEF RoomEvict
<1>2. CASE Victims({}) = <<>>
  <2>1. Range(running) = {}
    BY <1>2, VictimRuns
  <2>2. Range(Survivors) = {}
    <3>1. decoding \in Seq(Requests)
      BY DEF IInv, Typed
    <3>2. \A r \in Requests : prefilled[r] = FALSE
      BY <2>1 DEF IInv, Promised
    <3>3. Range(Survivors) = Range(decoding) \cap {r \in Requests : prefilled[r]}
      BY <3>1, ThoseExact DEF Survivors
    <3> QED
      BY <3>2, <3>3
  <2>3. Demand(Survivors) = SumOver(Draws, {})
    <3>1. Range(Survivors) \subseteq Requests
      BY <2>2
    <3> QED
      BY <2>2, <3>1, DemandIsSum
  <2>4. Demand(Survivors) = 0 /\ Cardinality(Free(mem)) \in Nat
    BY <2>3, SumEmpty, Basics
  <2> QED
    BY <1>1, <2>4
<1>3. CASE Victims({}) # <<>>
  <2>1. Preempt(Last(Victims({}))) /\ Last(Victims({})) \in Range(running)
    BY <1>1, <1>3, VictimRuns DEF EvictFor
  <2>2. conf.preemption
    BY <1>1 DEF IInv, Decodes
  <2> QED
    BY <1>1, <2>1, <2>2, PreemptStep
<1> QED
  BY <1>2, <1>3

-----------------------------------------------------------------------------
(* Recomputes and cache hits *)

LEMMA GrownNext ==
  ASSUME IInv, NEW r \in Range(running), NEW n \in Nat, NEW a, Grown(mem, a, r, n),
         mem' = a, UNCHANGED <<conf, ask, running, committed, budget>>,
         \A q \in Requests \ {r} : prefilled'[q] = prefilled[q]
  PROVE  /\ Sound(mem)' /\ Exact(mem)' /\ Promised'
         /\ mem'.length[r] = mem.length[r] + n
         /\ \A q \in Requests \ {r} : mem'.length[q] = mem.length[q] /\ mem'.table[q] = mem.table[q]
<1>1. Built /\ Sound(mem) /\ Exact(mem) /\ r \in Requests /\ Range(running) \subseteq Requests
      /\ conf' = conf /\ running' = running
  BY Basics
<1>2. /\ Sound(a) /\ \A q \in Requests : ExactIn(mem, q) => ExactIn(a, q)
      /\ a.length[r] = mem.length[r] + n
      /\ \A q \in Requests \ {r} : a.length[q] = mem.length[q] /\ a.table[q] = mem.table[q]
  BY <1>1, GrownSound
<1>3. Exact(a)
  BY <1>1, <1>2 DEF Exact
<1>4. Sound(mem)' /\ Exact(mem)'
  BY <1>1, <1>2, <1>3, NextMemory
<1>5. Promised'
  <2>1. \A q \in Requests : MaxBlocksFor(q)' = MaxBlocksFor(q)
    BY DEF MaxBlocksFor, Positions
  <2>2. \A q \in Requests : q \notin Range(running') =>
          mem'.table[q] = <<>> /\ mem'.length[q] = 0 /\ prefilled'[q] = FALSE /\ budget'[q] = 0
    BY <1>1, <1>2 DEF IInv, Promised
  <2> QED
    BY <1>1, <2>1, <2>2 DEF IInv, Promised
<1> QED
  BY <1>2, <1>4, <1>5

LEMMA ResumeChunkStep ==
  ASSUME IInv, ResumeChunk
  PROVE  IInv'
<1>0. PICK r \in Requests : r = Head(visiting)
  BY QueueTail DEF ResumeChunk, IInv, Typed
<1> DEFINE n == Chunk(r)
           m == Appended(mem, r, n)
           done == m.length[r] = Sequence(r)
<1>1. /\ phase = "resume" /\ visiting # <<>> /\ HasRoom(r)
      /\ IF ~m.ok THEN Die
         ELSE /\ mem' = m
              /\ prefilled' = [prefilled EXCEPT ![r] = done]
              /\ visiting' = IF done THEN Tail(visiting) ELSE visiting
              /\ UNCHANGED <<conf, ask, known, queues, generated, finished, phase, room,
                             prefilling, decoding>>
  BY <1>0 DEF ResumeChunk
<1>2. /\ visiting \in Seq(Requests) /\ IsInjective(visiting) /\ Range(visiting) = Resuming
      /\ generated \in [Requests -> Nat] /\ prefilled \in [Requests -> BOOLEAN] /\ room \in Nat
      /\ prefilling \in Seq(Requests) /\ decoding \in Seq(Requests)
  BY <1>1 DEF IInv, Typed, Resumes
<1>3. r \in Resuming /\ r \in Range(running) /\ r \in Requests /\ generated[r] > 0 /\ prefilled[r] = FALSE
      /\ Tail(visiting) \in Seq(Requests) /\ IsInjective(Tail(visiting))
      /\ Range(Tail(visiting)) = Resuming \ {r}
  BY <1>0, <1>1, <1>2, QueueTail, Basics DEF Resuming
<1>4. n \in Nat /\ mem.length[r] + n <= Sequence(r)
      /\ (conf.chunk = 0 => mem.length[r] + n = Sequence(r))
  BY <1>3, ChunkIs
<1>5. Grown(mem, m, r, n)
  BY <1>1, <1>3, ChunkGrows
<1>6. m.ok = TRUE
  BY <1>5 DEF Grown
<1> HIDE DEF m, n, done
<1>7. /\ mem' = m
      /\ prefilled' = [prefilled EXCEPT ![r] = done]
      /\ visiting' = IF done THEN Tail(visiting) ELSE visiting
      /\ UNCHANGED <<conf, ask, known, queues, generated, finished, phase, room,
                     prefilling, decoding>>
  BY <1>1, <1>6
<1>8. /\ conf' = conf /\ ask' = ask /\ running' = running /\ committed' = committed
      /\ budget' = budget /\ waiting' = waiting /\ known' = known /\ generated' = generated
      /\ finished' = finished /\ phase' = "resume" /\ room' = room
      /\ prefilling' = prefilling /\ decoding' = decoding
  BY <1>1, <1>7 DEF queues
<1>9. done \in BOOLEAN
  BY DEF done
<1>10. /\ prefilled' \in [Requests -> BOOLEAN] /\ prefilled'[r] = done
       /\ \A q \in Requests \ {r} : prefilled'[q] = prefilled[q]
  BY <1>2, <1>3, <1>7, <1>9
<1>11. /\ Sound(mem)' /\ Exact(mem)' /\ Promised'
       /\ mem'.length[r] = mem.length[r] + n
       /\ \A q \in Requests \ {r} : mem'.length[q] = mem.length[q] /\ mem'.table[q] = mem.table[q]
  BY <1>3, <1>4, <1>5, <1>7, <1>8, <1>10, GrownNext
<1>12. done <=> mem.length[r] + n = Sequence(r)
  BY <1>7, <1>11 DEF done
<1>13. visiting' \in Seq(Requests) /\ IsInjective(visiting')
       /\ Range(visiting') = IF done THEN Resuming \ {r} ELSE Resuming
  BY <1>2, <1>3, <1>7
<1>14. Typed'
  BY <1>8, <1>10, <1>13 DEF IInv, Typed, Alike, Phases
<1>15. Queued'
  BY <1>8 DEF IInv, Queued, Live, MaxBlocksFor, Positions
<1>16. Progress'
  <2>1. \A q \in Requests : Sequence(q)' = Sequence(q)
    BY <1>8 DEF Sequence
  <2>2. ASSUME NEW q \in Requests \ {r}
        PROVE  /\ mem'.length[q] <= Sequence(q)'
               /\ prefilled'[q] => generated'[q] > 0 /\ mem'.length[q] = Sequence(q)'
               /\ conf'.chunk = 0 /\ conf'.entries = 0 /\ ~prefilled'[q] => mem'.length[q] = 0
    BY <1>8, <1>10, <1>11, <2>1 DEF IInv, Progress
  <2>3. Sequence(r)' = Sequence(r) /\ mem'.length[r] = mem.length[r] + n /\ conf' = conf
        /\ generated'[r] > 0 /\ prefilled'[r] = done
    BY <1>3, <1>8, <1>10, <1>11, <2>1
  <2>4. /\ mem'.length[r] <= Sequence(r)'
        /\ prefilled'[r] => generated'[r] > 0 /\ mem'.length[r] = Sequence(r)'
        /\ conf'.chunk = 0 /\ conf'.entries = 0 /\ ~prefilled'[r] => mem'.length[r] = 0
    BY <1>4, <1>12, <2>3
  <2>5. ASSUME NEW q \in Requests
        PROVE  /\ mem'.length[q] <= Sequence(q)'
               /\ prefilled'[q] => generated'[q] > 0 /\ mem'.length[q] = Sequence(q)'
               /\ conf'.chunk = 0 /\ conf'.entries = 0 /\ ~prefilled'[q] => mem'.length[q] = 0
    <3>1. CASE q = r
      BY <2>4, <3>1
    <3>2. CASE q # r
      BY <2>2, <3>2
    <3> QED
      BY <3>1, <3>2
  <2> QED
    BY <2>5 DEF Progress
<1>17. Resuming' = (IF done THEN Resuming \ {r} ELSE Resuming) /\ Unstarted' = Unstarted
       /\ r \notin Unstarted /\ Unstarted \subseteq Requests
  BY <1>3, <1>8, <1>10, Basics DEF Resuming, Unstarted
<1>18. Resumes'
  <2>1. ASSUME conf.preemption
        PROVE  SumOver(Missing', Resuming') + room <= Cardinality(Free(mem)')
    <3> DEFINE f == Missing
               h == Missing'
               grow == Growth(mem, r, n)
               free == Cardinality(Free(mem))
               next == Cardinality(Free(mem)')
               rest == SumOver(f, Resuming \ {r})
    <3>1. /\ grow \in Nat /\ grow <= f[r] /\ BlocksToGrow(mem, r, n) = grow
      BY <1>1, <1>3, <2>1, ResumeFinds DEF n
    <3>2. free <= next + grow
      <4>1. Free(mem)' = Free(m)
        BY <1>7, <1>8, NextMemory
      <4> QED
        BY <1>5, <3>1, <4>1 DEF Grown
    <3>3. SumOver(f, Resuming) + room <= free
      BY <1>1, <2>1 DEF IInv, Resumes
    <3>4. /\ \A q \in Requests : f[q] \in Nat
          /\ Resuming \subseteq Requests /\ IsFiniteSet(Resuming)
      BY MissingIsNat
    <3>5. free \in Nat /\ next \in Nat
      <4>1. Free(mem)' = Free(m) /\ Built
        BY <1>7, <1>8, NextMemory, Basics
      <4> QED
        BY <4>1, FreeCounts
    <3>6. /\ \A q \in Requests \ {r} : h[q] = f[q]
          /\ h[r] = f[r] - grow
      <4>1. \A q \in Requests : Footprint(q)' = Footprint(q)
        BY <1>8 DEF Footprint, Positions
      <4>2. \A q \in Requests : f[q] = Footprint(q) - Len(mem.table[q]) /\ h[q] = Footprint(q) - Len(mem'.table[q])
        BY <4>1 DEF Missing
      <4>3. Len(mem'.table[r]) = Len(mem.table[r]) + grow
        <5>1. Built /\ Shaped(mem) /\ ExactIn(mem, r)
          BY <1>3, Basics DEF Exact
        <5>2. grow = Positions(mem.length[r] + n) - Len(mem.table[r]) /\ Len(mem.table[r]) \in Nat
          BY <1>3, <1>4, <5>1, GrowthIs, Shapes
        <5>3. Len(mem'.table[r]) = Positions(mem.length[r] + n)
          <6>1. ExactIn(m, r) /\ m.length[r] = mem.length[r] + n
            BY <1>5, <1>7, <1>11 DEF Grown
          <6> QED
            BY <1>7, <6>1 DEF ExactIn
        <5>4. Positions(mem.length[r] + n) \in Nat
          <6>1. mem.length[r] + n \in Nat
            BY <1>3, <1>4, Basics
          <6> QED
            BY <5>1, <6>1, PositionsMono
        <5> QED
          BY <5>2, <5>3, <5>4
      <4>4. Footprint(r) \in Nat /\ Len(mem.table[r]) \in Nat
        BY <1>3, Basics, Amounts DEF IInv
      <4>5. f[r] = Footprint(r) - Len(mem.table[r]) /\ h[r] = Footprint(r) - Len(mem'.table[r])
        BY <1>3, <4>2
      <4>6. \A q \in Requests \ {r} : h[q] = f[q]
        BY <1>11, <4>2
      <4> HIDE DEF f, h, grow
      <4>7. h[r] = f[r] - grow
        BY <3>1, <4>3, <4>4, <4>5
      <4> QED
        BY <4>6, <4>7
    <3> HIDE DEF f, h, grow, free, next
    <3>7. IsFiniteSet(Resuming \ {r}) /\ Resuming \ {r} \in SUBSET Resuming
      BY <3>4, FS_Subset
    <3>8. SumOver(f, Resuming) = f[r] + SumOver(f, Resuming \ {r})
      <4>1. \A q \in Resuming : f[q] \in Nat
        BY <3>4
      <4> QED
        BY <1>3, <3>4, <4>1, SumSplits
    <3>9. rest \in Nat
      <4>1. \A q \in Resuming : f[q] \in Nat
        BY <3>4
      <4> QED
        BY <3>4, <3>7, <4>1, SumIsNat
    <3>10. SumOver(h, Resuming \ {r}) = rest
      <4>1. \A q \in Resuming \ {r} : f[q] \in Nat /\ h[q] = f[q]
        BY <3>4, <3>6
      <4> QED
        BY <3>7, <4>1, SumAgrees
    <3>11. f[r] \in Nat /\ h[r] \in Nat
      BY <1>3, <3>1, <3>4, <3>6
    <3>12. SumOver(h, Resuming) = h[r] + rest
      <4>1. \A q \in Resuming : h[q] \in Nat
        BY <3>4, <3>6, <3>11
      <4>2. SumOver(h, Resuming) = h[r] + SumOver(h, Resuming \ {r})
        BY <1>3, <3>4, <4>1, SumSplits
      <4> QED
        BY <3>10, <4>2
    <3>13. SumOver(f, Resuming) = f[r] + rest
      BY <3>8
    <3> HIDE DEF rest
    <3>14. f[r] - grow + rest + room <= next /\ rest + room <= next
      <4> DEFINE a == f[r]
                 u == SumOver(f, Resuming)
      <4>1. a \in Nat /\ grow \in Nat /\ grow <= a /\ free <= next + grow /\ u + room <= free
        BY <3>1, <3>2, <3>3, <3>11
      <4>2. rest \in Nat /\ u = a + rest /\ free \in Nat /\ next \in Nat
        BY <3>5, <3>9, <3>13
      <4>3. room \in Nat
        BY <1>2
      <4> HIDE DEF a, u
      <4>4. a - grow + rest + room <= next /\ rest + room <= next
        BY <4>1, <4>2, <4>3
      <4> QED
        BY <4>4 DEF a
    <3>15. CASE done
      <4>1. SumOver(h, Resuming') = rest
        BY <1>17, <3>10, <3>15 DEF rest
      <4> QED
        BY <3>14, <4>1 DEF h, next
    <3>16. CASE ~done
      <4>1. SumOver(h, Resuming') = f[r] - grow + rest
        BY <1>17, <3>6, <3>12, <3>16
      <4> QED
        BY <3>14, <4>1 DEF h, next
    <3> QED
      BY <3>15, <3>16
  <2>2. ASSUME conf.preemption
        PROVE  \A p \in Resuming : \A q \in Requests \ {p} :
                 Range(mem'.table[p]) \cap Range(mem'.table[q]) = {}
    <3>1. \A p \in Resuming : \A q \in Requests \ {p} :
                 Range(mem.table[p]) \cap Range(mem.table[q]) = {}
      BY <1>1, <2>2 DEF IInv, Resumes
    <3>2. ASSUME NEW q \in Requests \ {r} PROVE Range(mem'.table[r]) \cap Range(mem.table[q]) = {}
      <4> SUFFICES ASSUME NEW i \in DOMAIN m.table[r] PROVE m.table[r][i] \notin Range(mem.table[q])
        BY <1>7 DEF Range
      <4>1. CASE Whole(mem, r, i)
        <5>1. i \in DOMAIN mem.table[r] /\ m.table[r][i] = mem.table[r][i]
          BY <1>5, <4>1 DEF Grown
        <5>2. m.table[r][i] \in Range(mem.table[r])
          BY <5>1 DEF Range
        <5>3. Range(mem.table[r]) \cap Range(mem.table[q]) = {}
          BY <1>3, <3>1
        <5> QED
          BY <5>2, <5>3
      <4>2. CASE ~Whole(mem, r, i)
        BY <1>5, <4>2 DEF Grown
      <4> QED
        BY <4>1, <4>2
    <3>3. \A q \in Requests \ {r} : mem'.table[q] = mem.table[q]
      BY <1>11
    <3>4. Resuming \subseteq Requests
      BY MissingIsNat
    <3> SUFFICES ASSUME NEW p \in Resuming, NEW q \in Requests \ {p}
                 PROVE  Range(mem'.table[p]) \cap Range(mem'.table[q]) = {}
      OBVIOUS
    <3>5. CASE p = r
      BY <3>2, <3>3, <3>5
    <3>6. CASE q = r
      BY <3>2, <3>3, <3>4, <3>6
    <3>7. CASE p # r /\ q # r
      BY <3>1, <3>3, <3>4, <3>7
    <3> QED
      BY <3>5, <3>6, <3>7
  <2>3. Range(visiting') = Resuming' /\ \A p \in Resuming' : p \in Resuming
    BY <1>13, <1>17
  <2> QED
    BY <1>8, <1>13, <2>1, <2>2, <2>3 DEF Resumes
<1>19. Prefills'
  <2>1. \A p, q \in Unstarted : p # q /\ SameGroup(p, q) => mem'.table[p] = <<>> \/ mem'.table[q] = <<>>
    <3>1. \A q \in Unstarted : mem'.table[q] = mem.table[q]
      BY <1>11, <1>17
    <3> QED
      BY <3>1 DEF IInv, Prefills
  <2> QED
    BY <1>1, <1>8, <1>17, <2>1 DEF IInv, Prefills, SameGroup
<1>20. Decodes'
  <2>1. IsInjective(decoding) /\ (~conf.preemption => \A q \in Range(decoding) : prefilled[q])
    BY <1>1 DEF IInv, Decodes
  <2>2. ~conf.preemption => \A q \in Range(decoding) : prefilled'[q]
    BY <1>2, <1>3, <1>10, <2>1, QueueRange
  <2> QED
    BY <1>8, <2>1, <2>2 DEF Decodes
<1>21. Alive'
  BY <1>8 DEF Alive
<1> QED
  BY <1>11, <1>14, <1>15, <1>16, <1>18, <1>19, <1>20, <1>21 DEF IInv

LEMMA LookupStep ==
  ASSUME IInv, Lookup
  PROVE  IInv'
<1>1. /\ UNCHANGED <<conf, ask, known, queues, prefilled, generated, finished, room, prefilling,
                     decoding>>
      /\ phase = "lookup"
  BY DEF Lookup
<1>2. /\ conf' = conf /\ ask' = ask /\ running' = running /\ waiting' = waiting /\ known' = known
      /\ committed' = committed /\ budget' = budget /\ prefilled' = prefilled
      /\ generated' = generated /\ finished' = finished /\ room' = room
      /\ prefilling' = prefilling /\ decoding' = decoding
  BY <1>1 DEF queues
<1>3. /\ ~conf.preemption /\ Resuming = {} /\ visiting \in Seq(Requests) /\ IsInjective(visiting)
      /\ Range(visiting) \subseteq Range(prefilling)
      /\ \A r \in Range(visiting) : ask[r].group = 0
      /\ IsInjective(prefilling) /\ Range(prefilling) \subseteq Range(running)
      /\ Range(prefilling) \cap Range(running) \subseteq Unstarted
  BY <1>1 DEF IInv, Typed, Prefills, Resumes
<1>4. CASE visiting = <<>>
  <2>1. /\ UNCHANGED <<conf, ask, known, queues, mem, prefilled, generated, finished>>
        /\ phase' = "prefill" /\ visiting' = visiting
    BY <1>1, <1>4 DEF Lookup
  <2>2. /\ Sound(mem)' /\ Exact(mem)' /\ Queued' /\ Promised' /\ Progress' /\ Leaders1'
        /\ Resuming' = Resuming /\ Unstarted' = Unstarted
        /\ Passing' => Typed'
    BY <2>1, QuietStep
  <2>3. Passing'
    BY <1>2, <2>1 DEF IInv, Typed, Passing, Phases
  <2>4. Resumes' /\ Alive'
    BY <1>3, <2>1, <2>2 DEF Resumes, Alive
  <2>5. Prefills'
    BY <1>1, <1>2, <2>1, <2>2 DEF IInv, Prefills, Leaders1, SameGroup
  <2>6. Decodes'
    BY <1>1, <1>2, <1>3, <2>1 DEF IInv, Decodes
  <2> QED
    BY <2>2, <2>3, <2>4, <2>5, <2>6 DEF IInv
<1>5. CASE visiting # <<>>
  <2>1. PICK h \in Requests : h = Head(visiting)
    BY <1>3, <1>5, QueueTail
  <2> DEFINE a == LookedUp(mem, h)
  <2>2. mem' = a /\ visiting' = Tail(visiting) /\ phase' = "lookup"
    BY <1>1, <1>5, <2>1 DEF Lookup
  <2>3. /\ h \in Range(visiting) /\ visiting' \in Seq(Requests) /\ IsInjective(visiting')
        /\ Range(visiting') \subseteq Range(visiting)
    BY <1>3, <1>5, <2>1, <2>2, QueueTail
  <2>4. h \in Range(running) /\ h \in Unstarted /\ ask[h].group = 0
    BY <1>3, <2>3
  <2>5. /\ Sound(a)
        /\ \A q \in Requests : ExactIn(mem, q) => ExactIn(a, q)
        /\ \A q \in Requests \ {h} : a.table[q] = mem.table[q] /\ a.length[q] = mem.length[q]
        /\ a = mem \/ (conf.entries > 0 /\ a.length[h] <= ask[h].prompt - 1)
    BY Basics, LookedUpKeeps
  <2> HIDE DEF a
  <2>6. Exact(a)
    BY <2>5, Basics DEF Exact
  <2>7. Sound(mem)' /\ Exact(mem)'
    BY <1>2, <2>2, <2>5, <2>6, NextMemory
  <2>8. Typed'
    BY <1>2, <2>2, <2>3 DEF IInv, Typed, Alike, Phases
  <2>9. Queued'
    BY <1>2 DEF IInv, Queued, Live, MaxBlocksFor, Positions
  <2>10. Promised'
    <3>1. \A q \in Requests : MaxBlocksFor(q)' = MaxBlocksFor(q)
      BY <1>2 DEF MaxBlocksFor, Positions
    <3>2. \A q \in Requests : q \notin Range(running) =>
            mem'.table[q] = <<>> /\ mem'.length[q] = 0 /\ prefilled[q] = FALSE /\ budget[q] = 0
      BY <2>2, <2>4, <2>5 DEF IInv, Promised
    <3>3. Range(running) \subseteq Requests
      BY Basics
    <3> QED
      BY <1>2, <3>1, <3>2, <3>3 DEF IInv, Promised
  <2>11. Progress'
    <3>1. \A q \in Requests : Sequence(q)' = Sequence(q)
      BY <1>2 DEF Sequence
    <3>2. \A q \in Requests \ {h} : mem'.length[q] = mem.length[q]
      BY <2>2, <2>5
    <3>3. prefilled[h] = FALSE /\ Sequence(h) = ask[h].prompt /\ ask[h].prompt \in Nat
      <4>1. ~prefilled[h] /\ generated[h] = 0
        BY <2>4 DEF Unstarted
      <4> QED
        BY <4>1, Amounts DEF IInv, Typed
    <3>4. a.length[h] \in Nat
      BY <2>5, Basics, Shapes DEF Sound
    <3>5. a.length[h] <= Sequence(h) /\ (conf.chunk = 0 /\ conf.entries = 0 => a.length[h] = 0)
      <4>1. CASE a = mem
        BY <3>3, <4>1 DEF IInv, Progress
      <4>2. CASE conf.entries > 0 /\ a.length[h] <= ask[h].prompt - 1
        BY <3>3, <3>4, <4>2
      <4> QED
        BY <2>5, <4>1, <4>2
    <3> SUFFICES ASSUME NEW q \in Requests
                 PROVE  /\ mem'.length[q] <= Sequence(q)
                        /\ prefilled[q] => generated[q] > 0 /\ mem'.length[q] = Sequence(q)
                        /\ conf.chunk = 0 /\ conf.entries = 0 /\ ~prefilled[q] => mem'.length[q] = 0
      BY <1>2, <3>1 DEF Progress
    <3>6. CASE q = h
      BY <2>2, <3>3, <3>5, <3>6
    <3>7. CASE q # h
      BY <3>2, <3>7 DEF IInv, Progress
    <3> QED
      BY <3>6, <3>7
  <2>12. Resuming' = Resuming /\ Unstarted' = Unstarted
    BY <1>2 DEF Resuming, Unstarted
  <2>13. Resumes' /\ Alive'
    BY <1>2, <1>3, <2>2, <2>12 DEF Resumes, Alive
  <2>14. Prefills'
    <3>1. \A p, q \in Unstarted : p # q /\ SameGroup(p, q) => mem'.table[p] = <<>> \/ mem'.table[q] = <<>>
      <4> SUFFICES ASSUME NEW p \in Unstarted, NEW q \in Unstarted, p # q, SameGroup(p, q)
                   PROVE  mem'.table[p] = <<>> \/ mem'.table[q] = <<>>
        OBVIOUS
      <4>1. p # h /\ q # h /\ p \in Requests /\ q \in Requests
        BY <2>4, Basics DEF SameGroup, Unstarted
      <4>2. mem'.table[p] = mem.table[p] /\ mem'.table[q] = mem.table[q]
        BY <2>2, <2>5, <4>1
      <4> QED
        BY <4>2 DEF IInv, Prefills
    <3> QED
      BY <1>1, <1>2, <1>3, <2>2, <2>3, <2>12, <3>1 DEF IInv, Prefills, SameGroup
  <2>15. Decodes'
    BY <1>1, <1>2, <1>3, <2>2 DEF IInv, Decodes
  <2> QED
    BY <2>7, <2>8, <2>9, <2>10, <2>11, <2>13, <2>14, <2>15 DEF IInv
<1> QED
  BY <1>4, <1>5

-----------------------------------------------------------------------------
(* Tokens are recorded, and finished requests released *)

LEMMA SampleKeeps ==
  ASSUME IInv, NEW a, Sound(a), Exact(a), NEW rs \in Seq(Requests), Range(rs) \subseteq Range(running),
         NEW eos, Sample(a, rs, eos),
         \A q \in Range(rs) : a.length[q] = ask[q].prompt + generated[q],
         \A q \in Requests \ Range(rs) : a.table[q] = mem.table[q] /\ a.length[q] = mem.length[q]
  PROVE  /\ Sound(mem)' /\ Exact(mem)' /\ Queued' /\ Promised' /\ Progress'
         /\ UNCHANGED <<conf, ask, room>>
         /\ Range(running') \subseteq Range(running) /\ Range(running) \subseteq Range(running') \cup Range(rs)
         /\ Resuming = {} => Resuming' = {}
         /\ Unstarted' = Unstarted \ Range(rs)
         /\ \A q \in Requests \ Range(rs) : mem'.table[q] = mem.table[q] /\ prefilled'[q] = prefilled[q]
         /\ Passing' => Typed'
<1> DEFINE ends == Ends(rs, eos)
           E == Range(ends)
<1>1. /\ generated' = [r \in Requests |-> generated[r] + (IF r \in Range(rs) THEN 1 ELSE 0)]
      /\ finished' = [r \in Requests |-> finished[r] \/ r \in E]
      /\ prefilled' = [r \in Requests |-> (prefilled[r] \/ r \in Range(rs)) /\ r \notin E]
      /\ mem' = Released(a, ends)
      /\ Leave(E)
      /\ UNCHANGED <<conf, ask, known, waiting, room>>
  BY DEF Sample
<1>2. /\ Built /\ Range(running) \subseteq Requests /\ \A q \in Requests : ask[q] \in Asks
      /\ generated \in [Requests -> Nat] /\ finished \in [Requests -> BOOLEAN]
      /\ prefilled \in [Requests -> BOOLEAN]
  BY Basics DEF IInv, Typed
<1>3. ends \in Seq(Requests) /\ E = Range(rs) \cap (eos \cup {r \in Requests : Remaining(r) = 1})
  BY ThoseExact DEF Ends
<1>4. E \subseteq Range(rs) /\ E \in SUBSET Requests
      /\ \A q \in Range(rs) \ E : Remaining(q) # 1
  BY <1>2, <1>3
<1> HIDE DEF ends, E
<1>5. \A q \in E : a.length[q] \div conf.block <= Len(a.table[q])
  <2> SUFFICES ASSUME NEW q \in E PROVE a.length[q] \div conf.block <= Len(a.table[q])
    OBVIOUS
  <2>1. q \in Requests /\ a.length[q] \in Nat /\ Len(a.table[q]) = Positions(a.length[q])
    BY <1>2, <1>4, Shapes DEF Sound, Exact, ExactIn
  <2>2. a.length[q] \div conf.block \in Nat /\ Positions(a.length[q]) \in
          {a.length[q] \div conf.block, a.length[q] \div conf.block + 1}
    BY <1>2, <2>1, WholeBlocks
  <2> DEFINE x == a.length[q] \div conf.block
             y == Positions(a.length[q])
  <2>3. x \in Nat /\ y \in {x, x + 1} /\ Len(a.table[q]) = y
    BY <2>1, <2>2
  <2> HIDE DEF x, y
  <2>4. x <= Len(a.table[q])
    BY <2>3
  <2> QED
    BY <2>4 DEF x
<1> DEFINE z == Released(a, ends)
<1>6. /\ Sound(z)
      /\ \A q \in E : z.table[q] = <<>> /\ z.length[q] = 0 /\ ExactIn(z, q)
      /\ \A q \in Requests \ E : /\ z.table[q] = a.table[q] /\ z.length[q] = a.length[q]
                                 /\ ExactIn(a, q) => ExactIn(z, q)
  BY <1>2, <1>3, <1>5, ReleasedKeeps DEF E
<1>7. mem' = z
  BY <1>1
<1> HIDE DEF z
<1>8. Exact(z)
  BY <1>6 DEF Exact
<1>9. Sound(mem)' /\ Exact(mem)'
  BY <1>1, <1>6, <1>7, <1>8, NextMemory
<1>10. /\ committed' = SumOver(budget', Requests) /\ committed' \in Nat /\ committed' <= committed
       /\ budget' \in [Requests -> Nat]
       /\ \A r \in Requests : budget'[r] = IF r \in E THEN 0 ELSE budget[r]
       /\ running' \in Seq(Requests) /\ Range(running') = Range(running) \ E
       /\ IsInjective(running')
  <2>1. Typed /\ committed = SumOver(budget, Requests) /\ IsInjective(running)
    BY DEF IInv, Promised, Queued
  <2> QED
    BY <1>1, <1>4, <2>1, LeaveReturns
<1>11. /\ generated' \in [Requests -> Nat] /\ finished' \in [Requests -> BOOLEAN]
       /\ prefilled' \in [Requests -> BOOLEAN]
       /\ \A q \in Requests \ Range(rs) : /\ generated'[q] = generated[q] /\ prefilled'[q] = prefilled[q]
                                          /\ finished'[q] = finished[q]
       /\ \A q \in Range(rs) \ E : /\ generated'[q] = generated[q] + 1 /\ prefilled'[q] = TRUE
                                   /\ finished'[q] = finished[q]
       /\ \A q \in E : prefilled'[q] = FALSE
       /\ \A q \in Range(rs) : generated'[q] = generated[q] + 1
  <2>1. generated' \in [Requests -> Nat] /\ finished' \in [Requests -> BOOLEAN]
        /\ prefilled' \in [Requests -> BOOLEAN]
    BY <1>1, <1>2
  <2>2. Range(rs) \subseteq Requests
    BY <1>2
  <2>3. \A q \in Requests \ Range(rs) : /\ generated'[q] = generated[q] /\ prefilled'[q] = prefilled[q]
                                          /\ finished'[q] = finished[q]
    BY <1>1, <1>2, <1>4
  <2>4. \A q \in Range(rs) \ E : /\ generated'[q] = generated[q] + 1 /\ prefilled'[q] = TRUE
                                   /\ finished'[q] = finished[q]
    BY <1>1, <1>2, <2>2
  <2>5. \A q \in E : prefilled'[q] = FALSE
    BY <1>1, <1>4
  <2>6. \A q \in Range(rs) : generated'[q] = generated[q] + 1
    BY <1>1, <2>2
  <2> QED
    BY <2>1, <2>3, <2>4, <2>5, <2>6
<1>12. conf' = conf /\ ask' = ask /\ known' = known /\ waiting' = waiting /\ room' = room
  BY <1>1
<1>13. \A q \in Requests : MaxBlocksFor(q)' = MaxBlocksFor(q)
  BY <1>12 DEF MaxBlocksFor, Positions
<1>14. Queued'
  <2>1. Live' \subseteq Live \ E /\ Live \subseteq Requests
    <3>1. Range(waiting) \cap Range(running) = {} /\ waiting \in Seq(Requests)
      BY DEF IInv, Queued, Typed
    <3>2. Range(waiting) \subseteq Requests
      BY <3>1, QueueRange
    <3> QED
      BY <1>2, <1>4, <1>10, <1>12, <3>1, <3>2 DEF Live
  <2>2. IsInjective(waiting') /\ IsInjective(running') /\ Range(waiting') \cap Range(running') = {}
    BY <1>10, <1>12 DEF IInv, Queued
  <2>3. ASSUME NEW q \in Live'
        PROVE  /\ q \in Range(known') /\ finished'[q] = FALSE
               /\ generated'[q] < ask'[q].new /\ MaxBlocksFor(q)' <= conf'.pool
    <3>1. q \in Live /\ q \in Requests /\ q \notin E
      BY <2>1
    <3>2. /\ q \in Range(known) /\ finished[q] = FALSE
          /\ generated[q] < ask[q].new /\ MaxBlocksFor(q) <= conf.pool
      BY <3>1 DEF IInv, Queued
    <3>3. CASE q \in Range(rs)
      <4>1. ask[q].new \in Nat /\ generated[q] \in Nat /\ Remaining(q) = ask[q].new - generated[q]
        BY <3>1, Amounts DEF IInv
      <4>2. Remaining(q) # 1
        BY <1>4, <3>1, <3>3
      <4>3. generated[q] + 1 < ask[q].new
        BY <3>2, <4>1, <4>2
      <4> QED
        BY <1>11, <1>12, <1>13, <3>1, <3>2, <3>3, <4>3
    <3>4. CASE q \notin Range(rs)
      BY <1>11, <1>12, <1>13, <3>1, <3>2, <3>4
    <3> QED
      BY <3>3, <3>4
  <2>4. ASSUME NEW q \in Requests, q \notin Range(known) PROVE generated'[q] = 0 /\ finished'[q] = FALSE
    <3>1. q \notin Range(rs)
      BY <2>4 DEF IInv, Queued, Live
    <3> QED
      BY <1>11, <2>4, <3>1 DEF IInv, Queued
  <2> QED
    BY <1>12, <2>2, <2>3, <2>4 DEF Queued
<1>15. Promised'
  <2>1. \A q \in Requests : q \notin Range(running') =>
          mem'.table[q] = <<>> /\ mem'.length[q] = 0 /\ prefilled'[q] = FALSE /\ budget'[q] = 0
    <3> SUFFICES ASSUME NEW q \in Requests, q \notin Range(running')
                 PROVE  mem'.table[q] = <<>> /\ mem'.length[q] = 0 /\ prefilled'[q] = FALSE /\ budget'[q] = 0
      OBVIOUS
    <3>1. CASE q \in E
      BY <1>6, <1>7, <1>10, <1>11, <3>1
    <3>2. CASE q \notin E
      <4>1. q \notin Range(running) /\ q \notin Range(rs)
        BY <1>10, <3>2
      <4>2. mem.table[q] = <<>> /\ mem.length[q] = 0 /\ prefilled[q] = FALSE /\ budget[q] = 0
        BY <4>1 DEF IInv, Promised
      <4>3. mem'.table[q] = mem.table[q] /\ mem'.length[q] = mem.length[q]
        BY <1>6, <1>7, <3>2, <4>1
      <4>4. prefilled'[q] = prefilled[q] /\ budget'[q] = budget[q]
        BY <1>10, <1>11, <3>2, <4>1
      <4> QED
        BY <4>2, <4>3, <4>4
    <3> QED
      BY <3>1, <3>2
  <2>2. ~conf.preemption => committed' <= conf.pool
    <3>1. committed \in Nat /\ conf.pool \in Nat
      BY <1>2, ConfTypes DEF IInv, Typed
    <3> QED
      BY <1>10, <3>1 DEF IInv, Promised
  <2>3. ~conf.preemption => \A q \in Range(running') : budget'[q] = MaxBlocksFor(q)
    BY <1>2, <1>10 DEF IInv, Promised
  <2>4. Range(running') \subseteq Requests
    BY <1>2, <1>10
  <2> QED
    BY <1>10, <1>12, <1>13, <2>1, <2>2, <2>3, <2>4 DEF Promised
<1>16. Progress'
  <2> SUFFICES ASSUME NEW q \in Requests
               PROVE  /\ mem'.length[q] <= Sequence(q)'
                      /\ prefilled'[q] => generated'[q] > 0 /\ mem'.length[q] = Sequence(q)'
                      /\ conf'.chunk = 0 /\ conf'.entries = 0 /\ ~prefilled'[q] => mem'.length[q] = 0
    BY DEF Progress
  <2>1. ask[q].prompt \in Nat \ {0} /\ generated[q] \in Nat /\ generated'[q] \in Nat
    BY <1>11, Amounts DEF IInv
  <2>2. Sequence(q)' = ask[q].prompt + (IF generated'[q] > 0 THEN generated'[q] - 1 ELSE 0)
    BY <1>12 DEF Sequence
  <2>3. CASE q \in E
    <3>1. mem'.length[q] = 0 /\ prefilled'[q] = FALSE
      BY <1>6, <1>7, <1>11, <2>3
    <3>2. Sequence(q)' \in Nat
      BY <2>1, <2>2
    <3> QED
      BY <3>1, <3>2
  <2>4. CASE q \in Range(rs) \ E
    <3>1. mem'.length[q] = ask[q].prompt + generated[q] /\ generated'[q] = generated[q] + 1
          /\ prefilled'[q] = TRUE
      BY <1>6, <1>7, <1>11, <2>4
    <3>2. Sequence(q)' = ask[q].prompt + generated[q]
      BY <2>1, <2>2, <3>1
    <3> QED
      BY <2>1, <3>1, <3>2
  <2>5. CASE q \notin Range(rs)
    <3>1. mem'.length[q] = mem.length[q] /\ generated'[q] = generated[q] /\ prefilled'[q] = prefilled[q]
      BY <1>4, <1>6, <1>7, <1>11, <2>5
    <3>2. Sequence(q)' = Sequence(q)
      BY <2>2, <3>1 DEF Sequence
    <3> QED
      BY <1>12, <3>1, <3>2 DEF IInv, Progress
  <2> QED
    BY <2>3, <2>4, <2>5
<1>17. Range(running') \subseteq Range(running) /\ Range(running) \subseteq Range(running') \cup Range(rs)
  BY <1>4, <1>10
<1>18. Resuming = {} => Resuming' = {}
  <2> SUFFICES ASSUME Resuming = {}, NEW q \in Resuming' PROVE FALSE
    OBVIOUS
  <2>1. q \in Range(running') /\ ~prefilled'[q] /\ generated'[q] > 0
    BY DEF Resuming
  <2>2. q \notin E /\ q \in Range(running) /\ q \in Requests
    BY <1>2, <1>10, <2>1
  <2>3. q \notin Range(rs)
    BY <1>11, <2>1, <2>2
  <2>4. q \in Resuming
    BY <1>11, <2>1, <2>2, <2>3 DEF Resuming
  <2> QED
    BY <2>4
<1>19. Unstarted' = Unstarted \ Range(rs)
  <2>1. ASSUME NEW q \in Unstarted' PROVE q \in Unstarted \ Range(rs)
    <3>1. q \in Range(running') /\ ~prefilled'[q] /\ generated'[q] = 0
      BY <2>1 DEF Unstarted
    <3>2. q \notin E /\ q \in Range(running) /\ q \in Requests
      BY <1>2, <1>10, <3>1
    <3>3. q \notin Range(rs)
      BY <1>11, <3>1, <3>2
    <3> QED
      BY <1>11, <3>1, <3>2, <3>3 DEF Unstarted
  <2>2. ASSUME NEW q \in Unstarted \ Range(rs) PROVE q \in Unstarted'
    <3>1. q \in Range(running) /\ ~prefilled[q] /\ generated[q] = 0 /\ q \in Requests
      BY <1>2, <2>2 DEF Unstarted
    <3>2. q \in Range(running') /\ ~prefilled'[q] /\ generated'[q] = 0
      BY <1>4, <1>10, <1>11, <2>2, <3>1
    <3> QED
      BY <3>2 DEF Unstarted
  <2> QED
    BY <2>1, <2>2
<1>20. \A q \in Requests \ Range(rs) : mem'.table[q] = mem.table[q] /\ prefilled'[q] = prefilled[q]
  BY <1>4, <1>6, <1>7, <1>11
<1>21. Passing' => Typed'
  BY <1>10, <1>11, <1>12 DEF IInv, Typed, Passing, Alike
<1> QED
  BY <1>9, <1>12, <1>14, <1>15, <1>16, <1>17, <1>18, <1>19, <1>20, <1>21

LEMMA PrefillManyStep ==
  ASSUME IInv, PrefillMany
  PROVE  IInv'
<1> DEFINE count == [r \in Requests |-> ask[r].prompt]
           a == AppendEach(mem, prefilling, count)
<1>1. /\ phase = "many"
      /\ IF ~a.ok THEN Die
         ELSE /\ \E eos \in SUBSET Range(prefilling) : Sample(a, prefilling, eos)
              /\ prefilling' = <<>> /\ phase' = "prefill"
              /\ UNCHANGED <<visiting, decoding>>
  BY DEF PrefillMany
<1>2. /\ Built /\ Sound(mem) /\ Exact(mem) /\ Range(running) \subseteq Requests
      /\ \A r \in Requests : mem.length[r] \in Nat
  BY Basics
<1>3. /\ conf.entries = 0 /\ conf.chunk = 0 /\ ~conf.preemption
      /\ prefilling \in Seq(Requests) /\ IsInjective(prefilling)
      /\ Range(prefilling) \subseteq Range(running) /\ Range(prefilling) \subseteq Unstarted
      /\ visiting \in Seq(Requests) /\ decoding \in Seq(Requests) /\ room \in Nat /\ Resuming = {}
  BY <1>1 DEF IInv, Typed, Prefills, Resumes, CanPrefillMany
<1>4. \A r \in Range(prefilling) : r \in Requests /\ ~prefilled[r] /\ generated[r] = 0
  BY <1>2, <1>3 DEF Unstarted
<1>5. \A r \in Requests : ask[r].prompt \in Nat \ {0} /\ ask[r].new \in Nat \ {0}
  BY Amounts DEF IInv
<1>6. \A r \in Requests : count[r] = ask[r].prompt
  OBVIOUS
<1> HIDE DEF count
<1>7. \A r \in Range(prefilling) : mem.length[r] = 0
  BY <1>3, <1>4 DEF IInv, Progress
<1>8. \A r \in Range(prefilling) : /\ count[r] \in Nat
                                   /\ mem.length[r] + count[r] <= ask[r].prompt + ask[r].new - 1
  BY <1>4, <1>5, <1>6, <1>7
<1>9. Funded(mem, Range(prefilling), count, budget)
  BY <1>3, <1>8, ReserveCovers DEF Funded
<1>10. /\ Sound(a) /\ Exact(a)
       /\ \A q \in Range(prefilling) : a.length[q] = mem.length[q] + count[q]
       /\ \A q \in Requests \ Range(prefilling) : a.length[q] = mem.length[q] /\ a.table[q] = mem.table[q]
  <2>1. \A q \in Requests : count[q] \in Nat
    BY <1>5, <1>6
  <2> QED
    BY <1>2, <1>3, <1>9, <2>1, AppendEachKeeps
<1> HIDE DEF a
<1>11. \A q \in Range(prefilling) : a.length[q] = ask[q].prompt + generated[q]
  BY <1>4, <1>5, <1>6, <1>7, <1>10
<1>12. /\ \E eos \in SUBSET Range(prefilling) : Sample(a, prefilling, eos)
       /\ prefilling' = <<>> /\ phase' = "prefill"
       /\ UNCHANGED <<visiting, decoding>>
  BY <1>1, <1>10 DEF Sound
<1>13. PICK eos \in SUBSET Range(prefilling) : Sample(a, prefilling, eos)
  BY <1>12
<1>14. /\ Sound(mem)' /\ Exact(mem)' /\ Queued' /\ Promised' /\ Progress'
       /\ UNCHANGED <<conf, ask, room>>
       /\ Resuming = {} => Resuming' = {}
       /\ Unstarted' = Unstarted \ Range(prefilling)
       /\ \A q \in Requests \ Range(prefilling) : mem'.table[q] = mem.table[q] /\ prefilled'[q] = prefilled[q]
       /\ Passing' => Typed'
  BY <1>3, <1>10, <1>11, <1>13, SampleKeeps
<1>15. Passing'
  BY <1>3, <1>12, <1>14, NoQueue DEF Passing, Phases
<1>16. Resumes' /\ Alive'
  BY <1>3, <1>12, <1>14 DEF Resumes, Alive
<1>17. Prefills'
  <2>1. \A p, q \in Unstarted' : p # q /\ SameGroup(p, q) => mem'.table[p] = <<>> \/ mem'.table[q] = <<>>
    <3>1. \A q \in Unstarted' : q \in Unstarted /\ mem'.table[q] = mem.table[q]
      BY <1>2, <1>14 DEF Unstarted
    <3> QED
      BY <3>1 DEF IInv, Prefills
  <2> QED
    BY <1>12, <1>14, <2>1, NoQueue DEF Prefills, SameGroup
<1>18. Decodes'
  <2>1. IsInjective(decoding) /\ \A q \in Range(decoding) : prefilled[q]
    BY <1>1, <1>3 DEF IInv, Decodes
  <2>2. Range(decoding) \subseteq Requests
    BY <1>3, QueueRange
  <2>3. \A q \in Range(decoding) : prefilled'[q]
    BY <1>4, <1>14, <2>1, <2>2
  <2> QED
    BY <1>3, <1>12, <1>14, <2>1, <2>3 DEF Decodes
<1> QED
  BY <1>14, <1>15, <1>16, <1>17, <1>18 DEF IInv

LEMMA PrefillStep ==
  ASSUME IInv, Prefill
  PROVE  IInv'
<1>1. PICK h \in Requests : h = Head(prefilling)
  BY QueueTail DEF Prefill, IInv, Typed
<1>2. phase = "prefill" /\ prefilling # <<>> /\ ~Gone(h) /\ h = Head(prefilling)
  BY <1>1 DEF Prefill
<1>3. PICK g \in Seq(Requests) : g = Group(h)
  BY <1>1, <1>2, GroupIs
<1>4. /\ h \in Range(g)
      /\ Range(g) \subseteq Range(prefilling) \cap Unstarted
      /\ \A q \in Range(g) : q = h \/ SameGroup(h, q)
      /\ \A q \in Unstarted : SameGroup(h, q) => q \in Range(g)
      /\ Leader(g) \in Range(g)
      /\ \A q \in Range(g) \ {Leader(g)} : mem.table[q] = <<>>
      /\ ~Refused(g) => \A q \in Range(g) : ask[q].prompt = ask[Leader(g)].prompt
      /\ SamePrompts => ~Refused(g)
  BY <1>1, <1>2, <1>3, GroupIs
<1>5. /\ Built /\ Range(running) \subseteq Requests /\ Range(g) \subseteq Range(running)
      /\ Range(g) \subseteq Requests /\ Unstarted \subseteq Range(running)
      /\ \A r \in Requests : mem.length[r] \in Nat
  BY <1>4, Basics DEF Unstarted
<1>6. PICK r \in Requests : r = Leader(g)
  BY <1>4, <1>5
<1> DEFINE n == Chunk(r)
           m == Appended(mem, r, n)
           f == Forked(m, r, Range(g))
           rs == <<r>> \o Without(g, {r})
<1>7. IF Refused(g) THEN Die
      ELSE /\ HasRoom(r)
           /\ IF ~m.ok THEN Die
              ELSE /\ prefilling' = Without(prefilling, Range(g))
                   /\ UNCHANGED <<phase, visiting, decoding>>
                   /\ IF m.length[r] < ask[r].prompt
                      THEN mem' = m /\ UNCHANGED <<conf, ask, known, queues, prefilled,
                                                   generated, finished, room>>
                      ELSE \E eos \in SUBSET Range(g) : Sample(f, rs, eos)
  BY <1>1, <1>3, <1>6 DEF Prefill
<1>8. CASE Refused(g)
  <2>1. Die /\ ~SamePrompts
    BY <1>4, <1>7, <1>8
  <2> QED
    BY <2>1, DieStep
<1> SUFFICES ASSUME ~Refused(g) PROVE IInv'
  BY <1>8
<1>9. r \in Range(g) /\ r \in Range(running) /\ r \in Unstarted /\ ~prefilled[r] /\ generated[r] = 0
      /\ \A q \in Range(g) : /\ ask[q].prompt = ask[r].prompt /\ q \in Unstarted
                             /\ ~prefilled[q] /\ generated[q] = 0
  BY <1>4, <1>5, <1>6 DEF Unstarted
<1>10. Sequence(r) = ask[r].prompt /\ ask[r].prompt \in Nat \ {0}
  BY <1>9, Amounts DEF IInv
<1>11. n \in Nat /\ mem.length[r] + n <= Sequence(r)
       /\ (conf.chunk = 0 => mem.length[r] + n = Sequence(r))
  BY ChunkIs
<1>12. HasRoom(r) /\ Grown(mem, m, r, n)
  BY <1>7, <1>9, ChunkGrows
<1>13. m.ok = TRUE
  BY <1>12 DEF Grown
<1> HIDE DEF f, rs, m, n
<1>14. /\ Sound(m) /\ \A q \in Requests : ExactIn(mem, q) => ExactIn(m, q)
       /\ m.length[r] = mem.length[r] + n
       /\ \A q \in Requests \ {r} : m.length[q] = mem.length[q] /\ m.table[q] = mem.table[q]
  <2>1. Built /\ Sound(mem)
    BY Basics
  <2>2. r \in Requests /\ n \in Nat /\ Grown(mem, m, r, n)
    BY <1>11, <1>12
  <2> QED
    BY <2>1, <2>2, GrownSound
<1>15. /\ prefilling' = Without(prefilling, Range(g))
       /\ phase' = "prefill" /\ visiting' = visiting /\ decoding' = decoding
  BY <1>2, <1>7, <1>12, <1>13
<1>16. /\ prefilling \in Seq(Requests) /\ IsInjective(prefilling)
       /\ visiting \in Seq(Requests) /\ decoding \in Seq(Requests) /\ room \in Nat /\ Resuming = {}
       /\ Range(prefilling) \cap Range(running) \subseteq Unstarted
       /\ ~conf.preemption => Range(prefilling) \subseteq Range(running)
       /\ \A p \in Range(prefilling) \cap Range(running), q \in Unstarted :
            SameGroup(p, q) => q \in Range(prefilling)
  BY <1>2 DEF IInv, Typed, Prefills, Resumes
<1>17. /\ prefilling' \in Seq(Requests) /\ IsInjective(prefilling')
       /\ Range(prefilling') = Range(prefilling) \ Range(g)
  BY <1>15, <1>16, WithoutQueue
<1>18. IsInjective(decoding) /\ (~conf.preemption => \A q \in Range(decoding) : prefilled[q])
  BY <1>2 DEF IInv, Decodes
(* The list of the others stays closed under groups. *)
<1>19. \A p \in Range(prefilling') \cap Range(running), q \in Unstarted :
         SameGroup(p, q) => q \in Range(prefilling')
  <2> SUFFICES ASSUME NEW p \in Range(prefilling') \cap Range(running), NEW q \in Unstarted, SameGroup(p, q)
               PROVE  q \in Range(prefilling')
    OBVIOUS
  <2>1. p \in Range(prefilling) /\ p \notin Range(g) /\ p \in Unstarted /\ q \in Range(prefilling)
    BY <1>16, <1>17
  <2>2. ASSUME q \in Range(g) PROVE FALSE
    <3>1. SameGroup(h, p)
      BY <1>4, <2>2 DEF SameGroup
    <3> QED
      BY <1>4, <2>1, <3>1
  <2> QED
    BY <1>17, <2>1, <2>2
<1>20. CASE m.length[r] < ask[r].prompt
  <2>1. mem' = m /\ UNCHANGED <<conf, ask, known, queues, prefilled, generated, finished, room>>
    BY <1>7, <1>12, <1>13, <1>20
  <2>2. /\ conf' = conf /\ ask' = ask /\ running' = running /\ waiting' = waiting /\ known' = known
        /\ committed' = committed /\ budget' = budget /\ prefilled' = prefilled
        /\ generated' = generated /\ finished' = finished /\ room' = room
    BY <2>1 DEF queues
  <2>3. /\ Sound(mem)' /\ Exact(mem)' /\ Promised'
        /\ mem'.length[r] = mem.length[r] + n
        /\ \A q \in Requests \ {r} : mem'.length[q] = mem.length[q] /\ mem'.table[q] = mem.table[q]
    BY <1>9, <1>11, <1>12, <2>1, <2>2, GrownNext
  <2>4. Typed'
    BY <1>15, <1>16, <1>17, <2>2 DEF IInv, Typed, Alike, Phases
  <2>5. Queued'
    BY <2>2 DEF IInv, Queued, Live, MaxBlocksFor, Positions
  <2>6. Progress'
    <3>1. \A q \in Requests : Sequence(q)' = Sequence(q)
      BY <2>2 DEF Sequence
    <3>2. conf.chunk # 0 /\ mem'.length[r] <= Sequence(r)
      BY <1>10, <1>11, <1>14, <1>20, <2>1
    <3> SUFFICES ASSUME NEW q \in Requests
                 PROVE  /\ mem'.length[q] <= Sequence(q)
                        /\ prefilled[q] => generated[q] > 0 /\ mem'.length[q] = Sequence(q)
                        /\ conf.chunk = 0 /\ conf.entries = 0 /\ ~prefilled[q] => mem'.length[q] = 0
      BY <2>2, <3>1 DEF Progress
    <3>3. CASE q = r
      BY <1>9, <3>2, <3>3
    <3>4. CASE q # r
      BY <2>3, <3>4 DEF IInv, Progress
    <3> QED
      BY <3>3, <3>4
  <2>7. Resuming' = Resuming /\ Unstarted' = Unstarted
    BY <2>2 DEF Resuming, Unstarted
  <2>8. Resumes' /\ Alive'
    BY <1>15, <1>16, <2>7 DEF Resumes, Alive
  <2>9. Prefills'
    <3>1. \A p, q \in Unstarted : p # q /\ SameGroup(p, q) => mem'.table[p] = <<>> \/ mem'.table[q] = <<>>
      <4>1. ASSUME NEW q \in Unstarted, q # r, SameGroup(r, q) PROVE mem'.table[q] = <<>>
        <5>1. SameGroup(h, q)
          BY <1>4, <1>9, <4>1 DEF SameGroup
        <5>2. q \in Range(g) \ {r} /\ q \in Requests
          BY <1>4, <1>5, <4>1, <5>1
        <5> QED
          BY <1>4, <1>6, <2>3, <5>2
      <4>2. \A p, q : SameGroup(p, q) => SameGroup(q, p)
        BY DEF SameGroup
      <4> SUFFICES ASSUME NEW p \in Unstarted, NEW q \in Unstarted, p # q, SameGroup(p, q)
                   PROVE  mem'.table[p] = <<>> \/ mem'.table[q] = <<>>
        OBVIOUS
      <4>3. CASE p = r
        BY <4>1, <4>3
      <4>4. CASE q = r
        BY <4>1, <4>2, <4>4
      <4>5. CASE p # r /\ q # r
        <5>1. mem'.table[p] = mem.table[p] /\ mem'.table[q] = mem.table[q]
          BY <1>5, <2>3, <4>5
        <5> QED
          BY <5>1 DEF IInv, Prefills
      <4> QED
        BY <4>3, <4>4, <4>5
    <3>2. /\ Range(prefilling') \cap Range(running) \subseteq Unstarted
          /\ ~conf.preemption => Range(prefilling') \subseteq Range(running)
      BY <1>16, <1>17
    <3> QED
      BY <1>15, <1>17, <1>19, <2>2, <2>7, <3>1, <3>2 DEF Prefills, SameGroup
  <2>10. Decodes'
    BY <1>15, <1>18, <2>2 DEF Decodes
  <2> QED
    BY <2>3, <2>4, <2>5, <2>6, <2>8, <2>9, <2>10 DEF IInv
<1>21. CASE ~(m.length[r] < ask[r].prompt)
  <2>1. PICK eos \in SUBSET Range(g) : Sample(f, rs, eos)
    BY <1>7, <1>12, <1>13, <1>21
  <2>2. m.length[r] = ask[r].prompt
    <3>1. mem.length[r] \in Nat
      BY Basics
    <3> QED
      BY <1>10, <1>11, <1>14, <1>21, <3>1
  <2>3. rs \in Seq(Requests) /\ Range(rs) = Range(g)
    <3>1. Without(g, {r}) \in Seq(Requests) /\ Range(Without(g, {r})) = Range(g) \ {r}
      BY WithoutQueue
    <3> DEFINE others == Without(g, {r})
    <3>2. others \in Seq(Requests) /\ rs = <<r>> \o others
      BY <3>1 DEF rs
    <3> HIDE DEF others
    <3>3. rs \in Seq(Requests) /\ Range(rs) = Range(others) \cup {r}
      BY <3>2, QueuePrepend
    <3> QED
      BY <1>9, <3>1, <3>3 DEF others
  <2>4. /\ Sound(f)
        /\ \A q \in Range(g) : f.table[q] = m.table[r] /\ f.length[q] = m.length[r] /\ (ExactIn(m, r) => ExactIn(f, q))
        /\ \A q \in Requests \ Range(g) : /\ f.table[q] = m.table[q] /\ f.length[q] = m.length[q]
                                          /\ ExactIn(m, q) => ExactIn(f, q)
    BY <1>5, <1>14, ForkedKeeps DEF f
  <2>5. Exact(f)
    <3>1. \A q \in Requests : ExactIn(m, q)
      BY <1>14, Basics DEF Exact
    <3> QED
      BY <2>4, <3>1 DEF Exact
  <2>6. \A q \in Range(rs) : f.length[q] = ask[q].prompt + generated[q]
    <3> SUFFICES ASSUME NEW q \in Range(g) PROVE f.length[q] = ask[q].prompt + generated[q]
      BY <2>3
    <3>1. f.length[q] = ask[r].prompt /\ ask[q].prompt = ask[r].prompt /\ generated[q] = 0
      BY <1>9, <2>2, <2>4
    <3> QED
      BY <1>10, <3>1
  <2>7. \A q \in Requests \ Range(rs) : f.table[q] = mem.table[q] /\ f.length[q] = mem.length[q]
    BY <1>9, <1>14, <2>3, <2>4
  <2>8. /\ Sound(mem)' /\ Exact(mem)' /\ Queued' /\ Promised' /\ Progress'
        /\ UNCHANGED <<conf, ask, room>>
        /\ Range(running') \subseteq Range(running) /\ Range(running) \subseteq Range(running') \cup Range(rs)
        /\ Resuming = {} => Resuming' = {}
        /\ Unstarted' = Unstarted \ Range(rs)
        /\ \A q \in Requests \ Range(rs) : mem'.table[q] = mem.table[q] /\ prefilled'[q] = prefilled[q]
        /\ Passing' => Typed'
    BY <1>5, <2>1, <2>3, <2>4, <2>5, <2>6, <2>7, SampleKeeps
  <2>9. Passing'
    BY <1>15, <1>16, <1>17, <2>8 DEF Passing, Phases
  <2>10. Resumes' /\ Alive'
    BY <1>15, <1>16, <2>8 DEF Resumes, Alive
  <2>11. Prefills'
    <3>1. \A p, q \in Unstarted' : p # q /\ SameGroup(p, q) => mem'.table[p] = <<>> \/ mem'.table[q] = <<>>
      <4>1. \A q \in Unstarted' : q \in Unstarted /\ mem'.table[q] = mem.table[q]
        BY <1>5, <2>8
      <4> QED
        BY <4>1 DEF IInv, Prefills
    <3>2. /\ Range(prefilling') \cap Range(running') \subseteq Unstarted'
          /\ ~conf.preemption => Range(prefilling') \subseteq Range(running')
      BY <1>16, <1>17, <2>3, <2>8
    <3>3. \A p \in Range(prefilling') \cap Range(running'), q \in Unstarted' :
            SameGroup(p, q) => q \in Range(prefilling')
      BY <1>19, <2>8
    <3> QED
      BY <1>15, <1>17, <2>8, <3>1, <3>2, <3>3 DEF Prefills, SameGroup
  <2>12. Decodes'
    <3>1. ~conf.preemption => \A q \in Range(decoding) : prefilled'[q]
      <4>1. Range(decoding) \subseteq Requests
        BY <1>16, QueueRange
      <4>2. \A q \in Range(rs) : ~prefilled[q]
        BY <1>9, <2>3
      <4> QED
        BY <1>18, <2>8, <4>1, <4>2
    <3> QED
      BY <1>15, <1>18, <2>8, <3>1 DEF Decodes
  <2> QED
    BY <2>8, <2>9, <2>10, <2>11, <2>12 DEF IInv
<1> QED
  BY <1>20, <1>21

-----------------------------------------------------------------------------
(* The decode *)

(* Who is on the decode list may decode, and wants at most its draft. *)
LEMMA DecodersAre ==
  ASSUME IInv, phase = "decode"
  PROVE  /\ decoding \in Seq(Requests) /\ IsInjective(decoding) /\ Range(decoding) \subseteq Range(running)
         /\ IsFiniteSet(Range(decoding)) /\ Resuming = {}
         /\ \A r \in Range(decoding) :
              /\ r \in Requests /\ prefilled[r] /\ generated[r] > 0 /\ generated[r] < ask[r].new
              /\ mem.length[r] \in Nat /\ mem.length[r] = ask[r].prompt + generated[r] - 1
              /\ mem.length[r] + 1 + Draft(r) <= ask[r].prompt + ask[r].new - 1
              /\ Draft(r) \in Nat
              /\ ask[r].prompt \in Nat \ {0} /\ ask[r].new \in Nat \ {0} /\ generated[r] \in Nat
<1>1. decoding \in Seq(Requests) /\ IsInjective(decoding) /\ \A r \in Range(decoding) : prefilled[r]
  BY DEF IInv, Typed, Decodes
<1>2. Range(decoding) \subseteq Requests /\ IsFiniteSet(Range(decoding))
  BY <1>1, QueueRange
<1>3. Range(decoding) \subseteq Range(running)
  BY <1>1, <1>2 DEF IInv, Promised
<1>4. Resuming = {}
  BY DEF IInv, Resumes
<1>5. ASSUME NEW r \in Range(decoding)
      PROVE  /\ r \in Requests /\ prefilled[r] /\ generated[r] > 0 /\ generated[r] < ask[r].new
             /\ mem.length[r] \in Nat /\ mem.length[r] = ask[r].prompt + generated[r] - 1
             /\ mem.length[r] + 1 + Draft(r) <= ask[r].prompt + ask[r].new - 1
             /\ Draft(r) \in Nat
             /\ ask[r].prompt \in Nat \ {0} /\ ask[r].new \in Nat \ {0} /\ generated[r] \in Nat
  <2>1. r \in Requests /\ prefilled[r] /\ generated[r] < ask[r].new
    BY <1>1, <1>2, <1>3 DEF IInv, Queued, Live
  <2>2. generated[r] > 0 /\ mem.length[r] = Sequence(r) /\ mem.length[r] \in Nat
    BY <2>1, Basics DEF IInv, Progress
  <2>3. /\ ask[r].prompt \in Nat \ {0} /\ ask[r].new \in Nat \ {0} /\ generated[r] \in Nat
        /\ Sequence(r) = ask[r].prompt + generated[r] - 1 /\ Remaining(r) = ask[r].new - generated[r]
    BY <2>1, <2>2, Amounts DEF IInv
  <2>4. Draft(r) \in Nat /\ Draft(r) <= Remaining(r) - 1
    BY <2>1, DraftIs DEF IInv
  <2> QED
    BY <2>1, <2>2, <2>3, <2>4
<1> QED
  BY <1>1, <1>2, <1>3, <1>4, <1>5

LEMMA DrawsFit ==
  ASSUME IInv, phase = "decode"
  PROVE  /\ \A r \in Range(decoding) : Draws[r] \in Nat
         /\ conf.preemption => SumOver(Draws, Range(decoding)) <= Cardinality(Free(mem))
         /\ \A r \in Range(decoding), k \in Nat :
              k <= 1 + Draft(r) => BlocksToGrow(mem, r, k) \in Nat /\ BlocksToGrow(mem, r, k) <= Draws[r]
<1>1. /\ Built /\ Shaped(mem) /\ Exact(mem)
      /\ \A r \in Range(decoding) : r \in Requests /\ Draft(r) \in Nat
  BY Basics, DecodersAre
<1>2. \A r \in Range(decoding) : Draws[r] = BlocksToGrow(mem, r, 1 + Draft(r))
  BY <1>1 DEF Draws
<1>3. ASSUME NEW r \in Range(decoding), NEW k \in Nat
      PROVE  /\ BlocksToGrow(mem, r, k) \in Nat
             /\ k <= 1 + Draft(r) => BlocksToGrow(mem, r, k) <= Draws[r]
  <2>1. r \in Requests /\ ExactIn(mem, r) /\ 1 + Draft(r) \in Nat
    BY <1>1 DEF Exact
  <2> QED
    BY <1>1, <1>2, <2>1, GrowthIs, DemandInOrder
<1>4. \A r \in Range(decoding) : Draws[r] \in Nat
  <2> SUFFICES ASSUME NEW r \in Range(decoding) PROVE Draws[r] \in Nat
    OBVIOUS
  <2>1. 1 + Draft(r) \in Nat
    BY <1>1
  <2> QED
    BY <1>2, <1>3, <2>1
<1>5. conf.preemption => SumOver(Draws, Range(decoding)) <= Cardinality(Free(mem))
  <2>1. Range(decoding) \subseteq Requests
    BY <1>1
  <2> QED
    BY <2>1, DemandIsSum DEF IInv, Decodes
<1> QED
  BY <1>3, <1>4, <1>5

LEMMA DecodeBatchStep ==
  ASSUME IInv, NEW eos, DecodeBatch(eos)
  PROVE  IInv'
<1> DEFINE count == [r \in Requests |-> 1]
           a == AppendEach(mem, decoding, count)
           D == Range(decoding)
<1>1. /\ phase = "decode"
      /\ IF ~a.ok THEN Die
         ELSE /\ Sample(a, decoding, eos)
              /\ decoding' = <<>> /\ phase' = "between"
              /\ UNCHANGED <<visiting, prefilling>>
  BY DEF DecodeBatch
<1>2. /\ decoding \in Seq(Requests) /\ IsInjective(decoding) /\ D \subseteq Range(running)
      /\ IsFiniteSet(D) /\ Resuming = {}
      /\ \A r \in D :
           /\ r \in Requests /\ generated[r] < ask[r].new
           /\ mem.length[r] \in Nat /\ mem.length[r] = ask[r].prompt + generated[r] - 1
           /\ Draft(r) \in Nat
           /\ ask[r].prompt \in Nat \ {0} /\ ask[r].new \in Nat \ {0} /\ generated[r] \in Nat
  BY <1>1, DecodersAre
<1>3. \A r \in Requests : count[r] = 1
  OBVIOUS
<1>4. Built /\ Sound(mem) /\ Exact(mem)
  BY Basics
<1>5. Funded(mem, D, count, budget)
  <2>1. CASE ~conf.preemption
    <3>1. \A r \in D : count[r] \in Nat /\ mem.length[r] + count[r] <= ask[r].prompt + ask[r].new - 1
      <4> HIDE DEF count, D
      <4> SUFFICES ASSUME NEW r \in D
                   PROVE  count[r] \in Nat /\ mem.length[r] + count[r] <= ask[r].prompt + ask[r].new - 1
        OBVIOUS
      <4> DEFINE l == mem.length[r]
                 p == ask[r].prompt
                 k == ask[r].new
                 g == generated[r]
      <4>1. l = p + g - 1 /\ p \in Nat \ {0} /\ k \in Nat \ {0} /\ g \in Nat /\ g < k /\ count[r] = 1
        BY <1>2, <1>3
      <4> HIDE DEF l, p, k, g
      <4>2. 1 \in Nat /\ l + 1 <= p + k - 1
        BY <4>1
      <4> QED
        BY <4>1, <4>2 DEF l, p, k
    <3> HIDE DEF count
    <3> QED
      BY <1>2, <2>1, <3>1, ReserveCovers DEF Funded
  <2>2. CASE conf.preemption
    <3> DEFINE f == [q \in Requests |-> BlocksToGrow(mem, q, count[q])]
    <3>1. \A r \in D : f[r] \in Nat /\ Draws[r] \in Nat /\ f[r] <= Draws[r]
      <4> SUFFICES ASSUME NEW r \in D PROVE f[r] \in Nat /\ Draws[r] \in Nat /\ f[r] <= Draws[r]
        OBVIOUS
      <4>1. 1 \in Nat /\ 1 <= 1 + Draft(r) /\ f[r] = BlocksToGrow(mem, r, 1)
        BY <1>2
      <4> HIDE DEF f
      <4> QED
        BY <1>1, <4>1, DrawsFit
    <3> HIDE DEF f
    <3>2. SumOver(f, D) <= SumOver(Draws, D)
      BY <1>2, <3>1, SumBounds
    <3>3. SumOver(Draws, D) <= Cardinality(Free(mem))
      BY <1>1, <2>2, DrawsFit
    <3>4. SumOver(f, D) \in Nat /\ SumOver(Draws, D) \in Nat /\ Cardinality(Free(mem)) \in Nat
      <4>1. SumOver(f, D) \in Nat
        BY <1>2, <3>1, SumIsNat
      <4>2. SumOver(Draws, D) \in Nat
        BY <1>2, <3>1, SumIsNat
      <4> QED
        BY <4>1, <4>2, Basics
    <3>5. SumOver(f, D) <= Cardinality(Free(mem))
      BY <3>2, <3>3, <3>4
    <3> QED
      BY <3>5 DEF Funded, Demands, f
  <2> QED
    BY <2>1, <2>2
<1> HIDE DEF count
<1>6. /\ Sound(a) /\ Exact(a)
      /\ \A q \in D : a.length[q] = mem.length[q] + count[q]
      /\ \A q \in Requests \ D : a.length[q] = mem.length[q] /\ a.table[q] = mem.table[q]
  <2>1. \A q \in Requests : count[q] \in Nat
    BY <1>3
  <2> QED
    BY <1>2, <1>4, <1>5, <2>1, AppendEachKeeps
<1> HIDE DEF a
<1>7. Sample(a, decoding, eos) /\ decoding' = <<>> /\ phase' = "between"
      /\ UNCHANGED <<visiting, prefilling>>
  BY <1>1, <1>6 DEF Sound
<1>8. \A q \in D : a.length[q] = ask[q].prompt + generated[q]
  <2> HIDE DEF D
  <2> QED
    BY <1>2, <1>3, <1>6
<1>9. /\ Sound(mem)' /\ Exact(mem)' /\ Queued' /\ Promised' /\ Progress'
      /\ UNCHANGED <<conf, ask, room>>
      /\ Resuming = {} => Resuming' = {}
      /\ Unstarted' = Unstarted \ D
      /\ \A q \in Requests \ D : mem'.table[q] = mem.table[q] /\ prefilled'[q] = prefilled[q]
      /\ Passing' => Typed'
  BY <1>2, <1>6, <1>7, <1>8, SampleKeeps
<1>10. Passing'
  BY <1>7, <1>9, NoQueue DEF IInv, Typed, Passing, Phases
<1>11. Resumes' /\ Decodes' /\ Alive'
  BY <1>2, <1>7, <1>9 DEF Resumes, Decodes, Alive
<1>12. Prefills'
  <2>1. \A q \in Unstarted' : q \in Unstarted /\ mem'.table[q] = mem.table[q]
    BY <1>9, Basics DEF Unstarted
  <2>2. \A p, q \in Unstarted' : p # q /\ SameGroup(p, q) => mem'.table[p] = <<>> \/ mem'.table[q] = <<>>
    BY <2>1 DEF IInv, Prefills
  <2> QED
    BY <1>7, <1>9, <2>2 DEF Prefills, SameGroup
<1> QED
  BY <1>9, <1>10, <1>11, <1>12 DEF IInv

(* A verification writes its draft, and keeps the emitted tokens or ends   *)
(* with its table released.                                                *)
Verified(w, r, x, ends) ==
  IF ends THEN Released([w EXCEPT !.length[r] = x], <<r>>) ELSE Trimmed(w, r, x)

LEMMA VerifyGrows ==
  ASSUME IInv, phase = "decode", NEW r \in Range(decoding), NEW d \in Nat, d <= Draft(r)
  PROVE  /\ Grown(mem, Appended(mem, r, 1 + d), r, 1 + d)
         /\ BlocksToGrow(mem, r, 1 + d) \in Nat /\ BlocksToGrow(mem, r, 1 + d) <= Draws[r]
         /\ Draws[r] \in Nat
<1>1. /\ decoding \in Seq(Requests) /\ Range(decoding) \subseteq Range(running)
      /\ r \in Requests /\ mem.length[r] \in Nat /\ Draft(r) \in Nat
      /\ ask[r].prompt \in Nat \ {0} /\ ask[r].new \in Nat \ {0}
      /\ mem.length[r] + 1 + Draft(r) <= ask[r].prompt + ask[r].new - 1
  BY DecodersAre
<1>2. /\ Built /\ Sound(mem) /\ Exact(mem) /\ Shaped(mem) /\ \A q \in Requests : ask[q] \in Asks
      /\ Cardinality(Free(mem)) \in Nat
  BY Basics
<1>3. /\ 1 + d \in Nat /\ 1 + d <= 1 + Draft(r)
      /\ mem.length[r] + (1 + d) <= ask[r].prompt + ask[r].new - 1
  <2> DEFINE e == Draft(r)
             l == mem.length[r]
             p == ask[r].prompt
             k == ask[r].new
  <2>1. e \in Nat /\ l \in Nat /\ d <= e
    BY <1>1
  <2>2. p \in Nat /\ k \in Nat
    BY <1>1
  <2>3. l + 1 + e <= p + k - 1
    BY <1>1
  <2> HIDE DEF e, l, p, k
  <2>4. 1 + d \in Nat /\ 1 + d <= 1 + e /\ l + (1 + d) <= p + k - 1
    BY <2>1, <2>2, <2>3
  <2> QED
    BY <2>4 DEF e, l, p, k
<1>4. BlocksToGrow(mem, r, 1 + d) \in Nat /\ BlocksToGrow(mem, r, 1 + d) <= Draws[r] /\ Draws[r] \in Nat
  BY <1>3, DrawsFit
<1>5. ExactIn(mem, r)
  BY <1>1, <1>2 DEF Exact
<1>6. BlocksToGrow(mem, r, 1 + d) <= Cardinality(Free(Forget(mem, Len(mem.cache))))
  <2>1. CASE ~conf.preemption
    <3> DEFINE count == [q \in Requests |-> 1 + d]
    <3>1. count[r] = 1 + d /\ \A q \in Requests : count[q] \in Nat
      BY <1>1, <1>3
    <3> HIDE DEF count
    <3>2. \A q \in {r} : count[q] \in Nat /\ mem.length[q] + count[q] <= ask[q].prompt + ask[q].new - 1
      BY <1>1, <1>3, <3>1
    <3>3. {r} \subseteq Range(running) /\ {r} \in SUBSET Requests
      BY <1>1
    <3>4. Funded(mem, {r}, count, budget)
      BY <2>1, <3>2, <3>3, ReserveCovers DEF Funded
    <3>5. BlocksToGrow(mem, r, count[r]) <= Cardinality(Free(Forget(mem, Len(mem.cache))))
      BY <1>2, <3>1, <3>3, <3>4, FundedNow
    <3> QED
      BY <3>1, <3>5
  <2>2. CASE conf.preemption
    <3> DEFINE D == Range(decoding)
    <3>1. SumOver(Draws, D) <= Cardinality(Free(mem)) /\ \A q \in D : Draws[q] \in Nat
      BY <2>2, DrawsFit
    <3>2. IsFiniteSet(D)
      BY DecodersAre
    <3>3. SumOver(Draws, D) = Draws[r] + SumOver(Draws, D \ {r})
      BY <3>1, <3>2, SumSplits
    <3>4. SumOver(Draws, D \ {r}) \in Nat
      BY <3>1, <3>2, SumIsNat
    <3>5. Len(mem.cache) \in Nat
      BY <1>2, Shapes
    <3>6. Cardinality(Free(mem)) <= Cardinality(Free(Forget(mem, Len(mem.cache))))
          /\ Cardinality(Free(Forget(mem, Len(mem.cache)))) \in Nat
      BY <1>2, <3>5, Forgotten, FreeCounts
    <3> HIDE DEF D
    <3> QED
      BY <1>2, <1>4, <3>1, <3>3, <3>4, <3>6
  <2> QED
    BY <2>1, <2>2
<1>7. Grown(mem, Appended(mem, r, 1 + d), r, 1 + d)
  BY <1>1, <1>2, <1>3, <1>5, <1>6, AppendedGrows
<1> QED
  BY <1>4, <1>7

(* What it makes of the memory m, by way of w, is c. *)
Keeps(m, w, c, r, x, ends) ==
  /\ Sound(c) /\ Exact(c)
  /\ ends => c.table[r] = <<>> /\ c.length[r] = 0
  /\ ~ends => c.length[r] = x
  /\ \A q \in Requests \ {r} : c.table[q] = m.table[q] /\ c.length[q] = m.length[q]
  /\ \A q \in Requests : Range(c.table[q]) \subseteq Range(w.table[q])

LEMMA VerifiedKeeps ==
  ASSUME Built, \A q \in Requests : ask[q] \in Asks, NEW m, Sound(m), Exact(m),
         NEW r \in Requests, NEW n \in Nat, NEW w, Grown(m, w, r, n),
         NEW x \in Nat, m.length[r] <= x, x <= w.length[r], NEW ends \in BOOLEAN
  PROVE  w.ok = TRUE /\ Shaped(w) /\ Keeps(m, w, Verified(w, r, x, ends), r, x, ends)
<1> DEFINE c == Verified(w, r, x, ends)
<1> HIDE DEF c
<1>2. Shaped(m) /\ m.length[r] \in Nat
  <2>1. Shaped(m)
    BY DEF Sound
  <2> QED
    BY <2>1, Shapes
<1>5. ExactIn(m, r)
  BY DEF Exact
<1>8. /\ w.ok = TRUE /\ Shaped(w) /\ Sound(w)
      /\ \A q \in Requests : ExactIn(m, q) => ExactIn(w, q)
      /\ w.length[r] = m.length[r] + n
      /\ \A q \in Requests \ {r} : w.length[q] = m.length[q] /\ w.table[q] = m.table[q]
  <2>1. w.ok = TRUE /\ Shaped(w)
    BY DEF Grown
  <2>2. /\ Sound(w)
        /\ \A q \in Requests : ExactIn(m, q) => ExactIn(w, q)
        /\ w.length[r] = m.length[r] + n
        /\ \A q \in Requests \ {r} : w.length[q] = m.length[q] /\ w.table[q] = m.table[q]
    BY GrownSound
  <2> QED
    BY <2>1, <2>2
<1>10. /\ Sound(c) /\ Exact(c)
       /\ ends => c.table[r] = <<>> /\ c.length[r] = 0
       /\ ~ends => c.length[r] = x
       /\ \A q \in Requests \ {r} : c.table[q] = m.table[q] /\ c.length[q] = m.length[q]
       /\ \A q \in Requests : Range(c.table[q]) \subseteq Range(w.table[q])
  <2>1. CASE ~ends
    <3>1. c = Trimmed(w, r, x)
      BY <2>1 DEF c, Verified
    <3>2. /\ Sound(c) /\ c.length[r] = x /\ ExactIn(c, r)
          /\ \A q \in Requests \ {r} : c.table[q] = m.table[q] /\ c.length[q] = m.length[q]
          /\ \A q \in Requests : Range(c.table[q]) \subseteq Range(w.table[q])
      <4>1. Sound(Trimmed(w, r, x))
        BY TrimmedKeeps
      <4>2. Trimmed(w, r, x).length[r] = x /\ ExactIn(Trimmed(w, r, x), r)
        BY TrimmedKeeps
      <4>3. \A q \in Requests \ {r} : Trimmed(w, r, x).table[q] = m.table[q]
        BY TrimmedKeeps
      <4>4. \A q \in Requests \ {r} : Trimmed(w, r, x).length[q] = m.length[q]
        BY TrimmedKeeps
      <4>5. \A q \in Requests : Range(Trimmed(w, r, x).table[q]) \subseteq Range(w.table[q])
        BY TrimmedKeeps
      <4> QED
        BY <3>1, <4>1, <4>2, <4>3, <4>4, <4>5
    <3>3. Exact(c)
      BY <1>2, <3>2 DEF Exact, ExactIn
    <3> QED
      BY <2>1, <3>2, <3>3
  <2>2. CASE ends
    <3> DEFINE v == [w EXCEPT !.length[r] = x]
    <3>1. Sound(v)
      BY <1>2, GrownCut
    <3>2. /\ v.table = w.table /\ v.length[r] = x
          /\ \A q \in Requests \ {r} : v.length[q] = w.length[q]
      <4>1. w.length \in [Requests -> Nat]
        BY <1>2, <1>8, Shapes
      <4> QED
        BY <1>8, <4>1 DEF Shaped
    <3> HIDE DEF v
    <3> DEFINE z == <<r>>
    <3>3. c = Released(v, z)
      BY <2>2 DEF v, c, Verified
    <3>4. z \in Seq(Requests) /\ Range(z) = {r}
      <4>1. z \in Seq(Requests) /\ DOMAIN z = {1} /\ z[1] = r
        OBVIOUS
      <4> QED
        BY <4>1 DEF Range
    <3> HIDE DEF z
    <3>5. v.length[r] \div conf.block <= Len(v.table[r])
      <4> DEFINE y == m.length[r] + n
      <4>1. y \in Nat /\ x <= y
        BY <1>2, <1>8
      <4>2. Len(v.table[r]) = Positions(y)
        BY <1>5, <1>8, <3>2 DEF ExactIn
      <4>3. x \div conf.block \in Nat /\ Positions(x) \in {x \div conf.block, x \div conf.block + 1}
        BY <1>2, WholeBlocks
      <4>4. Positions(x) <= Positions(y) /\ Positions(x) \in Nat /\ Positions(y) \in Nat
        BY <1>2, <4>1, PositionsMono
      <4> HIDE DEF y
      <4> DEFINE k == x \div conf.block
      <4>5. k \in Nat /\ Positions(x) \in {k, k + 1}
        BY <4>3
      <4> HIDE DEF k
      <4>6. k <= Positions(y)
        BY <4>4, <4>5
      <4> QED
        BY <3>2, <4>2, <4>6 DEF k
    <3>6. /\ Sound(c)
          /\ \A q \in Range(z) : c.table[q] = <<>> /\ c.length[q] = 0 /\ ExactIn(c, q)
          /\ \A q \in Requests \ Range(z) : c.table[q] = v.table[q] /\ c.length[q] = v.length[q]
      <4>1. \A q \in Range(z) : v.length[q] \div conf.block <= Len(v.table[q])
        BY <3>4, <3>5
      <4> QED
        BY <1>2, <3>1, <3>3, <3>4, <4>1, ReleasedKeeps
    <3>7. \A q \in Requests \ {r} : c.table[q] = m.table[q] /\ c.length[q] = m.length[q]
      <4>1. \A q \in Requests \ {r} : c.table[q] = v.table[q] /\ c.length[q] = v.length[q]
        BY <3>4, <3>6
      <4> QED
        BY <1>8, <3>2, <4>1
    <3>8. c.table[r] = <<>> /\ c.length[r] = 0 /\ ExactIn(c, r)
      BY <3>4, <3>6
    <3>9. Exact(c)
      BY <1>2, <3>7, <3>8 DEF Exact, ExactIn
    <3>10. \A q \in Requests : Range(c.table[q]) \subseteq Range(w.table[q])
      BY <1>8, <3>7, <3>8, NoQueue
    <3> QED
      BY <2>2, <3>6, <3>7, <3>8, <3>9, <3>10
  <2> QED
    BY <2>1, <2>2
<1> QED
  BY <1>8, <1>10 DEF c, Keeps

(* What a verification leaves: the tokens it keeps or a released table, at *)
(* most the blocks it was counted for gone, and the others' blocks as they *)
(* were, shared with nobody new.                                           *)
Leaves(c, r, x, ends) ==
  /\ Sound(c) /\ Exact(c)
  /\ ends => c.table[r] = <<>> /\ c.length[r] = 0
  /\ ~ends => c.length[r] = x
  /\ \A q \in Requests \ {r} : c.table[q] = mem.table[q] /\ c.length[q] = mem.length[q]
  /\ conf.preemption => /\ Cardinality(Free(mem)) <= Cardinality(Free(c)) + Draws[r]
                        /\ c.cache = <<>>
  /\ \A q \in Requests \ {r}, p \in Requests : \A b \in Range(mem.table[q]) :
       b \in Range(c.table[p]) => b \in Range(mem.table[p])

LEMMA VerifyLeaves ==
  ASSUME IInv, phase = "decode", NEW r \in Range(decoding), NEW d \in Nat, d <= Draft(r),
         NEW x \in Nat, mem.length[r] <= x, x <= mem.length[r] + (1 + d), NEW ends \in BOOLEAN
  PROVE  /\ Appended(mem, r, 1 + d).ok = TRUE
         /\ Leaves(Verified(Appended(mem, r, 1 + d), r, x, ends), r, x, ends)
<1> DEFINE n == 1 + d
           w == Appended(mem, r, n)
           c == Verified(w, r, x, ends)
<1>1. r \in Requests /\ n \in Nat
  BY DecodersAre
<1>2. /\ Built /\ Sound(mem) /\ Exact(mem) /\ Shaped(mem) /\ \A q \in Requests : ask[q] \in Asks
      /\ Cardinality(Free(mem)) \in Nat
  BY Basics
<1>3. Grown(mem, w, r, n) /\ BlocksToGrow(mem, r, n) \in Nat /\ BlocksToGrow(mem, r, n) <= Draws[r]
      /\ Draws[r] \in Nat
  BY VerifyGrows
<1>5. w.length[r] = mem.length[r] + n
  BY <1>1, <1>2, <1>3, GrownSound
<1>4. mem.length[r] <= x /\ x <= w.length[r]
  BY <1>5
<1> HIDE DEF n, w
<1>10. /\ w.ok = TRUE /\ Shaped(w) /\ Sound(c) /\ Exact(c)
       /\ ends => c.table[r] = <<>> /\ c.length[r] = 0
       /\ ~ends => c.length[r] = x
       /\ \A q \in Requests \ {r} : c.table[q] = mem.table[q] /\ c.length[q] = mem.length[q]
       /\ \A q \in Requests : Range(c.table[q]) \subseteq Range(w.table[q])
  <2>1. w.ok = TRUE /\ Shaped(w)
    BY <1>3 DEF Grown
  <2>2. Keeps(mem, w, c, r, x, ends)
    BY <1>1, <1>2, <1>3, <1>4, VerifiedKeeps
  <2> QED
    BY <2>1, <2>2 DEF Keeps
<1> HIDE DEF c
<1>9. Cardinality(Free(mem)) <= Cardinality(Free(w)) + BlocksToGrow(mem, r, n)
  BY <1>3 DEF Grown
<1>11. ASSUME conf.preemption
       PROVE  Cardinality(Free(mem)) <= Cardinality(Free(c)) + Draws[r] /\ c.cache = <<>>
  <2>1. conf.entries = 0
    BY <1>2, <1>11, ConfTypes
  <2>2. c.cache = <<>> /\ Shaped(c)
    BY <1>10, <2>1 DEF Sound
  <2>3. \A b : Cached(c, b) => Cached(w, b)
    BY <2>2 DEF Cached
  <2>4. Cardinality(Free(w)) <= Cardinality(Free(c))
    BY <1>2, <1>10, <2>2, <2>3, FreeGrows
  <2>5. Cardinality(Free(w)) \in Nat /\ Cardinality(Free(c)) \in Nat
    BY <1>2, FreeCounts
  <2> QED
    BY <1>2, <1>3, <1>9, <2>2, <2>4, <2>5
<1>12. ASSUME NEW q \in Requests \ {r}, NEW p \in Requests, NEW b \in Range(mem.table[q]),
              b \in Range(c.table[p])
       PROVE  b \in Range(mem.table[p])
  <2>1. b \in Range(w.table[p])
    BY <1>10, <1>12
  <2> QED
    BY <1>1, <1>2, <1>3, <1>12, <2>1, GrownSpares
<1> QED
  <2>1. Leaves(c, r, x, ends)
    BY <1>10, <1>11, <1>12 DEF Leaves
  <2> QED
    BY <1>10, <2>1 DEF c, w, n

LEMMA VerifyStep ==
  ASSUME IInv, NEW r \in Requests, NEW d, NEW emitted, NEW eos \in BOOLEAN, Verify(r, d, emitted, eos)
  PROVE  IInv'
<1> DEFINE ends == eos \/ emitted = Remaining(r)
           E    == IF ends THEN {r} ELSE {}
           w    == Appended(mem, r, 1 + d)
           x    == mem.length[r] + emitted
           c    == Verified(w, r, x, ends)
<1>1. /\ phase = "decode" /\ r \in Range(decoding)
      /\ d \in 1..Draft(r) /\ emitted \in 1..(d + 1)
      /\ IF ~w.ok THEN Die
         ELSE /\ generated' = [generated EXCEPT ![r] = @ + emitted]
              /\ finished' = [finished EXCEPT ![r] = ends]
              /\ IF ends
                 THEN /\ mem' = Released([w EXCEPT !.length[r] = x], <<r>>)
                      /\ Unprefilled({r}) /\ Leave({r})
                 ELSE /\ mem' = Trimmed(w, r, x)
                      /\ UNCHANGED <<prefilled, running, committed, budget>>
              /\ decoding' = Without(decoding, {r})
              /\ phase' = IF decoding' = <<>> THEN "between" ELSE "decode"
              /\ UNCHANGED <<conf, ask, known, waiting, room, visiting, prefilling>>
  BY DEF Verify
<1>2. /\ Built /\ Sound(mem) /\ Exact(mem) /\ Range(running) \subseteq Requests
      /\ generated \in [Requests -> Nat] /\ finished \in [Requests -> BOOLEAN]
      /\ prefilled \in [Requests -> BOOLEAN] /\ Typed
  BY Basics DEF IInv, Typed
<1>3. /\ decoding \in Seq(Requests) /\ IsInjective(decoding) /\ Range(decoding) \subseteq Range(running)
      /\ IsFiniteSet(Range(decoding)) /\ Resuming = {}
      /\ prefilled[r] /\ generated[r] > 0 /\ generated[r] < ask[r].new
      /\ mem.length[r] \in Nat /\ mem.length[r] = ask[r].prompt + generated[r] - 1
      /\ Draft(r) \in Nat /\ ask[r].prompt \in Nat \ {0} /\ ask[r].new \in Nat \ {0}
      /\ generated[r] \in Nat
  BY <1>1, DecodersAre
<1>4. Draft(r) <= Remaining(r) - 1 /\ Remaining(r) \in Nat /\ Remaining(r) = ask[r].new - generated[r]
  BY <1>2, <1>3, DraftIs DEF Remaining
<1>5. /\ d \in Nat /\ d <= Draft(r) /\ emitted \in Nat /\ emitted > 0 /\ emitted <= 1 + d
      /\ emitted <= Remaining(r)
  <2> DEFINE a == Draft(r)
             b == Remaining(r)
  <2>1. a \in Nat /\ b \in Nat /\ a <= b - 1 /\ d \in 1..a /\ emitted \in 1..(d + 1)
    BY <1>1, <1>3, <1>4
  <2> HIDE DEF a, b
  <2>2. d \in Nat /\ d <= a /\ emitted \in Nat /\ emitted > 0 /\ emitted <= 1 + d /\ emitted <= b
    BY <2>1
  <2> QED
    BY <2>2 DEF a, b
<1>6. /\ x \in Nat /\ mem.length[r] <= x /\ x <= mem.length[r] + (1 + d)
  BY <1>3, <1>5
<1>7. ends \in BOOLEAN /\ (~ends => emitted # Remaining(r))
  OBVIOUS
<1> HIDE DEF ends
<1>8. /\ w.ok = TRUE /\ Sound(c) /\ Exact(c)
      /\ ends => c.table[r] = <<>> /\ c.length[r] = 0
      /\ ~ends => c.length[r] = x
      /\ \A q \in Requests \ {r} : c.table[q] = mem.table[q] /\ c.length[q] = mem.length[q]
      /\ conf.preemption => /\ Cardinality(Free(mem)) <= Cardinality(Free(c)) + Draws[r]
                            /\ c.cache = <<>>
      /\ \A q \in Requests \ {r}, p \in Requests : \A b \in Range(mem.table[q]) :
           b \in Range(c.table[p]) => b \in Range(mem.table[p])
  <2>1. w.ok = TRUE /\ Leaves(c, r, x, ends)
    <3> HIDE DEF x
    <3> QED
      BY <1>1, <1>5, <1>6, <1>7, VerifyLeaves
  <2> HIDE DEF x, c, w
  <2> QED
    BY <2>1 DEF Leaves
<1>9. /\ generated' = [generated EXCEPT ![r] = @ + emitted]
      /\ finished' = [finished EXCEPT ![r] = ends]
      /\ mem' = c
      /\ decoding' = Without(decoding, {r})
      /\ phase' = (IF decoding' = <<>> THEN "between" ELSE "decode")
      /\ conf' = conf /\ ask' = ask /\ known' = known /\ waiting' = waiting /\ room' = room
      /\ visiting' = visiting /\ prefilling' = prefilling
  BY <1>1, <1>8 DEF Verified
<1>10. /\ ends => Unprefilled({r}) /\ Leave({r})
       /\ ~ends => UNCHANGED <<prefilled, running, committed, budget>>
  BY <1>1, <1>8
<1> HIDE DEF c, w
<1>11. /\ E \in SUBSET Requests /\ (ends => E = {r}) /\ (~ends => E = {})
  OBVIOUS
<1> HIDE DEF E
<1>12. /\ committed' = SumOver(budget', Requests) /\ committed' \in Nat /\ committed' <= committed
       /\ budget' \in [Requests -> Nat]
       /\ \A q \in Requests : budget'[q] = IF q \in E THEN 0 ELSE budget[q]
       /\ running' \in Seq(Requests) /\ Range(running') = Range(running) \ E
       /\ IsInjective(running')
  <2>1. Typed /\ committed = SumOver(budget, Requests) /\ IsInjective(running)
    BY DEF IInv, Promised, Queued
  <2>2. CASE ends
    <3>1. {r} \in SUBSET Requests /\ Leave({r}) /\ E = {r}
      BY <1>10, <1>11, <2>2
    <3> QED
      BY <2>1, <3>1, LeaveReturns
  <2>3. CASE ~ends
    <3>1. UNCHANGED <<prefilled, running, committed, budget>> /\ E = {}
      BY <1>10, <1>11, <2>3
    <3>2. committed \in Nat /\ budget \in [Requests -> Nat] /\ running \in Seq(Requests)
      BY <2>1 DEF Typed
    <3> QED
      BY <2>1, <3>1, <3>2
  <2> QED
    BY <2>2, <2>3
<1>13. /\ generated' \in [Requests -> Nat] /\ finished' \in [Requests -> BOOLEAN]
       /\ \A q \in Requests \ {r} : generated'[q] = generated[q] /\ finished'[q] = finished[q]
       /\ generated'[r] = generated[r] + emitted /\ finished'[r] = ends
  <2>1. generated[r] + emitted \in Nat
    BY <1>3, <1>5
  <2>2. /\ generated' \in [Requests -> Nat] /\ generated'[r] = generated[r] + emitted
        /\ \A q \in Requests \ {r} : generated'[q] = generated[q]
    BY <1>2, <1>9, <2>1
  <2>3. /\ finished' \in [Requests -> BOOLEAN] /\ finished'[r] = ends
        /\ \A q \in Requests \ {r} : finished'[q] = finished[q]
    BY <1>2, <1>7, <1>9
  <2> QED
    BY <2>2, <2>3
<1>14. /\ prefilled' \in [Requests -> BOOLEAN]
       /\ \A q \in Requests : prefilled'[q] = (prefilled[q] /\ q \notin E)
  <2>1. CASE ends
    <3>1. prefilled' = [q \in Requests |-> prefilled[q] /\ q \notin {r}] /\ E = {r}
      BY <1>10, <1>11, <2>1 DEF Unprefilled
    <3> QED
      BY <1>2, <3>1
  <2>2. CASE ~ends
    <3>1. prefilled' = prefilled /\ E = {}
      BY <1>10, <1>11, <2>2
    <3> QED
      BY <1>2, <3>1
  <2> QED
    BY <2>1, <2>2
<1>15. Sound(mem)' /\ Exact(mem)' /\ Free(mem)' = Free(c)
       /\ \A q \in Requests, k \in Nat : BlocksToGrow(mem, q, k)' = BlocksToGrow(c, q, k)
  BY <1>8, <1>9, NextMemory
<1>16. \A q \in Requests : MaxBlocksFor(q)' = MaxBlocksFor(q)
  BY <1>9 DEF MaxBlocksFor, Positions
<1>17. Queued'
  <2>1. Live' \subseteq Live \ E /\ Live \subseteq Requests
    <3>1. Range(waiting) \cap Range(running) = {} /\ waiting \in Seq(Requests)
      BY DEF IInv, Queued, Typed
    <3>2. Range(waiting) \subseteq Requests
      BY <3>1, QueueRange
    <3>3. E \subseteq Range(running)
      BY <1>1, <1>3, <1>11
    <3> QED
      BY <1>2, <1>9, <1>12, <3>1, <3>2, <3>3 DEF Live
  <2>2. IsInjective(waiting') /\ IsInjective(running') /\ Range(waiting') \cap Range(running') = {}
    BY <1>9, <1>12 DEF IInv, Queued
  <2>3. ASSUME NEW q \in Live'
        PROVE  /\ q \in Range(known') /\ finished'[q] = FALSE
               /\ generated'[q] < ask'[q].new /\ MaxBlocksFor(q)' <= conf'.pool
    <3>1. q \in Live /\ q \in Requests /\ q \notin E
      BY <2>1
    <3>2. /\ q \in Range(known) /\ finished[q] = FALSE
          /\ generated[q] < ask[q].new /\ MaxBlocksFor(q) <= conf.pool
      BY <3>1 DEF IInv, Queued
    <3>3. CASE q = r
      <4>1. ~ends
        BY <1>11, <3>1, <3>3
      <4>2. emitted # Remaining(r)
        BY <1>7, <4>1
      <4>3. generated[r] + emitted < ask[r].new
        <5> DEFINE a == Remaining(r)
                   g == generated[r]
                   k == ask[r].new
        <5>1. a = k - g /\ emitted <= a /\ emitted # a /\ k \in Nat /\ g \in Nat /\ emitted \in Nat
          BY <1>3, <1>4, <1>5, <4>2
        <5> HIDE DEF a, g, k
        <5>2. g + emitted < k
          BY <5>1
        <5> QED
          BY <5>2 DEF g, k
      <4>4. finished'[r] = FALSE
        BY <1>7, <1>13, <4>1
      <4> QED
        BY <1>9, <1>13, <1>16, <3>1, <3>2, <3>3, <4>3, <4>4
    <3>4. CASE q # r
      BY <1>9, <1>13, <1>16, <3>1, <3>2, <3>4
    <3> QED
      BY <3>3, <3>4
  <2>4. ASSUME NEW q \in Requests, q \notin Range(known) PROVE generated'[q] = 0 /\ finished'[q] = FALSE
    <3>1. q # r
      BY <1>1, <1>3, <2>4 DEF IInv, Queued, Live
    <3> QED
      BY <1>13, <2>4, <3>1 DEF IInv, Queued
  <2> QED
    BY <1>9, <2>2, <2>3, <2>4 DEF Queued
<1>18. Promised'
  <2>1. \A q \in Requests : q \notin Range(running') =>
          mem'.table[q] = <<>> /\ mem'.length[q] = 0 /\ prefilled'[q] = FALSE /\ budget'[q] = 0
    <3> SUFFICES ASSUME NEW q \in Requests, q \notin Range(running')
                 PROVE  mem'.table[q] = <<>> /\ mem'.length[q] = 0 /\ prefilled'[q] = FALSE /\ budget'[q] = 0
      OBVIOUS
    <3>1. CASE q \in E
      <4>1. ends /\ q = r
        BY <1>11, <3>1
      <4> QED
        BY <1>8, <1>9, <1>12, <1>14, <3>1, <4>1
    <3>2. CASE q \notin E
      <4>1. q \notin Range(running) /\ q # r
        BY <1>1, <1>3, <1>12, <3>2
      <4>2. mem.table[q] = <<>> /\ mem.length[q] = 0 /\ prefilled[q] = FALSE /\ budget[q] = 0
        BY <4>1 DEF IInv, Promised
      <4>3. mem'.table[q] = mem.table[q] /\ mem'.length[q] = mem.length[q]
        BY <1>8, <1>9, <4>1
      <4>4. prefilled'[q] = FALSE /\ budget'[q] = budget[q]
        BY <1>12, <1>14, <3>2, <4>2
      <4> QED
        BY <4>2, <4>3, <4>4
    <3> QED
      BY <3>1, <3>2
  <2>2. ~conf.preemption => committed' <= conf.pool
    <3>1. committed \in Nat /\ conf.pool \in Nat
      BY <1>2, ConfTypes DEF Typed
    <3> QED
      BY <1>12, <3>1 DEF IInv, Promised
  <2>3. ~conf.preemption => \A q \in Range(running') : budget'[q] = MaxBlocksFor(q)
    BY <1>2, <1>12 DEF IInv, Promised
  <2>4. Range(running') \subseteq Requests
    BY <1>2, <1>12
  <2> QED
    BY <1>9, <1>12, <1>16, <2>1, <2>2, <2>3, <2>4 DEF Promised
<1>19. Progress'
  <2> SUFFICES ASSUME NEW q \in Requests
               PROVE  /\ mem'.length[q] <= Sequence(q)'
                      /\ prefilled'[q] => generated'[q] > 0 /\ mem'.length[q] = Sequence(q)'
                      /\ conf'.chunk = 0 /\ conf'.entries = 0 /\ ~prefilled'[q] => mem'.length[q] = 0
    BY DEF Progress
  <2>1. ask[q].prompt \in Nat \ {0} /\ generated[q] \in Nat /\ generated'[q] \in Nat
    BY <1>13, Amounts DEF IInv
  <2>2. Sequence(q)' = ask[q].prompt + (IF generated'[q] > 0 THEN generated'[q] - 1 ELSE 0)
    BY <1>9 DEF Sequence
  <2>3. CASE q \in E
    <3>1. mem'.length[q] = 0 /\ prefilled'[q] = FALSE
      BY <1>8, <1>9, <1>11, <1>14, <2>3
    <3>2. Sequence(q)' \in Nat
      BY <2>1, <2>2
    <3> QED
      BY <3>1, <3>2
  <2>4. CASE q = r /\ q \notin E
    <3>1. mem'.length[r] = x /\ prefilled'[r] = TRUE
      <4>1. ~ends
        BY <1>11, <2>4
      <4> QED
        BY <1>2, <1>3, <1>8, <1>9, <1>14, <2>4, <4>1
    <3>2. generated'[r] > 0 /\ Sequence(r)' = ask[r].prompt + (generated[r] + emitted - 1)
      BY <1>3, <1>5, <1>13, <2>2, <2>4
    <3>3. x = Sequence(r)' /\ x \in Nat
      <4> DEFINE l == mem.length[r]
                 p == ask[r].prompt
                 g == generated[r]
      <4>1. /\ l = p + g - 1 /\ p \in Nat \ {0} /\ g \in Nat /\ emitted \in Nat /\ x = l + emitted
            /\ Sequence(r)' = p + (g + emitted - 1)
        BY <1>3, <1>5, <3>2
      <4> HIDE DEF l, p, g, x
      <4>2. x = p + (g + emitted - 1)
        BY <4>1
      <4> QED
        BY <1>6, <4>1, <4>2 DEF l, p, g, x
    <3> HIDE DEF x
    <3> QED
      BY <2>4, <3>1, <3>2, <3>3
  <2>5. CASE q # r
    <3>1. q \notin E
      BY <1>11, <2>5
    <3>2. mem'.length[q] = mem.length[q] /\ generated'[q] = generated[q] /\ prefilled'[q] = prefilled[q]
      BY <1>2, <1>8, <1>9, <1>13, <1>14, <2>5, <3>1
    <3>3. Sequence(q)' = Sequence(q)
      BY <2>2, <3>2 DEF Sequence
    <3> QED
      BY <1>9, <3>2, <3>3 DEF IInv, Progress
  <2> QED
    BY <2>3, <2>4, <2>5
<1>20. Resuming' = {}
  <2> SUFFICES ASSUME NEW q \in Resuming' PROVE FALSE
    OBVIOUS
  <2>1. q \in Range(running') /\ ~prefilled'[q] /\ generated'[q] > 0
    BY DEF Resuming
  <2>2. q \notin E /\ q \in Range(running) /\ q \in Requests
    BY <1>2, <1>12, <2>1
  <2>3. q # r /\ ~prefilled[q]
    BY <1>3, <1>14, <2>1, <2>2
  <2>4. q \in Resuming
    BY <1>13, <2>1, <2>2, <2>3 DEF Resuming
  <2> QED
    BY <1>3, <2>4
<1>21. \A q \in Unstarted' : q \in Unstarted /\ mem'.table[q] = mem.table[q]
  <2> SUFFICES ASSUME NEW q \in Unstarted' PROVE q \in Unstarted /\ mem'.table[q] = mem.table[q]
    OBVIOUS
  <2>1. q \in Range(running') /\ ~prefilled'[q] /\ generated'[q] = 0
    BY DEF Unstarted
  <2>2. q \notin E /\ q \in Range(running) /\ q \in Requests
    BY <1>2, <1>12, <2>1
  <2>3. q # r /\ ~prefilled[q]
    BY <1>3, <1>14, <2>1, <2>2
  <2> QED
    BY <1>8, <1>9, <1>13, <2>1, <2>2, <2>3 DEF Unstarted
<1>22. Resumes'
  BY <1>9, <1>20 DEF Resumes
<1>23. Prefills'
  <2>1. \A p, q \in Unstarted' : p # q /\ SameGroup(p, q) => mem'.table[p] = <<>> \/ mem'.table[q] = <<>>
    BY <1>21 DEF IInv, Prefills
  <2> QED
    BY <1>9, <2>1 DEF Prefills, SameGroup
<1>24. /\ decoding' \in Seq(Requests) /\ IsInjective(decoding')
       /\ Range(decoding') = Range(decoding) \ {r}
  BY <1>3, <1>9, WithoutQueue
<1>25. Typed'
  BY <1>9, <1>12, <1>13, <1>14, <1>24 DEF IInv, Typed, Alike, Phases
<1>26. ASSUME conf.preemption
       PROVE  Demand(decoding)' <= Cardinality(Free(mem))'
  <2> DEFINE D == Range(decoding) \ {r}
             f == Draws'
  <2>1. IsFiniteSet(D) /\ D \subseteq Requests /\ D \subseteq Range(decoding)
    BY <1>2, <1>3, FS_Subset
  <2>2. Demand(decoding)' = SumOver(f, D)
    BY <1>24, <2>1, DemandIsSumNext
  <2>3. \A q \in D : f[q] \in Nat /\ Draws[q] \in Nat /\ f[q] <= Draws[q]
    <3> SUFFICES ASSUME NEW q \in D PROVE f[q] \in Nat /\ Draws[q] \in Nat /\ f[q] <= Draws[q]
      OBVIOUS
    <3>1. q \in Requests /\ q # r /\ q \in Range(decoding) /\ Draft(q) \in Nat
      BY <1>1, <2>1, DecodersAre
    <3>2. PICK k \in Nat : k = 1 + Draft(q)
      BY <3>1
    <3>3. Draws[q] = BlocksToGrow(mem, q, k)
      BY <3>1, <3>2 DEF Draws
    <3>4. (1 + Draft(q))' = k
      BY <1>9, <1>13, <3>1, <3>2 DEF Draft, Remaining
    <3>5. f[q] = BlocksToGrow(c, q, k)
      <4>1. f[q] = BlocksToGrow(mem, q, 1 + Draft(q))'
        BY <3>1 DEF Draws
      <4>2. BlocksToGrow(mem, q, 1 + Draft(q))' = BlocksToGrow(c, q, k)
        BY <1>9, <3>4 DEF BlocksToGrow, Growth, Copied, Touched, Positions, Refs
      <4> QED
        BY <4>1, <4>2
    <3>6. Shaped(mem) /\ Shaped(c) /\ ExactIn(mem, q) /\ ExactIn(c, q)
      BY <1>2, <1>8, <3>1 DEF Sound, Exact
    <3>7. BlocksToGrow(mem, q, k) \in Nat /\ BlocksToGrow(c, q, k) \in Nat
      <4>1. BlocksToGrow(mem, q, k) \in Nat
        BY <1>2, <3>1, <3>6, GrowthIs
      <4>2. BlocksToGrow(c, q, k) \in Nat
        BY <1>2, <3>1, <3>6, GrowthIs
      <4> QED
        BY <4>1, <4>2
    <3>8. \A b : Cached(c, b) => Cached(mem, b)
      BY <1>8, <1>26 DEF Cached
    <3>9. c.table[q] = mem.table[q] /\ c.length[q] = mem.length[q]
          /\ \A p \in Requests : \A b \in Range(mem.table[q]) :
               b \in Range(c.table[p]) => b \in Range(mem.table[p])
      BY <1>8, <3>1
    <3>10. BlocksToGrow(c, q, k) <= BlocksToGrow(mem, q, k)
      BY <1>2, <3>1, <3>6, <3>8, <3>9, DemandShrinks
    <3> HIDE DEF f
    <3> QED
      BY <3>3, <3>5, <3>7, <3>10
  <2> HIDE DEF f
  <2>4. SumOver(f, D) <= SumOver(Draws, D)
    BY <2>1, <2>3, SumBounds
  <2>5. SumOver(Draws, Range(decoding)) = Draws[r] + SumOver(Draws, D)
        /\ SumOver(Draws, Range(decoding)) <= Cardinality(Free(mem))
    <3>1. \A q \in Range(decoding) : Draws[q] \in Nat
      BY <1>1, DrawsFit
    <3>2. SumOver(Draws, Range(decoding)) = Draws[r] + SumOver(Draws, D)
      BY <1>1, <1>3, <3>1, SumSplits
    <3> QED
      BY <1>1, <1>26, <3>2, DrawsFit
  <2>6. SumOver(f, D) \in Nat /\ SumOver(Draws, D) \in Nat
    <3>1. SumOver(f, D) \in Nat
      BY <2>1, <2>3, SumIsNat
    <3>2. SumOver(Draws, D) \in Nat
      BY <2>1, <2>3, SumIsNat
    <3> QED
      BY <3>1, <3>2
  <2>7. Draws[r] \in Nat /\ Cardinality(Free(mem)) \in Nat /\ Cardinality(Free(c)) \in Nat
    <3>1. Shaped(c)
      BY <1>8 DEF Sound
    <3> QED
      BY <1>1, <1>2, <3>1, DrawsFit, Basics, FreeCounts
  <2>8. Cardinality(Free(mem)) <= Cardinality(Free(c)) + Draws[r]
    BY <1>8, <1>26
  <2> HIDE DEF D
  <2>9. SumOver(f, D) <= Cardinality(Free(c))
    BY <2>4, <2>5, <2>6, <2>7, <2>8
  <2> QED
    BY <1>15, <2>2, <2>9
<1>27. Decodes'
  <2>1. \A q \in Range(decoding') : prefilled'[q]
    <3> SUFFICES ASSUME NEW q \in Range(decoding) \ {r} PROVE prefilled'[q]
      BY <1>24
    <3>1. q \in Requests /\ prefilled[q] /\ q # r
      BY <1>1, DecodersAre
    <3>2. q \notin E
      BY <1>11, <3>1
    <3> QED
      BY <1>14, <3>1, <3>2
  <2> QED
    BY <1>9, <1>24, <1>26, <2>1 DEF Decodes
<1>28. Alive'
  BY <1>9 DEF Alive
<1> QED
  BY <1>15, <1>17, <1>18, <1>19, <1>22, <1>23, <1>25, <1>27, <1>28 DEF IInv

-----------------------------------------------------------------------------
(* The invariant *)

LEMMA InitIInv ==
  ASSUME Init
  PROVE  IInv
<1>1. /\ conf \in Engines /\ ask \in conf.asks /\ Alike
      /\ known = <<>> /\ waiting = <<>> /\ running = <<>>
      /\ committed = 0 /\ budget = [r \in Requests |-> 0]
      /\ prefilled = [r \in Requests |-> FALSE]
      /\ generated = [r \in Requests |-> 0] /\ finished = [r \in Requests |-> FALSE]
      /\ phase = "between" /\ room = 0
      /\ visiting = <<>> /\ prefilling = <<>> /\ decoding = <<>>
  BY DEF Init, Alike
<1>2. /\ mem.table = [r \in Requests |-> <<>>] /\ mem.length = [r \in Requests |-> 0]
      /\ mem.cache = <<>> /\ mem.ok = TRUE
      /\ mem = [table |-> mem.table, length |-> mem.length, cache |-> mem.cache, ok |-> mem.ok]
  BY DEF Init
<1>3. Built /\ IsFiniteSet(Requests)
  BY <1>1, EngineAssumption DEF Built
<1>4. Typed
  BY <1>1, NoQueue DEF Typed, Phases
<1>5. \A r \in Requests : mem.table[r] = <<>> /\ mem.length[r] = 0
  BY <1>2
<1>6. Shaped(mem)
  <2>1. <<>> \in Seq(Blocks) /\ <<>> \in Seq(Entries)
    OBVIOUS
  <2>2. mem.table \in [Requests -> Seq(Blocks)] /\ mem.length \in [Requests -> Nat]
    BY <1>2, <2>1
  <2> QED
    BY <1>2, <2>1, <2>2 DEF Shaped
<1>7. Sound(mem)
  <2>1. \A r \in Requests : DOMAIN mem.table[r] = {}
    BY <1>5
  <2> QED
    BY <1>2, <1>6, <2>1 DEF Sound, Level, CachedWhole
<1>8. Exact(mem)
  <2>1. Positions(0) = 0
    <3>1. 0 % conf.block = 0 /\ 0 \div conf.block = 0
      <4>1. conf.block \in Nat \ {0}
        BY <1>3, ConfTypes
      <4> QED
        BY <4>1
    <3> QED
      BY <1>3, <3>1, WholeBlocks
  <2>2. Len(<<>>) = 0
    OBVIOUS
  <2> QED
    BY <1>5, <2>1, <2>2 DEF Exact, ExactIn
<1>9. Range(<<>>) = {} /\ IsInjective(<<>>)
  BY NoQueue
<1>10. Queued
  BY <1>1, <1>9 DEF Queued, Live
<1>11. Promised
  <2>1. \A r \in Requests : budget[r] = 0 /\ prefilled[r] = FALSE
    BY <1>1
  <2>2. SumOver(budget, Requests) = 0
    BY <1>3, <2>1, SumOfZeros
  <2>3. conf.pool \in Nat
    BY <1>3, ConfTypes
  <2> QED
    BY <1>1, <1>5, <1>9, <2>1, <2>2, <2>3 DEF Promised
<1>12. Progress
  <2>1. \A r \in Requests : Sequence(r) \in Nat /\ prefilled[r] = FALSE
    BY <1>1, <1>4, Amounts DEF Sequence
  <2> QED
    BY <1>5, <2>1 DEF Progress
<1>13. Resuming = {} /\ Unstarted = {}
  BY <1>1, <1>9 DEF Resuming, Unstarted
<1>14. Resumes /\ Prefills /\ Decodes /\ Alive
  BY <1>1, <1>13 DEF Resumes, Prefills, Decodes, Alive
<1> QED
  BY <1>4, <1>7, <1>8, <1>10, <1>11, <1>12, <1>14 DEF IInv

LEMMA StutterStep ==
  ASSUME IInv, UNCHANGED vars
  PROVE  IInv'
<1>1. UNCHANGED <<conf, ask, known, queues, mem, prefilled, generated, finished>>
      /\ UNCHANGED lists /\ phase' = phase /\ room' = room
  BY DEF vars
<1>2. /\ Sound(mem)' /\ Exact(mem)' /\ Queued' /\ Promised' /\ Progress' /\ Leaders1'
      /\ Resuming' = Resuming /\ Unstarted' = Unstarted /\ Free(mem)' = Free(mem)
      /\ Passing' => Typed'
  BY <1>1, QuietStep
<1>3. UNCHANGED <<visiting, prefilling, decoding, running, waiting, committed, budget, conf, ask, mem,
                  prefilled, generated>>
  BY <1>1 DEF lists, queues
<1>4. Passing'
  BY <1>1, <1>3 DEF IInv, Typed, Passing
<1>5. Resumes'
  <2>1. Missing' = Missing
    BY <1>3 DEF Missing, Footprint, Positions
  <2> QED
    BY <1>1, <1>2, <1>3, <2>1 DEF IInv, Resumes
<1>6. Prefills'
  <2>1. phase = "many" => CanPrefillMany'
    BY <1>3 DEF IInv, Prefills, CanPrefillMany
  <2> QED
    BY <1>1, <1>2, <1>3, <2>1 DEF IInv, Prefills, Leaders1, SameGroup
<1>7. Demand(decoding)' = Demand(decoding)
  <2>1. Range(decoding) \subseteq Requests /\ Range(decoding') \subseteq Requests
    BY <1>3, QueueRange DEF IInv, Typed
  <2>2. Draws' = Draws
    BY <1>3 DEF Draws, BlocksToGrow, Growth, Copied, Touched, Refs, Positions, Draft, Remaining
  <2>3. Demand(decoding)' = SumOver(Draws', Range(decoding'))
    BY <2>1, DemandIsSumNext
  <2>4. Demand(decoding) = SumOver(Draws, Range(decoding))
    BY <2>1, DemandIsSum
  <2> QED
    BY <1>3, <2>2, <2>3, <2>4
<1>8. Decodes' /\ Alive'
  BY <1>1, <1>2, <1>3, <1>7 DEF IInv, Decodes, Alive
<1> QED
  BY <1>2, <1>4, <1>5, <1>6, <1>8 DEF IInv

LEMMA NextIInv ==
  ASSUME IInv, [Next]_vars
  PROVE  IInv'
<1>1. CASE Begin
  BY <1>1, BeginStep
<1>2. CASE AdmitOne
  BY <1>2, AdmitOneStep
<1>3. CASE Classify
  BY <1>3, ClassifyStep
<1>4. CASE EnsurePoolRoom
  BY <1>4, EnsurePoolRoomStep
<1>5. CASE ResumeChunk
  BY <1>5, ResumeChunkStep
<1>6. CASE ResumeDone
  BY <1>6, ResumeDoneStep
<1>7. CASE Lookup
  BY <1>7, LookupStep
<1>8. CASE PrefillMany
  BY <1>8, PrefillManyStep
<1>9. CASE PrefillSkip
  BY <1>9, PrefillSkipStep
<1>10. CASE Prefill
  BY <1>10, PrefillStep
<1>11. CASE PrefillDone
  BY <1>11, PrefillDoneStep
<1>12. CASE RoomEvict
  BY <1>12, RoomEvictStep
<1>13. CASE RoomDone
  BY <1>13, RoomDoneStep
<1>14. CASE \E r \in Requests, d \in Drafts, eos \in BOOLEAN :
              \E emitted \in 1..(d + 1) : Verify(r, d, emitted, eos)
  BY <1>14, VerifyStep
<1>15. CASE \E eos \in SUBSET Requests : DecodeBatch(eos)
  BY <1>15, DecodeBatchStep
<1>16. CASE \E r \in Requests : Add(r)
  BY <1>16, AddStep
<1>17. CASE \E r \in Requests : Abort(r)
  BY <1>17, AbortStep
<1>18. CASE UNCHANGED vars
  BY <1>18, StutterStep
<1> QED
  BY <1>1, <1>2, <1>3, <1>4, <1>5, <1>6, <1>7, <1>8, <1>9, <1>10, <1>11, <1>12, <1>13, <1>14,
     <1>15, <1>16, <1>17, <1>18 DEF Next, Pass

(* The invariant of the pass, for every set of requests, every engine and  *)
(* every load EngineAssumption admits.                                     *)
THEOREM EngineInvariant == Spec => []IInv
<1>1. Init => IInv
  BY InitIInv
<1>2. IInv /\ [Next]_vars => IInv'
  BY NextIInv
<1> QED
  BY <1>1, <1>2, PTL DEF Spec

-----------------------------------------------------------------------------
(* What it says of the engine *)

(* No step ends in an error of the engine's own making while clients put   *)
(* only identical prompts in a group: the worst case reserve mode promises *)
(* covers every chunk, draft and copy-on-write, and under preemption       *)
(* evicting ends with room for whoever is left (_ensure_pool_room,         *)
(* _ensure_decode_room, the ValueErrors of _prefill_shared_group).         *)
THEOREM EngineNeverDies == SamePrompts => (Spec => []NeverDies)
<1> SUFFICES ASSUME SamePrompts PROVE Spec => []NeverDies
  OBVIOUS
<1>1. IInv => NeverDies
  BY DEF IInv, Alive, NeverDies
<1> QED
  BY <1>1, EngineInvariant, PTL

(* A table has the blocks its positions need and not one more, and in      *)
(* reserve mode never more than its request was promised at admission.     *)
THEOREM TablesStayExact == Spec => []TablesExact
<1>1. IInv => TablesExact
  BY WithinBudget DEF IInv, Exact, ExactIn, TablesExact
<1> QED
  BY <1>1, EngineInvariant, PTL

(* Who waits is queued once and holds nothing, and the budgets add up to   *)
(* the committed total (Scheduler.requeue, release).                       *)
THEOREM WaitersHoldNothing == Spec => []WaitingHoldNothing
<1>1. ASSUME IInv PROVE WaitingHoldNothing
  <2>1. /\ waiting \in Seq(Requests) /\ running \in Seq(Requests)
        /\ IsInjective(waiting) /\ IsInjective(running) /\ Range(waiting) \cap Range(running) = {}
    BY <1>1 DEF IInv, Typed, Queued
  <2>2. IsInjective(waiting \o running)
    BY <2>1, QueueJoin
  <2>3. committed = MapThenSumSet(LAMBDA r : budget[r], Requests)
    BY <1>1 DEF IInv, Promised, SumOver
  <2> QED
    BY <1>1, <2>2, <2>3 DEF WaitingHoldNothing, IInv, Promised
<1> QED
  BY <1>1, EngineInvariant, PTL

(* A request that may decode holds the KV of its prompt and of all but the *)
(* last of its tokens, however often it was evicted, recomputed or rolled  *)
(* back.                                                                   *)
THEOREM DecodesLandRight == Spec => []DecodeAtOwnPosition
<1>1. ASSUME IInv PROVE DecodeAtOwnPosition
  <2> SUFFICES ASSUME NEW r \in Requests, prefilled[r]
               PROVE  mem.length[r] = ask[r].prompt + generated[r] - 1
    BY DEF DecodeAtOwnPosition
  <2>1. generated[r] > 0 /\ mem.length[r] = Sequence(r)
    BY <1>1 DEF IInv, Progress
  <2>2. ask[r].prompt \in Nat \ {0} /\ generated[r] \in Nat
    BY <1>1, Amounts DEF IInv
  <2>3. Sequence(r) = ask[r].prompt + (generated[r] - 1)
    BY <2>1 DEF Sequence
  <2> QED
    BY <2>1, <2>2, <2>3
<1> QED
  BY <1>1, EngineInvariant, PTL
=============================================================================
