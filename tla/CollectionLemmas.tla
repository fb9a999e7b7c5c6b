-------------------------- MODULE CollectionLemmas --------------------------
(***************************************************************************)
(* Facts about sums over finite sets, filtered lists and the greatest and  *)
(* the least of a set, for every component that is proved about.           *)
(*                                                                         *)
(* A MapThenSumSet is a natural number, it splits at any element and over  *)
(* disjoint sets, and it moves with the values that are summed.  The fold  *)
(* picks elements in an order of its own, so a sum is first shown not to   *)
(* depend on it.  A list without the members of a set keeps the others.    *)
(***************************************************************************)
EXTENDS Integers, Lists, SequencesExt, FiniteSetsExt, FiniteSetTheorems, SequenceTheorems,
        WellFoundedInduction, TLAPS

SumOver(f, S) == MapThenSumSet(LAMBDA x : f[x], S)

(* The recursion the sum of f over S unfolds to, on the subsets of S. *)
Pick(s) == CHOOSE x \in s : TRUE

Adds(it, f, s) == IF s = {} THEN 0 ELSE f[Pick(s)] + it[s \ {Pick(s)}]

Unfolds(it, f, S) == it = [s \in SUBSET S |-> Adds(it, f, s)]

Partial(f, S) == CHOOSE it : Unfolds(it, f, S)

LEMMA SumUnfolds ==
  ASSUME NEW f, NEW S
  PROVE  SumOver(f, S) = Partial(f, S)[S]
  BY DEF SumOver, MapThenSumSet, MapThenFoldSet, Partial, Unfolds, Adds, Pick

(* A non-empty set of naturals has a least member. *)
LEMMA LeastOf ==
  ASSUME NEW T \in SUBSET Nat, T # {}
  PROVE  \E n \in T : \A m \in T : n <= m
<1>1. PICK n \in T : \A m \in T : ~(<<m, n>> \in OpToRel(<, Nat))
  BY NatLessThanWellFounded, WFMin, Zenon
<1>2. \A m \in T : ~(m < n)
  BY <1>1 DEF OpToRel
<1> QED
  BY <1>2

SmallSubsets(S, n) == {s \in SUBSET S : Cardinality(s) <= n}

LEMMA PickSmaller ==
  ASSUME NEW S, IsFiniteSet(S), NEW s \in SUBSET S, s # {}
  PROVE  /\ Pick(s) \in s /\ s \ {Pick(s)} \in SUBSET S
         /\ Cardinality(s \ {Pick(s)}) = Cardinality(s) - 1
         /\ Cardinality(s) \in Nat \ {0} /\ IsFiniteSet(s)
<1>1. Pick(s) \in s
  BY DEF Pick
<1>2. IsFiniteSet(s) /\ Cardinality(s) \in Nat
  BY FS_Subset, FS_CardinalityType
<1>3. Cardinality(s) # 0
  BY <1>2, FS_EmptySet
<1> QED
  BY <1>1, <1>2, <1>3, FS_RemoveElement

(* The recursion has a solution on the subsets of any size. *)
LEMMA PartialExists ==
  ASSUME NEW S, IsFiniteSet(S), NEW f, \A x \in S : f[x] \in Nat
  PROVE  \E it : Unfolds(it, f, S)
<1> DEFINE Solves(n) == \E g \in [SmallSubsets(S, n) -> Nat] : \A s \in SmallSubsets(S, n) : g[s] = Adds(g, f, s)
           Bad == {n \in Nat : ~Solves(n)}
<1>1. Solves(0)
  <2> DEFINE g == [s \in SmallSubsets(S, 0) |-> 0]
  <2>1. \A s \in SmallSubsets(S, 0) : s = {}
    <3>1. TAKE s \in SmallSubsets(S, 0)
    <3>2. IsFiniteSet(s) /\ Cardinality(s) \in Nat /\ Cardinality(s) <= 0
      BY <3>1, FS_Subset, FS_CardinalityType DEF SmallSubsets
    <3> QED
      BY <3>2, FS_EmptySet
  <2>2. g \in [SmallSubsets(S, 0) -> Nat] /\ \A s \in SmallSubsets(S, 0) : g[s] = Adds(g, f, s)
    BY <2>1 DEF Adds
  <2> QED
    BY <2>2
<1>2. ASSUME NEW n \in Nat, Solves(n)
      PROVE  Solves(n + 1)
  <2>1. PICK g \in [SmallSubsets(S, n) -> Nat] : \A s \in SmallSubsets(S, n) : g[s] = Adds(g, f, s)
    BY <1>2
  <2> DEFINE h == [s \in SmallSubsets(S, n + 1) |-> IF s \in SmallSubsets(S, n) THEN g[s] ELSE Adds(g, f, s)]
  <2>2. ASSUME NEW s \in SmallSubsets(S, n + 1), s # {}
        PROVE  Pick(s) \in S /\ s \ {Pick(s)} \in SmallSubsets(S, n)
    <3>1. s \in SUBSET S /\ Cardinality(s) <= n + 1
      BY DEF SmallSubsets
    <3>2. Pick(s) \in s /\ s \ {Pick(s)} \in SUBSET S /\ Cardinality(s \ {Pick(s)}) <= n
      BY <2>2, <3>1, PickSmaller
    <3> QED
      BY <3>1, <3>2 DEF SmallSubsets
  <2>3. \A s \in SmallSubsets(S, n + 1) : h[s] = Adds(g, f, s) /\ h[s] \in Nat
    <3>1. TAKE s \in SmallSubsets(S, n + 1)
    <3>2. Adds(g, f, s) \in Nat
      BY <2>2 DEF Adds
    <3> QED
      BY <2>1, <3>2
  <2>4. \A s \in SmallSubsets(S, n) : s \in SmallSubsets(S, n + 1)
    <3>1. TAKE s \in SmallSubsets(S, n)
    <3>2. IsFiniteSet(s) /\ Cardinality(s) \in Nat
      BY <3>1, FS_Subset, FS_CardinalityType DEF SmallSubsets
    <3> QED
      BY <3>2 DEF SmallSubsets
  <2>5. \A s \in SmallSubsets(S, n) : h[s] = g[s]
    <3>1. TAKE t \in SmallSubsets(S, n)
    <3>2. t \in SmallSubsets(S, n + 1)
      BY <2>4
    <3> QED
      BY <3>2
  <2>6. \A s \in SmallSubsets(S, n + 1) : h[s] = Adds(h, f, s)
    <3>1. TAKE s \in SmallSubsets(S, n + 1)
    <3>2. Adds(g, f, s) = Adds(h, f, s)
      <4> HIDE DEF h
      <4> QED
        BY <2>2, <2>5 DEF Adds
    <3> QED
      BY <2>3, <3>2
  <2>7. h \in [SmallSubsets(S, n + 1) -> Nat]
    BY <2>3
  <2> QED
    BY <2>6, <2>7
<1> HIDE DEF Solves
<1>3. Bad = {}
  <2>1. SUFFICES ASSUME Bad # {} PROVE FALSE
    OBVIOUS
  <2>2. PICK n \in Bad : \A m \in Bad : n <= m
    BY <2>1, LeastOf
  <2>3. n # 0 /\ n - 1 \in Nat /\ Solves(n - 1)
    BY <1>1, <2>2
  <2> QED
    BY <1>2, <2>2, <2>3
<1>4. Cardinality(S) \in Nat /\ SmallSubsets(S, Cardinality(S)) = SUBSET S
  BY FS_CardinalityType, FS_Subset DEF SmallSubsets
<1>5. PICK g \in [SUBSET S -> Nat] : \A s \in SUBSET S : g[s] = Adds(g, f, s)
  BY <1>3, <1>4 DEF Solves
<1>6. g = [s \in SUBSET S |-> Adds(g, f, s)]
  BY <1>5
<1> QED
  BY <1>6 DEF Unfolds

LEMMA PartialSolves ==
  ASSUME NEW S, IsFiniteSet(S), NEW f, \A x \in S : f[x] \in Nat
  PROVE  \A s \in SUBSET S : Partial(f, S)[s] = Adds(Partial(f, S), f, s)
<1>1. \E it : Unfolds(it, f, S)
  BY PartialExists, Zenon
<1>2. Unfolds(Partial(f, S), f, S)
  BY <1>1, Zenon DEF Partial
<1> QED
  BY <1>2 DEF Unfolds

(* Functions that agree on a set have the same partial sums below it. *)
LEMMA PartialsAgree ==
  ASSUME NEW S, IsFiniteSet(S), NEW f, \A x \in S : f[x] \in Nat,
         NEW T \in SUBSET S, NEW g, \A x \in T : g[x] = f[x]
  PROVE  \A s \in SUBSET T : Partial(g, T)[s] = Partial(f, S)[s]
<1> DEFINE it == Partial(f, S)
           jt == Partial(g, T)
           Bad == {n \in Nat : \E s \in SUBSET T : Cardinality(s) = n /\ jt[s] # it[s]}
<1>1. IsFiniteSet(T) /\ \A x \in T : g[x] \in Nat
  BY FS_Subset
<1>2. \A s \in SUBSET T : jt[s] = Adds(jt, g, s) /\ it[s] = Adds(it, f, s)
  <2>1. \A s \in SUBSET T : jt[s] = Adds(jt, g, s)
    BY <1>1, PartialSolves
  <2>2. \A s \in SUBSET T : it[s] = Adds(it, f, s)
    BY PartialSolves
  <2> QED
    BY <2>1, <2>2
<1> HIDE DEF it, jt
<1>3. Bad = {}
  <2>1. SUFFICES ASSUME Bad # {} PROVE FALSE
    OBVIOUS
  <2>2. PICK n \in Bad : \A m \in Bad : n <= m
    BY <2>1, LeastOf
  <2>3. PICK s \in SUBSET T : Cardinality(s) = n /\ jt[s] # it[s]
    BY <2>2
  <2>4. s # {}
    BY <1>2, <2>3 DEF Adds
  <2> DEFINE rest == s \ {Pick(s)}
  <2>5. Pick(s) \in s /\ rest \in SUBSET T /\ Cardinality(rest) = n - 1 /\ n \in Nat \ {0}
    BY <1>1, <2>3, <2>4, PickSmaller
  <2>6. jt[rest] = it[rest]
    BY <2>2, <2>5
  <2> QED
    BY <1>2, <2>3, <2>4, <2>5, <2>6 DEF Adds
<1>4. ASSUME NEW s \in SUBSET T PROVE jt[s] = it[s]
  <2>1. Cardinality(s) \in Nat
    BY <1>1, FS_Subset, FS_CardinalityType
  <2> QED
    BY <1>3, <2>1
<1> QED
  BY <1>4 DEF it, jt

LEMMA SumEmpty ==
  ASSUME NEW f
  PROVE  SumOver(f, {}) = 0
<1>1. \A s \in SUBSET {} : Partial(f, {})[s] = Adds(Partial(f, {}), f, s)
  BY FS_EmptySet, PartialSolves
<1> QED
  BY <1>1, SumUnfolds DEF Adds

(* A sum depends on the values it adds only. *)
LEMMA SumAgrees ==
  ASSUME NEW S, IsFiniteSet(S), NEW f, \A x \in S : f[x] \in Nat, NEW g, \A x \in S : g[x] = f[x]
  PROVE  SumOver(g, S) = SumOver(f, S)
  BY SumUnfolds, PartialsAgree

LEMMA SumPicks ==
  ASSUME NEW S, IsFiniteSet(S), NEW f, \A x \in S : f[x] \in Nat, S # {}
  PROVE  SumOver(f, S) = f[Pick(S)] + SumOver(f, S \ {Pick(S)})
<1> DEFINE T == S \ {Pick(S)}
<1>1. Partial(f, S)[S] = Adds(Partial(f, S), f, S)
  BY PartialSolves
<1>2. Partial(f, T)[T] = Partial(f, S)[T]
  BY PartialsAgree
<1> QED
  BY <1>1, <1>2, SumUnfolds DEF Adds

(* A sum of naturals is one. *)
LEMMA SumIsNat ==
  ASSUME NEW S, IsFiniteSet(S), NEW f, \A x \in S : f[x] \in Nat
  PROVE  \A s \in SUBSET S : SumOver(f, s) \in Nat
<1> DEFINE Bad == {n \in Nat : \E s \in SUBSET S : Cardinality(s) = n /\ SumOver(f, s) \notin Nat}
<1>1. Bad = {}
  <2>1. SUFFICES ASSUME Bad # {} PROVE FALSE
    OBVIOUS
  <2>2. PICK n \in Bad : \A m \in Bad : n <= m
    BY <2>1, LeastOf
  <2>3. PICK s \in SUBSET S : Cardinality(s) = n /\ SumOver(f, s) \notin Nat
    BY <2>2
  <2>4. s # {}
    BY <2>3, SumEmpty
  <2> DEFINE p == Pick(s)
             rest == s \ {p}
  <2>5. p \in s /\ rest \in SUBSET S /\ Cardinality(rest) = n - 1 /\ n \in Nat \ {0} /\ IsFiniteSet(s)
    BY <2>3, <2>4, PickSmaller
  <2>6. SumOver(f, rest) \in Nat
    BY <2>2, <2>5
  <2>7. SumOver(f, s) = f[p] + SumOver(f, rest)
    BY <2>4, <2>5, SumPicks
  <2> QED
    BY <2>3, <2>5, <2>6, <2>7
<1>2. \A s \in SUBSET S : Cardinality(s) \in Nat
  BY FS_Subset, FS_CardinalityType
<1> QED
  BY <1>1, <1>2

Splits(f, s) == \A x \in s : SumOver(f, s) = f[x] + SumOver(f, s \ {x})

(* ... and splits at any element. *)
LEMMA SumSplits ==
  ASSUME NEW S, IsFiniteSet(S), NEW f, \A x \in S : f[x] \in Nat
  PROVE  /\ SumOver(f, S) \in Nat
         /\ \A x \in S : SumOver(f, S) = f[x] + SumOver(f, S \ {x})
<1> DEFINE Bad == {n \in Nat : \E s \in SUBSET S : Cardinality(s) = n /\ ~Splits(f, s)}
<1>0. \A s \in SUBSET S : SumOver(f, s) \in Nat /\ IsFiniteSet(s) /\ Cardinality(s) \in Nat
  <2>1. \A s \in SUBSET S : SumOver(f, s) \in Nat
    BY SumIsNat
  <2> QED
    BY <2>1, FS_Subset, FS_CardinalityType
<1>1. Bad = {}
  <2>1. SUFFICES ASSUME Bad # {} PROVE FALSE
    OBVIOUS
  <2>2. PICK n \in Bad : \A m \in Bad : n <= m
    BY <2>1, LeastOf
  <2>3. PICK s \in SUBSET S : Cardinality(s) = n /\ ~Splits(f, s)
    BY <2>2
  <2>4. s # {}
    BY <2>3 DEF Splits
  <2> DEFINE p == Pick(s)
             rest == s \ {p}
  <2>5. p \in s /\ rest \in SUBSET S /\ Cardinality(rest) = n - 1 /\ n \in Nat \ {0} /\ IsFiniteSet(s)
    BY <2>3, <2>4, PickSmaller
  <2>6. \A t \in SUBSET S : Cardinality(t) = n - 1 => Splits(f, t)
    BY <2>2, <2>5
  <2>7. SumOver(f, s) = f[p] + SumOver(f, rest)
    BY <2>4, <2>5, SumPicks
  <2> HIDE DEF p, Bad
  <2>8. Splits(f, rest)
    BY <2>5, <2>6
  <2>9. ASSUME NEW x \in s PROVE SumOver(f, s) = f[x] + SumOver(f, s \ {x})
    <3>1. CASE x = p
      BY <2>7, <3>1
    <3>2. CASE x # p
      <4> DEFINE other == s \ {x}
                 both == s \ {p, x}
      <4>1. other \in SUBSET S /\ p \in other /\ x \in rest /\ both \in SUBSET S
        BY <2>5, <3>2
      <4>2. Cardinality(other) = n - 1
        BY <2>3, <2>5, FS_RemoveElement
      <4>3. Splits(f, other)
        BY <2>6, <4>1, <4>2
      <4>4. other \ {p} = both /\ rest \ {x} = both
        OBVIOUS
      <4> HIDE DEF other, both, rest
      <4>5. SumOver(f, other) = f[p] + SumOver(f, both)
        BY <4>1, <4>3, <4>4 DEF Splits
      <4>6. SumOver(f, rest) = f[x] + SumOver(f, both)
        BY <2>8, <4>1, <4>4 DEF Splits
      <4>7. SumOver(f, both) \in Nat /\ f[p] \in Nat /\ f[x] \in Nat
        BY <1>0, <2>5, <4>1
      <4> QED
        BY <2>7, <4>5, <4>6, <4>7 DEF other
    <3> QED
      BY <3>1, <3>2
  <2> QED
    BY <2>3, <2>9 DEF Splits
<1>2. Splits(f, S)
  BY <1>0, <1>1
<1> QED
  BY <1>0, <1>2 DEF Splits

(* A sum changes as one of its values does. *)
LEMMA SumMoves ==
  ASSUME NEW S, IsFiniteSet(S), NEW f, \A x \in S : f[x] \in Nat,
         NEW t \in S, NEW g, g[t] \in Nat, \A x \in S \ {t} : g[x] = f[x]
  PROVE  SumOver(g, S) = SumOver(f, S) - f[t] + g[t]
<1> DEFINE rest == S \ {t}
<1>1. IsFiniteSet(rest) /\ \A x \in rest : f[x] \in Nat
  BY FS_RemoveElement
<1>2. SumOver(g, rest) = SumOver(f, rest)
  BY <1>1, SumAgrees
<1>3. SumOver(f, S) = f[t] + SumOver(f, rest) /\ SumOver(f, rest) \in Nat
  BY <1>1, SumSplits
<1>4. \A x \in S : g[x] \in Nat
  OBVIOUS
<1>5. SumOver(g, S) = g[t] + SumOver(g, rest)
  BY <1>4, SumSplits
<1> QED
  BY <1>2, <1>3, <1>5

(* Sums over disjoint sets add up. *)
LEMMA SumJoins ==
  ASSUME NEW S, IsFiniteSet(S), NEW f, \A x \in S : f[x] \in Nat, NEW T \in SUBSET S
  PROVE  SumOver(f, S) = SumOver(f, T) + SumOver(f, S \ T)
<1> DEFINE Bad == {n \in Nat : \E t \in SUBSET S : Cardinality(t) = n /\ SumOver(f, S) # SumOver(f, t) + SumOver(f, S \ t)}
<1>1. Bad = {}
  <2>1. SUFFICES ASSUME Bad # {} PROVE FALSE
    OBVIOUS
  <2>2. PICK n \in Bad : \A m \in Bad : n <= m
    BY <2>1, LeastOf
  <2>3. PICK t \in SUBSET S : Cardinality(t) = n /\ SumOver(f, S) # SumOver(f, t) + SumOver(f, S \ t)
    BY <2>2
  <2>4. SumOver(f, S) \in Nat
    BY SumSplits
  <2>5. t # {}
    <3>1. S \ {} = S
      OBVIOUS
    <3> QED
      BY <2>3, <2>4, <3>1, SumEmpty
  <2> DEFINE p == Pick(t)
             rest == t \ {p}
             more == S \ rest
  <2>6. p \in t /\ rest \in SUBSET S /\ Cardinality(rest) = n - 1 /\ n \in Nat \ {0} /\ IsFiniteSet(t)
    BY <2>3, <2>5, PickSmaller
  <2> HIDE DEF p
  <2>7. SumOver(f, S) = SumOver(f, rest) + SumOver(f, more)
    <3>1. n - 1 \in Nat /\ n - 1 < n
      BY <2>6
    <3>2. n - 1 \notin Bad
      <4> HIDE DEF Bad
      <4> QED
        BY <2>2, <2>6, <3>1
    <3> QED
      BY <2>6, <3>1, <3>2
  <2>8. SumOver(f, t) = f[p] + SumOver(f, rest) /\ SumOver(f, rest) \in Nat
    <3>1. IsFiniteSet(rest)
      BY <2>6, FS_RemoveElement
    <3>2. SumOver(f, t) = f[p] + SumOver(f, rest)
      BY <2>6, SumSplits
    <3>3. SumOver(f, rest) \in Nat
      BY <2>6, <3>1, SumSplits
    <3> QED
      BY <3>2, <3>3
  <2>9. SumOver(f, more) = f[p] + SumOver(f, S \ t) /\ SumOver(f, S \ t) \in Nat
    <3>1. IsFiniteSet(more) /\ p \in more /\ more \ {p} = S \ t /\ IsFiniteSet(S \ t)
      BY <2>6, FS_Subset
    <3>2. SumOver(f, more) = f[p] + SumOver(f, more \ {p})
      BY <3>1, SumSplits
    <3>3. SumOver(f, S \ t) \in Nat
      BY <3>1, SumSplits
    <3> QED
      BY <3>1, <3>2, <3>3
  <2>10. f[p] \in Nat
    BY <2>6
  <2> QED
    BY <2>3, <2>7, <2>8, <2>9, <2>10
<1>2. Cardinality(T) \in Nat
  BY FS_Subset, FS_CardinalityType
<1> QED
  BY <1>1, <1>2

(* A sum whose values are all zero is zero. *)
LEMMA SumOfZeros ==
  ASSUME NEW S, IsFiniteSet(S), NEW f, \A x \in S : f[x] = 0
  PROVE  SumOver(f, S) = 0
<1> DEFINE Bad == {n \in Nat : \E t \in SUBSET S : Cardinality(t) = n /\ SumOver(f, t) # 0}
<1>1. Bad = {}
  <2>1. SUFFICES ASSUME Bad # {} PROVE FALSE
    OBVIOUS
  <2>2. PICK n \in Bad : \A m \in Bad : n <= m
    BY <2>1, LeastOf
  <2>3. PICK t \in SUBSET S : Cardinality(t) = n /\ SumOver(f, t) # 0
    BY <2>2
  <2>4. t # {}
    BY <2>3, SumEmpty
  <2> DEFINE p == Pick(t)
             rest == t \ {p}
  <2>5. p \in t /\ rest \in SUBSET S /\ Cardinality(rest) = n - 1 /\ n \in Nat \ {0} /\ IsFiniteSet(t)
    BY <2>3, <2>4, PickSmaller
  <2>6. SumOver(f, rest) = 0
    BY <2>2, <2>5
  <2>7. SumOver(f, t) = f[p] + SumOver(f, rest)
    <3>1. \A x \in t : f[x] \in Nat
      OBVIOUS
    <3> QED
      BY <2>4, <2>5, <3>1, SumPicks
  <2> QED
    BY <2>3, <2>5, <2>6, <2>7
<1>2. Cardinality(S) \in Nat
  BY FS_CardinalityType
<1> QED
  BY <1>1, <1>2

(* A sum grows with its values. *)
LEMMA SumBounds ==
  ASSUME NEW S, IsFiniteSet(S), NEW f, \A x \in S : f[x] \in Nat,
         NEW g, \A x \in S : g[x] \in Nat /\ f[x] <= g[x]
  PROVE  SumOver(f, S) <= SumOver(g, S)
<1> DEFINE Bad == {n \in Nat : \E t \in SUBSET S : Cardinality(t) = n /\ ~(SumOver(f, t) <= SumOver(g, t))}
<1>1. Bad = {}
  <2>1. SUFFICES ASSUME Bad # {} PROVE FALSE
    OBVIOUS
  <2>2. PICK n \in Bad : \A m \in Bad : n <= m
    BY <2>1, LeastOf
  <2>3. PICK t \in SUBSET S : Cardinality(t) = n /\ ~(SumOver(f, t) <= SumOver(g, t))
    BY <2>2
  <2>4. ASSUME t = {} PROVE FALSE
    <3>1. SumOver(f, {}) = 0 /\ SumOver(g, {}) = 0
      BY SumEmpty
    <3>2. ~(SumOver(f, {}) <= SumOver(g, {}))
      BY <2>3, <2>4
    <3> QED
      BY <3>1, <3>2
  <2> DEFINE p == Pick(t)
             rest == t \ {p}
  <2>5. p \in t /\ rest \in SUBSET S /\ Cardinality(rest) = n - 1 /\ n \in Nat \ {0} /\ IsFiniteSet(t)
    BY <2>3, <2>4, PickSmaller
  <2>6. SumOver(f, rest) <= SumOver(g, rest)
    BY <2>2, <2>5
  <2>7. SumOver(f, t) = f[p] + SumOver(f, rest) /\ SumOver(g, t) = g[p] + SumOver(g, rest)
    <3>1. (\A x \in t : f[x] \in Nat) /\ \A x \in t : g[x] \in Nat
      OBVIOUS
    <3> QED
      BY <2>4, <2>5, <3>1, SumPicks
  <2>8. SumOver(f, rest) \in Nat /\ SumOver(g, rest) \in Nat
    <3>1. SumOver(f, rest) \in Nat
      BY <2>5, SumIsNat
    <3>2. SumOver(g, rest) \in Nat
      BY <2>5, SumIsNat
    <3> QED
      BY <3>1, <3>2
  <2>9. f[p] \in Nat /\ g[p] \in Nat /\ f[p] <= g[p]
    BY <2>5
  <2> HIDE DEF rest, p
  <2> QED
    BY <2>3, <2>6, <2>7, <2>8, <2>9
<1>2. Cardinality(S) \in Nat
  BY FS_CardinalityType
<1> QED
  BY <1>1, <1>2

(* A union has no more members than its parts together. *)
LEMMA UnionBounds ==
  ASSUME NEW S, IsFiniteSet(S), NEW f, \A x \in S : f[x] \in Nat,
         NEW T, \A x \in S : IsFiniteSet(T[x]) /\ Cardinality(T[x]) <= f[x]
  PROVE  /\ IsFiniteSet(UNION {T[x] : x \in S})
         /\ Cardinality(UNION {T[x] : x \in S}) <= SumOver(f, S)
<1> DEFINE All(t) == UNION {T[x] : x \in t}
           Holds(t) == IsFiniteSet(All(t)) /\ Cardinality(All(t)) <= SumOver(f, t)
           Bad == {n \in Nat : \E t \in SUBSET S : Cardinality(t) = n /\ ~Holds(t)}
<1>1. Bad = {}
  <2>1. SUFFICES ASSUME Bad # {} PROVE FALSE
    OBVIOUS
  <2>2. PICK n \in Bad : \A m \in Bad : n <= m
    BY <2>1, LeastOf
  <2>3. PICK t \in SUBSET S : Cardinality(t) = n /\ ~Holds(t)
    BY <2>2
  <2>4. t # {}
    <3>1. All({}) = {}
      OBVIOUS
    <3>2. IsFiniteSet({}) /\ Cardinality({}) = 0
      BY FS_EmptySet
    <3>3. SumOver(f, {}) = 0
      BY SumEmpty
    <3>4. Holds({})
      BY <3>1, <3>2, <3>3
    <3> HIDE DEF Holds
    <3> QED
      BY <2>3, <3>4
  <2> DEFINE p == Pick(t)
             rest == t \ {p}
  <2>5. p \in t /\ rest \in SUBSET S /\ Cardinality(rest) = n - 1 /\ n \in Nat \ {0} /\ IsFiniteSet(t)
    BY <2>3, <2>4, PickSmaller
  <2>6. Holds(rest)
    <3> HIDE DEF Holds
    <3> QED
      BY <2>2, <2>5
  <2>7. SumOver(f, t) = f[p] + SumOver(f, rest)
    <3>1. \A x \in t : f[x] \in Nat
      OBVIOUS
    <3> QED
      BY <2>4, <2>5, <3>1, SumPicks
  <2>8. SumOver(f, rest) \in Nat
    BY <2>5, SumIsNat
  <2>9. All(t) = All(rest) \cup T[p]
    BY <2>5
  <2>10. /\ IsFiniteSet(T[p]) /\ Cardinality(T[p]) \in Nat /\ Cardinality(T[p]) <= f[p] /\ f[p] \in Nat
    BY <2>5, FS_CardinalityType
  <2> DEFINE A == All(rest)
             B == T[p]
  <2>11. IsFiniteSet(A) /\ IsFiniteSet(B) /\ Cardinality(A) \in Nat /\ Cardinality(A) <= SumOver(f, rest)
    BY <2>6, <2>10, FS_CardinalityType
  <2>12. Cardinality(A \cap B) \in Nat
    BY <2>11, FS_Intersection, FS_CardinalityType
  <2>13. IsFiniteSet(A \cup B) /\ Cardinality(A \cup B) = Cardinality(A) + Cardinality(B) - Cardinality(A \cap B)
    BY <2>11, FS_Union
  <2>14. Cardinality(A \cup B) <= SumOver(f, t)
    <3> HIDE DEF A, rest, p
    <3> QED
      BY <2>7, <2>8, <2>10, <2>11, <2>12, <2>13
  <2> QED
    BY <2>3, <2>9, <2>13, <2>14
<1>2. Cardinality(S) \in Nat
  BY FS_CardinalityType
<1> QED
  BY <1>1, <1>2

(* Sums over an interval move with it. *)
LEMMA SumShifts ==
  ASSUME NEW k \in Nat, NEW f, \A n \in 1..(k + 1) : f[n] \in Nat,
         NEW g, \A n \in 1..k : g[n] = f[n + 1]
  PROVE  SumOver(g, 1..k) = SumOver(f, 2..(k + 1))
<1> DEFINE Bad == {n \in Nat : n <= k /\ SumOver(g, 1..n) # SumOver(f, 2..(n + 1))}
<1>1. SUFFICES ASSUME Bad # {} PROVE FALSE
  BY DEF Bad
<1>2. PICK n \in Bad : \A m \in Bad : n <= m
  <2>1. Bad \in SUBSET Nat
    BY DEF Bad
  <2> HIDE DEF Bad
  <2> QED
    BY <1>1, <2>1, LeastOf
<1>3. n \in Nat /\ n <= k /\ SumOver(g, 1..n) # SumOver(f, 2..(n + 1))
  BY <1>2
<1>4. n # 0
  <2>1. 1..0 = {} /\ 2..1 = {}
    OBVIOUS
  <2>2. SumOver(g, {}) = 0 /\ SumOver(f, {}) = 0
    BY SumEmpty
  <2>3. SumOver(g, 1..0) = SumOver(f, 2..(0 + 1))
    BY <2>1, <2>2
  <2> QED
    BY <1>3, <2>3
<1>5. SumOver(g, 1..(n - 1)) = SumOver(f, 2..n)
  <2>1. n - 1 \in Nat /\ n - 1 <= k /\ (n - 1) + 1 = n
    BY <1>3, <1>4
  <2>2. n - 1 \notin Bad
    BY <1>2, <1>3, <2>1
  <2> QED
    BY <2>1, <2>2
<1> HIDE DEF Bad
<1>6. SumOver(g, 1..n) = g[n] + SumOver(g, 1..(n - 1))
  <2> DEFINE S == 1..n
             T == 1..(n - 1)
  <2>1. n \in S /\ S \ {n} = T
    BY <1>3, <1>4
  <2>2. IsFiniteSet(S)
    BY <1>3, FS_Interval
  <2>3. \A m \in S : g[m] \in Nat
    BY <1>3
  <2> HIDE DEF S, T
  <2>4. SumOver(g, S) = g[n] + SumOver(g, T)
    BY <2>1, <2>2, <2>3, SumSplits
  <2> QED
    BY <2>4 DEF S, T
<1>7. SumOver(f, 2..(n + 1)) = f[n + 1] + SumOver(f, 2..n)
  <2> DEFINE S == 2..(n + 1)
             T == 2..n
  <2>1. n + 1 \in S /\ S \ {n + 1} = T
    BY <1>3, <1>4
  <2>2. IsFiniteSet(S)
    BY <1>3, FS_Interval
  <2>3. \A m \in S : m \in 1..(k + 1)
    BY <1>3
  <2>4. \A m \in S : f[m] \in Nat
    BY <2>3
  <2> HIDE DEF S, T
  <2>5. SumOver(f, S) = f[n + 1] + SumOver(f, T)
    BY <2>1, <2>2, <2>4, SumSplits
  <2> QED
    BY <2>5 DEF S, T
<1>8. g[n] = f[n + 1]
  BY <1>3, <1>4
<1> QED
  BY <1>3, <1>5, <1>6, <1>7, <1>8

-----------------------------------------------------------------------------
(* Filtered lists *)

(* A finite set of positions has an n-th smallest member for every n up to its size. *)
LEMMA NthExists ==
  ASSUME NEW top \in Nat, NEW K \in SUBSET (1..top), NEW n \in 1..Cardinality(K)
  PROVE  Nth(K, n) \in K /\ Cardinality({j \in K : j <= Nth(K, n)}) = n
<1> DEFINE Upto(i) == {j \in K : j <= i}
           T == {i \in Nat : Cardinality(Upto(i)) >= n}
<1>0. \A k \in K : k \in Nat /\ k <= top /\ ~(k <= 0)
  OBVIOUS
<1>1. IsFiniteSet(K) /\ Cardinality(K) \in Nat
  <2>1. IsFiniteSet(1..top)
    BY FS_Interval
  <2> QED
    BY <2>1, FS_Subset, FS_CardinalityType
<1>2. \A i \in Nat : IsFiniteSet(Upto(i)) /\ Cardinality(Upto(i)) \in Nat
  <2>1. TAKE i \in Nat
  <2>2. Upto(i) \in SUBSET K
    OBVIOUS
  <2> HIDE DEF Upto
  <2> QED
    BY <1>1, <2>2, FS_Subset, FS_CardinalityType
<1>3. Upto(top) = K /\ Upto(0) = {}
  BY <1>0, Zenon
<1>4. \A i \in Nat : i + 1 \in K => Upto(i + 1) = Upto(i) \cup {i + 1} /\ i + 1 \notin Upto(i)
  <2> SUFFICES ASSUME NEW i \in Nat, i + 1 \in K
               PROVE  Upto(i + 1) = Upto(i) \cup {i + 1} /\ i + 1 \notin Upto(i)
    OBVIOUS
  <2>1. \A j \in K : j <= i + 1 <=> j <= i \/ j = i + 1
    BY <1>0
  <2>2. ~(i + 1 <= i)
    OBVIOUS
  <2> QED
    BY <2>1, <2>2, Zenon
<1>5. \A i \in Nat : i + 1 \notin K => Upto(i + 1) = Upto(i)
  <2> SUFFICES ASSUME NEW i \in Nat, i + 1 \notin K
               PROVE  Upto(i + 1) = Upto(i)
    OBVIOUS
  <2>1. \A j \in K : j <= i + 1 <=> j <= i
    BY <1>0
  <2> QED
    BY <2>1, Zenon
<1>6. \A i \in Nat : Cardinality(Upto(i + 1)) = Cardinality(Upto(i)) + (IF i + 1 \in K THEN 1 ELSE 0)
  <2> HIDE DEF Upto
  <2>1. TAKE i \in Nat
  <2>2. CASE i + 1 \in K
    BY <1>2, <1>4, <2>2, FS_AddElement
  <2>3. CASE i + 1 \notin K
    BY <1>2, <1>5, <2>3
  <2> QED
    BY <2>2, <2>3
<1>7. Cardinality(Upto(0)) = 0
  BY <1>3, FS_EmptySet
<1> HIDE DEF Upto
<1>8. PICK i \in T : \A m \in T : i <= m
  <2>1. T \in SUBSET Nat /\ top \in T
    BY <1>1, <1>3
  <2> HIDE DEF T
  <2> QED
    BY <2>1, LeastOf, Zenon
<1>9. PICK p \in Nat : i = p + 1
  <2>1. i \in Nat /\ i # 0
    BY <1>7, <1>8
  <2> QED
    BY <2>1
<1>10. Cardinality(Upto(p)) < n
  BY <1>1, <1>2, <1>8, <1>9
<1>11. i \in K /\ Cardinality(Upto(i)) = n
  BY <1>1, <1>2, <1>6, <1>8, <1>9, <1>10
<1> QED
  BY <1>11 DEF Nth, Upto

(* Filtering a sequence yields a sequence over the same set. *)
LEMMA WithoutIsSeq ==
  ASSUME NEW S, NEW s \in Seq(S), NEW D
  PROVE  /\ Without(s, D) \in Seq(S)
         /\ Range(Without(s, D)) \subseteq Range(s)
<1> DEFINE kept == {i \in DOMAIN s : s[i] \notin D}
<1>1. Len(s) \in Nat /\ DOMAIN s = 1..Len(s) /\ \A i \in 1..Len(s) : s[i] \in S
  BY LenProperties, ElementOfSeq
<1>2. kept \in SUBSET (1..Len(s))
  BY <1>1
<1>3. IsFiniteSet(kept) /\ Cardinality(kept) \in Nat
  <2>1. IsFiniteSet(1..Len(s))
    BY <1>1, FS_Interval
  <2> QED
    BY <1>2, <2>1, FS_Subset, FS_CardinalityType
<1> HIDE DEF kept
<1>4. \A n \in 1..Cardinality(kept) : Nth(kept, n) \in kept
  BY <1>1, <1>2, NthExists
<1>5. \A n \in 1..Cardinality(kept) : s[Nth(kept, n)] \in S
  BY <1>1, <1>2, <1>4
<1>6. \A n \in 1..Cardinality(kept) : s[Nth(kept, n)] \in Range(s)
  BY <1>1, <1>2, <1>4 DEF Range
<1>7. Without(s, D) = [n \in 1..Cardinality(kept) |-> s[Nth(kept, n)]]
  BY DEF Without, kept
<1> DEFINE w == Without(s, D)
<1>8. w \in Seq(S)
  BY <1>3, <1>5, <1>7
<1>9. \A x \in Range(w) : x \in Range(s)
  <2>1. DOMAIN w = 1..Cardinality(kept) /\ \A n \in 1..Cardinality(kept) : w[n] \in Range(s)
    BY <1>6, <1>7
  <2> HIDE DEF w
  <2>2. TAKE x \in Range(w)
  <2>3. PICK n \in DOMAIN w : x = w[n]
    BY DEF Range
  <2> QED
    BY <2>1, <2>3
<1> QED
  BY <1>8, <1>9

(* Every member of a set of positions is the n-th smallest for one n. *)
LEMMA NthReaches ==
  ASSUME NEW top \in Nat, NEW K \in SUBSET (1..top), NEW i \in K
  PROVE  \E n \in 1..Cardinality(K) : Nth(K, n) = i
<1> DEFINE Below(k) == {j \in K : j <= k}
           n == Cardinality(Below(i))
<1>1. IsFiniteSet(K) /\ Cardinality(K) \in Nat
  <2>1. IsFiniteSet(1..top)
    BY FS_Interval
  <2> QED
    BY <2>1, FS_Subset, FS_CardinalityType
<1>2. \A k \in K : Below(k) \in SUBSET K /\ k \in Below(k) /\ k \in Int
  OBVIOUS
<1>3. ASSUME NEW k \in K, NEW m \in K, k < m
      PROVE  Below(k) \in SUBSET Below(m) /\ m \notin Below(k)
  <2>1. k \in Int /\ m \in Int /\ \A j \in K : j \in Int
    OBVIOUS
  <2>2. ~(m <= k) /\ \A j \in K : j <= k => j <= m
    BY <1>3, <2>1
  <2> QED
    BY <2>2
<1> HIDE DEF Below
<1>4. \A k \in K : IsFiniteSet(Below(k)) /\ Cardinality(Below(k)) \in Nat /\ Cardinality(Below(k)) <= Cardinality(K)
  BY <1>1, <1>2, FS_Subset, FS_CardinalityType
<1>5. n # 0
  BY <1>2, <1>4, FS_EmptySet
<1>6. n \in 1..Cardinality(K)
  BY <1>1, <1>4, <1>5
<1>7. \A k \in K : \A m \in K : k < m => Cardinality(Below(k)) # Cardinality(Below(m))
  BY <1>2, <1>3, <1>4, FS_Subset
<1> HIDE DEF n
<1>8. Nth(K, n) \in K /\ Cardinality(Below(Nth(K, n))) = n
  BY <1>6, NthExists DEF Below
<1>9. Nth(K, n) = i
  <2> DEFINE k == Nth(K, n)
  <2>1. k \in K /\ Cardinality(Below(k)) = Cardinality(Below(i))
    BY <1>8 DEF n
  <2> HIDE DEF k
  <2>2. ~(k < i) /\ ~(i < k)
    BY <1>7, <2>1
  <2>3. k \in Int /\ i \in Int
    BY <1>2, <2>1
  <2>4. k = i
    BY <2>2, <2>3
  <2> QED
    BY <2>4 DEF k
<1> QED
  BY <1>6, <1>9

(* Filtering keeps exactly the elements outside D, and none twice that did *)
(* not occur twice.                                                        *)
LEMMA WithoutExact ==
  ASSUME NEW S, NEW s \in Seq(S), NEW D
  PROVE  /\ Without(s, D) \in Seq(S)
         /\ \A x : x \in Range(Without(s, D)) <=> x \in Range(s) /\ x \notin D
         /\ IsInjective(s) => IsInjective(Without(s, D))
<1> DEFINE kept == {i \in DOMAIN s : s[i] \notin D}
           w == Without(s, D)
<1>1. Len(s) \in Nat /\ DOMAIN s = 1..Len(s)
  BY LenProperties
<1>2. kept \in SUBSET (1..Len(s)) /\ \A i \in DOMAIN s : i \in kept <=> s[i] \notin D
  BY <1>1
<1>3. w \in Seq(S)
  BY WithoutIsSeq
<1>4. w = [n \in 1..Cardinality(kept) |-> s[Nth(kept, n)]]
  BY DEF Without
<1> HIDE DEF kept, w
<1>5. \A n \in 1..Cardinality(kept) :
        Nth(kept, n) \in kept /\ Cardinality({j \in kept : j <= Nth(kept, n)}) = n
  BY <1>1, <1>2, NthExists
<1>6. DOMAIN w = 1..Cardinality(kept) /\ \A n \in DOMAIN w : w[n] = s[Nth(kept, n)]
  BY <1>4
<1>7. ASSUME NEW x, x \in Range(w) PROVE x \in Range(s) /\ x \notin D
  <2>1. PICK n \in DOMAIN w : x = w[n]
    BY <1>7 DEF Range
  <2> QED
    BY <1>1, <1>2, <1>5, <1>6, <2>1 DEF Range
<1>8. ASSUME NEW x, x \in Range(s), x \notin D PROVE x \in Range(w)
  <2>1. PICK i \in DOMAIN s : x = s[i]
    BY <1>8 DEF Range
  <2>2. i \in kept
    BY <1>2, <1>8, <2>1
  <2>3. PICK n \in 1..Cardinality(kept) : Nth(kept, n) = i
    BY <1>1, <1>2, <2>2, NthReaches
  <2> QED
    BY <1>6, <2>1, <2>3 DEF Range
<1>9. IsInjective(s) => IsInjective(w)
  <2> SUFFICES ASSUME IsInjective(s), NEW a \in DOMAIN w, NEW b \in DOMAIN w, w[a] = w[b]
               PROVE  a = b
    BY DEF IsInjective
  <2>1. s[Nth(kept, a)] = s[Nth(kept, b)] /\ Nth(kept, a) \in DOMAIN s /\ Nth(kept, b) \in DOMAIN s
    BY <1>1, <1>2, <1>5, <1>6
  <2>2. Nth(kept, a) = Nth(kept, b)
    BY <2>1 DEF IsInjective
  <2> DEFINE below(k) == Cardinality({j \in kept : j <= k})
  <2>3. below(Nth(kept, a)) = a /\ below(Nth(kept, b)) = b
    BY <1>5, <1>6
  <2> HIDE DEF below
  <2> QED
    BY <2>2, <2>3
<1> QED
  BY <1>3, <1>7, <1>8, <1>9 DEF w

-----------------------------------------------------------------------------
(* The greatest and the least of a set of naturals *)

(* A bounded set of naturals has a greatest member. *)
LEMMA MaxExists ==
  ASSUME NEW top \in Nat, NEW S \in SUBSET (0..top), S # {}
  PROVE  Max(S) \in S /\ \A n \in S : n <= Max(S)
<1> DEFINE T == {top - n : n \in S}
<1>1. T \in SUBSET Nat /\ T # {}
  OBVIOUS
<1>2. PICK t \in T : \A u \in T : t <= u
  <2> HIDE DEF T
  <2> QED
    BY <1>1, LeastOf
<1>3. PICK m \in S : t = top - m
  BY <1>2
<1>4. ASSUME NEW n \in S PROVE n <= m
  <2>1. top - n \in T /\ n \in Int /\ m \in Int
    OBVIOUS
  <2>2. t <= top - n
    BY <1>2, <2>1
  <2> QED
    BY <1>3, <2>1, <2>2
<1> QED
  BY <1>4 DEF Max

(* So has a finite one: none is greater than their sum. *)
LEMMA MaxOfFinite ==
  ASSUME NEW S \in SUBSET Nat, IsFiniteSet(S), S # {}
  PROVE  Max(S) \in S /\ \A n \in S : n <= Max(S)
<1> DEFINE id == [n \in S |-> n]
<1>1. \A x \in S : id[x] = x /\ id[x] \in Nat
  OBVIOUS
<1> HIDE DEF id
<1>2. SumOver(id, S) \in Nat /\ \A x \in S : SumOver(id, S) = id[x] + SumOver(id, S \ {x})
  BY <1>1, SumSplits
<1>3. \A x \in S : SumOver(id, S \ {x}) \in Nat
  BY <1>1, SumIsNat
<1>4. ASSUME NEW x \in S PROVE x <= SumOver(id, S)
  <2> DEFINE rest == SumOver(id, S \ {x})
             all  == SumOver(id, S)
  <2>1. x \in Nat /\ rest \in Nat /\ all \in Nat /\ all = x + rest
    BY <1>1, <1>2, <1>3
  <2> HIDE DEF rest, all
  <2>2. x <= all
    BY <2>1
  <2> QED
    BY <2>2 DEF all
<1>5. S \in SUBSET (0..SumOver(id, S))
  BY <1>2, <1>4
<1> QED
  BY <1>2, <1>5, MaxExists

LEMMA MinExists ==
  ASSUME NEW S \in SUBSET Nat, S # {}
  PROVE  Min(S) \in S /\ \A n \in S : Min(S) <= n
<1>1. \E n \in S : \A m \in S : n <= m
  BY LeastOf
<1> QED
  BY <1>1 DEF Min

(* A list has no more members than entries. *)
LEMMA RangeBounds ==
  ASSUME NEW S, NEW s \in Seq(S)
  PROVE  /\ Range(s) \subseteq S /\ IsFiniteSet(Range(s))
         /\ Cardinality(Range(s)) \in Nat /\ Cardinality(Range(s)) <= Len(s)
<1>1. Len(s) \in Nat /\ s \in [1..Len(s) -> S] /\ DOMAIN s = 1..Len(s)
  BY LenProperties
<1>2. s \in Surjection(1..Len(s), Range(s))
  BY <1>1 DEF Surjection, Range
<1>3. IsFiniteSet(1..Len(s)) /\ Cardinality(1..Len(s)) = Len(s)
  BY <1>1, FS_Interval
<1>4. IsFiniteSet(Range(s)) /\ Cardinality(Range(s)) <= Len(s)
  BY <1>2, <1>3, FS_Surjection
<1>5. Range(s) \subseteq S
  BY <1>1 DEF Range
<1> QED
  BY <1>4, <1>5, FS_CardinalityType

-----------------------------------------------------------------------------
(* Lists of lists, end to end *)

(* The recursion that FlattenSeq unfolds to. *)
Flattens(s, n, f) == f = [i \in 1..n |-> IF i = 1 THEN s[i] ELSE f[i - 1] \o s[i]]

LEMMA FlattensExist ==
  ASSUME NEW s, NEW n \in Nat
  PROVE  \E f : Flattens(s, n, f)
<1> DEFINE Bad == {i \in Nat : ~\E f : Flattens(s, i, f)}
<1>1. SUFFICES ASSUME Bad # {} PROVE FALSE
  OBVIOUS
<1>2. PICK i \in Bad : \A j \in Bad : i <= j
  BY <1>1, LeastOf
<1>3. CASE i = 0
  <2> DEFINE f == [k \in 1..0 |-> s]
  <2>1. Flattens(s, 0, f)
    BY DEF Flattens
  <2> QED
    BY <1>2, <1>3, <2>1
<1>4. CASE i # 0
  <2>1. i - 1 \in Nat /\ i - 1 \notin Bad
    BY <1>2, <1>4
  <2>2. PICK f : Flattens(s, i - 1, f)
    BY <2>1
  <2> DEFINE Step(k) == IF k = 1 THEN s[k] ELSE f[k - 1] \o s[k]
             g == [k \in 1..i |-> IF k = 1 THEN s[k] ELSE f[k - 1] \o s[k]]
  <2>3. \A k \in 1..(i - 1) : g[k] = f[k]
    <3>1. f = [k \in 1..(i - 1) |-> Step(k)]
      BY <2>2 DEF Flattens
    <3>2. \A k \in 1..(i - 1) : k \in 1..i
      BY <2>1
    <3> HIDE DEF Step
    <3>3. \A k \in 1..(i - 1) : f[k] = Step(k)
      BY <3>1
    <3>4. \A k \in 1..i : g[k] = Step(k)
      BY DEF Step
    <3> QED
      BY <3>2, <3>3, <3>4
  <2>4. \A k \in 1..i : k # 1 => g[k - 1] = f[k - 1]
    <3>1. \A k \in 1..i : k # 1 => k - 1 \in 1..(i - 1)
      BY <2>1
    <3> HIDE DEF g
    <3> QED
      BY <2>3, <3>1
  <2>5. Flattens(s, i, g)
    BY <2>4 DEF Flattens
  <2> QED
    BY <1>2, <2>5
<1> QED
  BY <1>3, <1>4

LEMMA FlattenUnfolds ==
  ASSUME NEW S, NEW s \in Seq(Seq(S)), s # <<>>
  PROVE  \E f : /\ FlattenSeq(s) = f[Len(s)]
                /\ \A i \in 1..Len(s) : f[i] = IF i = 1 THEN s[i] ELSE f[i - 1] \o s[i]
<1>1. Len(s) \in Nat /\ Len(s) # 0
  BY EmptySeq, LenProperties
<1> DEFINE f == CHOOSE f : Flattens(s, Len(s), f)
<1>2. FlattenSeq(s) = f[Len(s)]
  BY <1>1 DEF FlattenSeq, Flattens
<1>3. \E g : Flattens(s, Len(s), g)
  BY <1>1, FlattensExist
<1>4. Flattens(s, Len(s), f)
  BY <1>3
<1> HIDE DEF f
<1>5. \A i \in 1..Len(s) : f[i] = IF i = 1 THEN s[i] ELSE f[i - 1] \o s[i]
  BY <1>4 DEF Flattens
<1> QED
  BY <1>2, <1>5

LEMMA FlattenNothing == FlattenSeq(<<>>) = <<>>
  BY DEF FlattenSeq

(* One list more is one list more at the end. *)
LEMMA FlattenAppend ==
  ASSUME NEW S, NEW s \in Seq(Seq(S)), NEW x \in Seq(S)
  PROVE  /\ FlattenSeq(s) \in Seq(S)
         /\ FlattenSeq(Append(s, x)) = FlattenSeq(s) \o x
<1> DEFINE t == Append(s, x)
           n == Len(s)
<1>1. /\ n \in Nat /\ t \in Seq(Seq(S)) /\ Len(t) = n + 1 /\ t # <<>>
      /\ \A i \in 1..n : t[i] = s[i] /\ s[i] \in Seq(S)
      /\ t[n + 1] = x
  BY AppendProperties, LenProperties, ElementOfSeq
<1> HIDE DEF t, n
<1>2. PICK g : /\ FlattenSeq(t) = g[n + 1]
               /\ \A i \in 1..(n + 1) : g[i] = IF i = 1 THEN t[i] ELSE g[i - 1] \o t[i]
  <2>1. \E g : /\ FlattenSeq(t) = g[Len(t)]
              /\ \A i \in 1..Len(t) : g[i] = IF i = 1 THEN t[i] ELSE g[i - 1] \o t[i]
    BY <1>1, FlattenUnfolds
  <2> QED
    BY <1>1, <2>1
<1>3. CASE s = <<>>
  <2>1. n = 0 /\ g[1] = x /\ FlattenSeq(s) = <<>>
    BY <1>1, <1>2, <1>3, FlattenNothing DEF n
  <2> QED
    BY <1>2, <2>1 DEF t
<1>4. CASE s # <<>>
  <2>1. PICK f : /\ FlattenSeq(s) = f[n]
                 /\ \A i \in 1..n : f[i] = IF i = 1 THEN s[i] ELSE f[i - 1] \o s[i]
    BY <1>4, FlattenUnfolds DEF n
  <2>2. n # 0
    BY <1>4, EmptySeq DEF n
  <2> DEFINE Bad == {i \in 1..n : ~(f[i] \in Seq(S) /\ g[i] = f[i])}
  <2>3. Bad = {}
    <3>1. SUFFICES ASSUME Bad # {} PROVE FALSE
      OBVIOUS
    <3>2. Bad \in SUBSET Nat
      OBVIOUS
    <3>3. PICK i \in Bad : \A j \in Bad : i <= j
      <4> HIDE DEF Bad
      <4> QED
        BY <3>1, <3>2, LeastOf
    <3>4. i \in 1..n /\ i \in 1..(n + 1) /\ t[i] = s[i] /\ s[i] \in Seq(S)
      BY <1>1
    <3>5. CASE i = 1
      BY <1>2, <2>1, <3>4, <3>5
    <3>6. CASE i # 1
      <4>1. i - 1 \in 1..n /\ i - 1 \notin Bad
        BY <1>1, <3>3, <3>4, <3>6
      <4>2. f[i - 1] \in Seq(S) /\ g[i - 1] = f[i - 1]
        BY <4>1
      <4>3. f[i] = f[i - 1] \o s[i] /\ g[i] = f[i - 1] \o s[i]
        BY <1>2, <2>1, <3>4, <3>6, <4>2
      <4>4. f[i] \in Seq(S) /\ g[i] = f[i]
        BY <3>4, <4>2, <4>3, ConcatProperties
      <4> QED
        BY <3>4, <4>4
    <3> QED
      BY <3>5, <3>6
  <2>4. n \in 1..n /\ n + 1 \in 1..(n + 1) /\ n + 1 # 1 /\ n + 1 - 1 = n
    BY <1>1, <2>2
  <2>5. f[n] \in Seq(S) /\ g[n] = f[n]
    BY <2>3, <2>4
  <2>6. g[n + 1] = f[n] \o x
    <3> DEFINE p == n + 1
    <3>1. g[p] = g[p - 1] \o t[p]
      <4>1. p \in 1..(n + 1) /\ p # 1
        BY <2>4
      <4> HIDE DEF p
      <4> QED
        BY <1>2, <4>1
    <3>2. p - 1 = n /\ t[p] = x
      BY <1>1
    <3> HIDE DEF p
    <3>3. g[p] = f[n] \o x
      BY <2>5, <3>1, <3>2
    <3> QED
      BY <3>3 DEF p
  <2> QED
    BY <1>2, <2>1, <2>5, <2>6 DEF t
<1> QED
  BY <1>3, <1>4

LEMMA FlattenOne ==
  ASSUME NEW S, NEW x \in Seq(S)
  PROVE  FlattenSeq(<<x>>) = x
<1>1. <<>> \in Seq(Seq(S)) /\ Append(<<>>, x) = <<x>>
  OBVIOUS
<1>2. FlattenSeq(<<x>>) = <<>> \o x
  BY <1>1, FlattenAppend, FlattenNothing
<1> QED
  BY <1>2

(* Three lists end to end. *)
Rebracket(x, y, z) == (x \o y) \o z = x \o (y \o z)

LEMMA Rebracketed ==
  ASSUME NEW S, NEW x \in Seq(S), NEW y \in Seq(S), NEW z \in Seq(S)
  PROVE  Rebracket(x, y, z)
<1>1. (x \o y) \o z = x \o (y \o z)
  BY ConcatAssociative
<1> QED
  BY <1>1 DEF Rebracket

(* Two lists of lists end to end. *)
LEMMA FlattenJoins ==
  ASSUME NEW S, NEW s \in Seq(Seq(S)), NEW t \in Seq(Seq(S))
  PROVE  FlattenSeq(s \o t) = FlattenSeq(s) \o FlattenSeq(t)
<1> DEFINE Upto(k) == SubSeq(t, 1, k)
           Bad == {k \in 0..Len(t) : FlattenSeq(s \o Upto(k)) # FlattenSeq(s) \o FlattenSeq(Upto(k))}
<1>1. Len(t) \in Nat /\ Bad \in SUBSET Nat
  BY LenProperties
<1>2. ASSUME NEW k \in Bad, \A j \in Bad : k <= j PROVE FALSE
  <2>1. CASE k = 0
    <3>1. Upto(0) = <<>> /\ s \o <<>> = s
      OBVIOUS
    <3>2. FlattenSeq(s) \in Seq(S)
      <4>1. <<>> \in Seq(S)
        OBVIOUS
      <4> QED
        BY <4>1, FlattenAppend
    <3>3. FlattenSeq(s) \o <<>> = FlattenSeq(s)
      BY <3>2
    <3> QED
      BY <2>1, <3>1, <3>3, FlattenNothing
  <2>2. CASE k # 0
    <3>1. k - 1 \in 0..Len(t) /\ k \in 1..Len(t) /\ k - 1 \notin Bad
      <4>1. k \in 0..Len(t)
        OBVIOUS
      <4>2. k - 1 \in 0..Len(t) /\ k \in 1..Len(t) /\ ~(k <= k - 1)
        BY <1>1, <2>2, <4>1
      <4> HIDE DEF Bad
      <4> QED
        BY <1>2, <4>2
    <3> DEFINE a == Upto(k - 1)
               x == t[k]
               fs == FlattenSeq(s)
               fa == FlattenSeq(a)
    <3>2. a \in Seq(Seq(S)) /\ x \in Seq(S) /\ Upto(k) = Append(a, x)
      BY <3>1, SMTT(20)
    <3>3. s \o a \in Seq(Seq(S)) /\ s \o Append(a, x) = Append(s \o a, x)
      BY <3>2, SMTT(20)
    <3>4. fs \in Seq(S) /\ fa \in Seq(S)
      BY <3>2, FlattenAppend
    <3>5. FlattenSeq(s \o a) = fs \o fa
      BY <3>1
    <3> HIDE DEF a, x
    <3>6. /\ FlattenSeq(Append(s \o a, x)) = FlattenSeq(s \o a) \o x
          /\ FlattenSeq(Append(a, x)) = fa \o x
      BY <3>2, <3>3, FlattenAppend
    <3> HIDE DEF fs, fa
    <3>7. (fs \o fa) \o x = fs \o (fa \o x)
      <4>1. Rebracket(fs, fa, x)
        BY <3>2, <3>4, Rebracketed
      <4> QED
        BY <4>1 DEF Rebracket
    <3>8. FlattenSeq(s \o Upto(k)) = fs \o FlattenSeq(Upto(k))
      BY <3>2, <3>3, <3>5, <3>6, <3>7
    <3> QED
      BY <3>8 DEF fs
  <2> QED
    BY <2>1, <2>2
<1> HIDE DEF Bad
<1>3. Bad = {}
  BY <1>1, <1>2, LeastOf
<1>4. Len(t) \in 0..Len(t) /\ Upto(Len(t)) = t
  BY <1>1
<1> QED
  BY <1>3, <1>4 DEF Bad

-----------------------------------------------------------------------------
(* Division, by the one fact about it that the provers need *)

LEMMA DivMod ==
  ASSUME NEW n \in Nat, NEW d \in Nat \ {0}
  PROVE  /\ n \div d \in Nat /\ n % d \in 0..(d - 1)
         /\ n = d * (n \div d) + (n % d)
  OBVIOUS

LEMMA TimesUp ==
  ASSUME NEW d \in Nat \ {0}, NEW a \in Nat, NEW b \in Nat, a < b
  PROVE  d * a + d <= d * b
<1>1. b - (a + 1) \in Nat
  OBVIOUS
<1>2. d * (b - (a + 1)) \in Nat
  BY <1>1
<1>3. d * b = d * (a + 1) + d * (b - (a + 1))
  BY <1>1
<1>4. d * (a + 1) = d * a + d
  OBVIOUS
<1> QED
  BY <1>2, <1>3, <1>4

(* There is only one way to divide with a remainder. *)
LEMMA DivUnique ==
  ASSUME NEW d \in Nat \ {0}, NEW q \in Nat, NEW x \in 0..(d - 1)
  PROVE  /\ d * q + x \in Nat
         /\ (d * q + x) \div d = q /\ (d * q + x) % d = x
<1> DEFINE n == d * q + x
           a == n \div d
           y == n % d
<1>1. n \in Nat /\ n = d * q + x /\ d * q \in Nat
  OBVIOUS
<1> HIDE DEF n
<1>2. a \in Nat /\ y \in 0..(d - 1) /\ n = d * a + y
  BY <1>1, DivMod
<1> HIDE DEF a, y
<1>3. d * a \in Nat
  BY <1>2
<1>4. ~(a < q)
  <2>1. a < q => d * a + d <= d * q
    BY <1>2, TimesUp
  <2> QED
    BY <1>1, <1>2, <1>3, <2>1
<1>5. ~(q < a)
  <2>1. q < a => d * q + d <= d * a
    BY <1>2, TimesUp
  <2> QED
    BY <1>1, <1>2, <1>3, <2>1
<1>6. a = q
  BY <1>2, <1>4, <1>5
<1>7. y = x
  BY <1>1, <1>2, <1>3, <1>6
<1> QED
  BY <1>1, <1>6, <1>7 DEF n, a, y

-----------------------------------------------------------------------------
(* Two lists end to end *)

(* Two lists end to end, by their lengths. *)
LEMMA EndToEnd ==
  ASSUME NEW S, NEW s \in Seq(S), NEW t \in Seq(S), NEW m, NEW n, Len(s) = m, Len(t) = n
  PROVE  /\ s \o t \in Seq(S) /\ Len(s \o t) = m + n /\ m \in Nat /\ n \in Nat
         /\ \A i \in 1..(m + n) : (s \o t)[i] = IF i <= m THEN s[i] ELSE t[i - m]
  BY ConcatProperties, LenProperties

(* A list cut in two. *)
LEMMA TwoHalves ==
  ASSUME NEW S, NEW s \in Seq(S), NEW n \in 0..Len(s)
  PROVE  /\ SubSeq(s, 1, n) \in Seq(S) /\ Len(SubSeq(s, 1, n)) = n
         /\ SubSeq(s, n + 1, Len(s)) \in Seq(S) /\ Len(SubSeq(s, n + 1, Len(s))) = Len(s) - n
         /\ SubSeq(s, 1, n) \o SubSeq(s, n + 1, Len(s)) = s
<1> DEFINE l == Len(s)
<1>1. l \in Nat /\ n \in Nat /\ n <= l /\ \A i \in 1..l : s[i] \in S
  BY LenProperties, ElementOfSeq
<1>2. SubSeq(s, 1, l) = s
  BY SubSeqFull
<1>3. SubSeq(s, 1, n) \o SubSeq(s, n + 1, l) = SubSeq(s, 1, l)
  <2>1. 1 \in 1..(Len(s) + 1) /\ n \in (1 - 1)..Len(s) /\ l \in n..Len(s)
    BY <1>1
  <2> HIDE DEF l
  <2> QED
    BY <2>1, ConcatAdjacentSubSeq
<1> HIDE DEF l
<1>4. SubSeq(s, 1, n) \in Seq(S) /\ Len(SubSeq(s, 1, n)) = n
  <2>1. \A i \in 1..n : s[i] \in S
    BY <1>1
  <2>2. SubSeq(s, 1, n) \in Seq(S) /\ Len(SubSeq(s, 1, n)) = IF 1 <= n THEN n - 1 + 1 ELSE 0
    BY <1>1, <2>1, SubSeqProperties
  <2> QED
    BY <1>1, <2>2
<1>5. SubSeq(s, n + 1, l) \in Seq(S) /\ Len(SubSeq(s, n + 1, l)) = l - n
  <2> DEFINE m == n + 1
  <2>1. m \in Int /\ \A i \in m..l : s[i] \in S
    BY <1>1
  <2> HIDE DEF m
  <2>2. SubSeq(s, m, l) \in Seq(S) /\ Len(SubSeq(s, m, l)) = IF m <= l THEN l - m + 1 ELSE 0
    BY <1>1, <2>1, SubSeqProperties
  <2> QED
    BY <1>1, <2>2 DEF m
<1> QED
  BY <1>2, <1>3, <1>4, <1>5 DEF l

(* Whether a list names nothing twice, by its halves. *)
LEMMA JoinApart ==
  ASSUME NEW S, NEW s \in Seq(S), NEW t \in Seq(S)
  PROVE  /\ Range(s \o t) = Range(s) \cup Range(t)
         /\ IsInjective(s \o t) <=>
              IsInjective(s) /\ IsInjective(t) /\ Range(s) \cap Range(t) = {}
<1> DEFINE a == s \o t
           m == Len(s)
           n == Len(t)
<1>1. /\ a \in Seq(S) /\ Len(a) = m + n /\ m \in Nat /\ n \in Nat
      /\ \A i \in 1..(m + n) : a[i] = IF i <= m THEN s[i] ELSE t[i - m]
  BY EndToEnd
<1>2. DOMAIN a = 1..(m + n) /\ DOMAIN s = 1..m /\ DOMAIN t = 1..n
  BY <1>1, LenProperties
<1> HIDE DEF a, m, n
<1>3. \A i \in 1..m : i \in 1..(m + n) /\ a[i] = s[i]
  BY <1>1
<1>4. \A i \in 1..n : m + i \in 1..(m + n) /\ m + i \notin 1..m /\ a[m + i] = t[i]
  <2> SUFFICES ASSUME NEW i \in 1..n
               PROVE  m + i \in 1..(m + n) /\ m + i \notin 1..m /\ a[m + i] = t[i]
    OBVIOUS
  <2> DEFINE k == m + i
  <2>1. k \in 1..(m + n) /\ ~(k <= m) /\ k - m = i
    BY <1>1
  <2> HIDE DEF k
  <2>2. k \notin 1..m /\ a[k] = t[i]
    BY <1>1, <2>1
  <2> QED
    BY <2>1, <2>2 DEF k
<1>5. \A k \in 1..(m + n) : k \in 1..m \/ \E i \in 1..n : k = m + i
  <2> SUFFICES ASSUME NEW k \in 1..(m + n), k \notin 1..m PROVE \E i \in 1..n : k = m + i
    OBVIOUS
  <2>1. k - m \in 1..n /\ k = m + (k - m)
    BY <1>1
  <2> QED
    BY <2>1
<1>6. Range(a) = Range(s) \cup Range(t)
  <2>1. \A x : x \in Range(a) <=> x \in Range(s) \/ x \in Range(t)
    BY <1>2, <1>3, <1>4, <1>5 DEF Range
  <2> QED
    BY <2>1
<1>7. ASSUME IsInjective(a) PROVE IsInjective(s) /\ IsInjective(t) /\ Range(s) \cap Range(t) = {}
  <2>1. \A i, j \in 1..(m + n) : a[i] = a[j] => i = j
    BY <1>2, <1>7 DEF IsInjective
  <2>2. IsInjective(s)
    BY <1>2, <1>3, <2>1 DEF IsInjective
  <2>3. \A i, j \in 1..n : m + i = m + j => i = j
    BY <1>1
  <2>4. IsInjective(t)
    BY <1>2, <1>4, <2>1, <2>3 DEF IsInjective
  <2>5. \A i \in 1..m, j \in 1..n : s[i] # t[j]
    BY <1>3, <1>4, <2>1
  <2> QED
    BY <1>2, <2>2, <2>4, <2>5 DEF Range
<1>8. ASSUME IsInjective(s), IsInjective(t), Range(s) \cap Range(t) = {} PROVE IsInjective(a)
  <2>1. \A i \in 1..m, j \in 1..n : s[i] # t[j]
    BY <1>2, <1>8 DEF Range
  <2>2. \A i, j \in 1..m : s[i] = s[j] => i = j
    BY <1>2, <1>8 DEF IsInjective
  <2>3. \A i, j \in 1..n : t[i] = t[j] => i = j
    BY <1>2, <1>8 DEF IsInjective
  <2>4. ASSUME NEW i \in 1..(m + n), NEW j \in 1..(m + n), a[i] = a[j] PROVE i = j
    BY <1>3, <1>4, <1>5, <2>1, <2>2, <2>3, <2>4
  <2> QED
    BY <1>2, <2>4 DEF IsInjective
<1> QED
  BY <1>6, <1>7, <1>8 DEF a

LEMMA FrontAndLast ==
  ASSUME NEW S, NEW s \in Seq(S), Len(s) > 0
  PROVE  /\ Front(s) \in Seq(S) /\ Len(Front(s)) = Len(s) - 1 /\ Last(s) \in S
         /\ s = Front(s) \o <<Last(s)>> /\ <<Last(s)>> \in Seq(S) /\ Range(<<Last(s)>>) = {Last(s)}
<1> DEFINE l == Len(s)
           n == l - 1
           t == SubSeq(s, n + 1, l)
<1>1. l \in Nat /\ n \in 0..l /\ n + 1 = l /\ l \in 1..l /\ l - n = 1 /\ DOMAIN s = 1..l
  BY LenProperties
<1> HIDE DEF n
<1>2. /\ SubSeq(s, 1, n) \in Seq(S) /\ Len(SubSeq(s, 1, n)) = n
      /\ t \in Seq(S) /\ Len(t) = 1 /\ SubSeq(s, 1, n) \o t = s
  BY <1>1, TwoHalves
<1>3. t[1] = s[l]
  BY <1>1
<1>4. t = <<Last(s)>>
  <2> HIDE DEF t
  <2>1. DOMAIN t = 1..1 /\ t \in [1..1 -> S]
    BY <1>2, LenProperties
  <2> QED
    BY <1>3, <2>1 DEF Last
<1>5. Last(s) \in S
  BY <1>1, ElementOfSeq DEF Last
<1>6. Range(<<Last(s)>>) = {Last(s)}
  BY DEF Range
<1> HIDE DEF t
<1> QED
  BY <1>1, <1>2, <1>4, <1>5, <1>6 DEF Front, n

(* A function on the first n numbers is a list of n. *)
LEMMA ListIs ==
  ASSUME NEW S, NEW n \in Nat, NEW f, f = [k \in 1..n |-> f[k]], \A k \in 1..n : f[k] \in S
  PROVE  f \in Seq(S) /\ Len(f) = n /\ DOMAIN f = 1..n
<1>1. f \in [1..n -> S]
  BY ONLY f = [k \in 1..n |-> f[k]], \A k \in 1..n : f[k] \in S
<1>2. f \in Seq(S)
  BY <1>1
<1>3. DOMAIN f = 1..n
  BY <1>1
<1>4. Len(f) \in Nat /\ DOMAIN f = 1..Len(f)
  BY <1>2, LenProperties
<1> QED
  BY ONLY n \in Nat, <1>2, <1>3, <1>4

-----------------------------------------------------------------------------
(* Lists packed end to end *)

Ascends(at, n) ==
  /\ at \in [1..(n + 1) -> Nat] /\ at[1] = 0
  /\ \A i \in 1..n : at[i] <= at[i + 1]

LEMMA OffsetsClimb ==
  ASSUME NEW n \in Nat, NEW at, Ascends(at, n), NEW i \in 1..(n + 1), NEW j \in 1..(n + 1), i <= j
  PROVE  at[i] <= at[j]
<1>1. at \in [1..(n + 1) -> Nat] /\ \A k \in 1..n : at[k] <= at[k + 1]
  BY DEF Ascends
<1> DEFINE Bad == {k \in 1..(n + 1) : i <= k /\ ~(at[i] <= at[k])}
<1>2. SUFFICES ASSUME Bad # {} PROVE FALSE
  OBVIOUS
<1>3. PICK k \in Bad : \A l \in Bad : k <= l
  <2>1. Bad \in SUBSET Nat
    OBVIOUS
  <2> HIDE DEF Bad
  <2> QED
    BY <1>2, <2>1, LeastOf
<1>4. k # i /\ k \in 1..(n + 1) /\ i <= k
  BY <1>1
<1>5. k - 1 \in 1..n /\ i <= k - 1 /\ k - 1 \in 1..(n + 1) /\ (k - 1) + 1 = k
  BY <1>4
<1>6. at[i] <= at[k - 1]
  BY <1>3, <1>5
<1>7. at[k - 1] <= at[k] /\ at[i] \in Nat /\ at[k - 1] \in Nat /\ at[k] \in Nat
  BY <1>1, <1>4, <1>5
<1>8. at[i] <= at[k]
  BY <1>6, <1>7
<1> QED
  BY <1>8

(* Every place is in one of the lists. *)
LEMMA OffsetsRow ==
  ASSUME NEW n \in Nat, NEW at, Ascends(at, n), NEW k \in Nat, k < at[n + 1]
  PROVE  \E i \in 1..n :
           /\ at[i] <= k /\ k < at[i + 1]
           /\ \A j \in 1..n : at[j] <= k /\ k < at[j + 1] => j = i
<1>1. at \in [1..(n + 1) -> Nat] /\ at[1] = 0
  BY DEF Ascends
<1> DEFINE Past == {i \in 1..(n + 1) : k < at[i]}
<1>2. Past \in SUBSET Nat /\ Past # {}
  <2>1. n + 1 \in Past
    OBVIOUS
  <2> QED
    BY <2>1
<1>3. PICK l \in Past : \A j \in Past : l <= j
  <2> HIDE DEF Past
  <2> QED
    BY <1>2, LeastOf
<1>4. l \in 1..(n + 1) /\ l # 1 /\ k < at[l]
  BY <1>1
<1>5. PICK i \in 1..n : l = i + 1 /\ i \in 1..(n + 1)
  BY <1>4
<1>6. at[i] <= k
  <2>1. i \notin Past
    BY <1>3, <1>5
  <2> QED
    BY <1>1, <1>5, <2>1
<1>7. ASSUME NEW j \in 1..n, at[j] <= k, k < at[j + 1] PROVE j = i
  <2>1. j \in 1..(n + 1) /\ j + 1 \in 1..(n + 1) /\ i + 1 \in 1..(n + 1)
    OBVIOUS
  <2>2. at[i] \in Nat /\ at[j] \in Nat /\ at[i + 1] \in Nat /\ at[j + 1] \in Nat
    BY <1>1, <1>5, <2>1
  <2>3. j + 1 <= i => at[j + 1] <= at[i]
    BY <1>5, <2>1, OffsetsClimb
  <2>4. i + 1 <= j => at[i + 1] <= at[j]
    BY <2>1, OffsetsClimb
  <2> DEFINE u == at[i]
             v == at[i + 1]
             x == at[j]
             y == at[j + 1]
  <2>5. u \in Nat /\ v \in Nat /\ x \in Nat /\ y \in Nat /\ k < v /\ u <= k /\ x <= k /\ k < y
    BY <1>4, <1>5, <1>6, <1>7, <2>2
  <2> HIDE DEF u, v, x, y
  <2> QED
    BY <2>3, <2>4, <2>5 DEF u, v, x, y
<1> QED
  BY <1>4, <1>5, <1>6, <1>7

Packs(lengths, at, n) ==
  /\ n \in Nat /\ Ascends(at, n)
  /\ \A i \in 1..n : lengths[i] \in Nat /\ at[i + 1] = at[i] + lengths[i]

LEMMA PackedRow ==
  ASSUME NEW n, NEW lengths, NEW at, Packs(lengths, at, n), NEW i \in 1..n, NEW x \in 1..lengths[i]
  PROVE  /\ at[i] + x \in 1..at[n + 1] /\ at[i] \in Nat
         /\ (CHOOSE j \in 1..n : at[j] < at[i] + x /\ at[i] + x <= at[j + 1]) = i
<1>0. /\ n \in Nat /\ Ascends(at, n)
      /\ \A j \in 1..n : lengths[j] \in Nat /\ at[j + 1] = at[j] + lengths[j]
  BY DEF Packs
<1>1. at \in [1..(n + 1) -> Nat] /\ i \in 1..(n + 1) /\ i + 1 \in 1..(n + 1) /\ n + 1 \in 1..(n + 1) /\ i + 1 <= n + 1
  BY <1>0 DEF Ascends
<1>2. at[i + 1] <= at[n + 1] /\ at[i] \in Nat /\ at[i + 1] \in Nat /\ at[n + 1] \in Nat
  BY <1>0, <1>1, OffsetsClimb
<1>3. at[i + 1] = at[i] + lengths[i] /\ lengths[i] \in Nat /\ x \in Nat \ {0} /\ x <= lengths[i]
  BY <1>0
<1> DEFINE k == at[i] + x
<1>4. k \in 1..at[n + 1] /\ at[i] < k /\ k <= at[i + 1] /\ k - 1 \in Nat /\ k - 1 < at[n + 1] /\ k \in Nat
  BY <1>2, <1>3
<1> HIDE DEF k
<1>5. PICK l \in 1..n : \A j \in 1..n : at[j] <= k - 1 /\ k - 1 < at[j + 1] => j = l
  BY <1>0, <1>4, OffsetsRow
<1>6. ASSUME NEW j \in 1..n, at[j] < k, k <= at[j + 1] PROVE j = l
  <2>1. at[j] \in Nat /\ at[j + 1] \in Nat
    BY <1>0, <1>1
  <2> DEFINE u == at[j]
             v == at[j + 1]
  <2> HIDE DEF u, v
  <2>2. u <= k - 1 /\ k - 1 < v
    BY <1>4, <1>6, <2>1 DEF u, v
  <2> QED
    BY <1>5, <2>2 DEF u, v
<1>7. i = l
  BY <1>4, <1>6
<1>8. (CHOOSE j \in 1..n : at[j] < k /\ k <= at[j + 1]) = i
  BY <1>4, <1>6, <1>7
<1> QED
  BY <1>2, <1>4, <1>8 DEF k

LEMMA PackedPlace ==
  ASSUME NEW n, NEW lengths, NEW at, Packs(lengths, at, n), NEW k \in 1..at[n + 1]
  PROVE  \E i \in 1..n : \E x \in 1..lengths[i] : k = at[i] + x
<1>0. /\ n \in Nat /\ Ascends(at, n)
      /\ \A j \in 1..n : lengths[j] \in Nat /\ at[j + 1] = at[j] + lengths[j]
  BY DEF Packs
<1>1. at \in [1..(n + 1) -> Nat] /\ n + 1 \in 1..(n + 1)
  BY <1>0 DEF Ascends
<1>2. at[n + 1] \in Nat /\ k - 1 \in Nat /\ k - 1 < at[n + 1] /\ k \in Nat
  BY <1>1
<1>3. PICK i \in 1..n : at[i] <= k - 1 /\ k - 1 < at[i + 1]
  BY <1>0, <1>2, OffsetsRow
<1>4. i \in 1..(n + 1) /\ at[i] \in Nat /\ at[i + 1] = at[i] + lengths[i] /\ lengths[i] \in Nat
  BY <1>0, <1>1
<1>5. k - at[i] \in 1..lengths[i] /\ k = at[i] + (k - at[i])
  BY <1>2, <1>3, <1>4
<1> QED
  BY <1>5

Slice(s, a, l) == SubSeq(s, a + 1, a + l) = [x \in 1..l |-> s[a + x]]

LEMMA SliceIs ==
  ASSUME NEW S, NEW s \in Seq(S), NEW a \in Nat, NEW l \in Nat, a + l <= Len(s)
  PROVE  Slice(s, a, l)
<1>1. Len(s) \in Nat
  BY LenProperties
<1>2. SubSeq(s, a + 1, a + l) = [x \in 1..((a + l) - (a + 1) + 1) |-> s[(a + 1) + x - 1]]
  BY <1>1
<1>3. (a + l) - (a + 1) + 1 = l
  OBVIOUS
<1>4. \A x \in 1..l : (a + 1) + x - 1 = a + x
  OBVIOUS
<1> QED
  BY <1>2, <1>3, <1>4 DEF Slice

(* Two lists of offsets with the same steps are the same.                  *)
Climbs(at, steps, n) == at[1] = 0 /\ \A i \in 1..n : at[i + 1] = at[i] + steps[i]

LEMMA OffsetsAgree ==
  ASSUME NEW n \in Nat, NEW a, NEW b, NEW steps, Climbs(a, steps, n), Climbs(b, steps, n)
  PROVE  \A i \in 1..(n + 1) : a[i] = b[i]
<1> DEFINE Bad == {i \in 1..(n + 1) : a[i] # b[i]}
<1>1. SUFFICES ASSUME Bad # {} PROVE FALSE
  OBVIOUS
<1>2. PICK i \in Bad : \A j \in Bad : i <= j
  <2>1. Bad \in SUBSET Nat
    OBVIOUS
  <2> HIDE DEF Bad
  <2> QED
    BY <1>1, <2>1, LeastOf
<1>3. i \in 1..(n + 1) /\ a[i] # b[i] /\ i # 1
  BY DEF Climbs
<1>4. PICK j \in 1..n : i = j + 1
  <2>1. i - 1 \in 1..n /\ i = (i - 1) + 1
    BY <1>3
  <2> QED
    BY <2>1
<1>5. j \in 1..(n + 1) /\ ~(i <= j)
  BY <1>4
<1>6. a[j] = b[j]
  BY <1>2, <1>5
<1> QED
  BY <1>3, <1>4, <1>6 DEF Climbs

LEMMA FlattenSlice ==
  ASSUME NEW S, NEW s \in Seq(Seq(S)), NEW lengths, NEW at, Packs(lengths, at, Len(s)),
         \A i \in 1..Len(s) : lengths[i] = Len(s[i]), NEW n \in 1..Len(s)
  PROVE  SubSeq(FlattenSeq(s), at[n] + 1, at[n + 1]) = s[n]
<1> DEFINE N == Len(s)
           Flat(k) == FlattenSeq(SubSeq(s, 1, k))
<1>1. N \in Nat /\ DOMAIN s = 1..N /\ \A i \in 1..N : s[i] \in Seq(S)
  BY LenProperties, ElementOfSeq
<1>2. /\ at \in [1..(N + 1) -> Nat] /\ at[1] = 0
      /\ \A i \in 1..N : lengths[i] \in Nat /\ at[i + 1] = at[i] + lengths[i] /\ lengths[i] = Len(s[i])
  BY DEF Packs, Ascends
<1> HIDE DEF N
<1>3. ASSUME NEW k \in 1..N
      PROVE  /\ SubSeq(s, 1, k - 1) \in Seq(Seq(S)) /\ SubSeq(s, 1, k) \in Seq(Seq(S))
             /\ SubSeq(s, 1, k) = Append(SubSeq(s, 1, k - 1), s[k])
  <2>1. k - 1 \in 0..Len(s) /\ k \in 0..Len(s)
    BY <1>1 DEF N
  <2>2. SubSeq(s, 1, k - 1) \in Seq(Seq(S)) /\ SubSeq(s, 1, k) \in Seq(Seq(S))
    BY <2>1, TwoHalves
  <2>3. 1 \in 1..(Len(s) + 1) /\ k \in 1..Len(s)
    BY <1>1 DEF N
  <2>4. SubSeq(s, 1, k) = Append(SubSeq(s, 1, k - 1), s[k])
    BY <1>1, <2>3, SubSeqRecursiveSecond DEF N
  <2> QED
    BY <2>2, <2>4
<1>4. ASSUME NEW k \in 1..N
      PROVE  Flat(k - 1) \in Seq(S) /\ Flat(k) = Flat(k - 1) \o s[k] /\ s[k] \in Seq(S)
  BY <1>1, <1>3, FlattenAppend
<1>5. Flat(0) = <<>>
  <2>1. SubSeq(s, 1, 0) = <<>>
    OBVIOUS
  <2> QED
    BY <2>1, FlattenNothing
<1> HIDE DEF Flat
<1> DEFINE Bad == {k \in 0..N : ~(Flat(k) \in Seq(S) /\ Len(Flat(k)) = at[k + 1])}
<1>6. Bad = {}
  <2>1. SUFFICES ASSUME Bad # {} PROVE FALSE
    OBVIOUS
  <2>2. PICK k \in Bad : \A j \in Bad : k <= j
    <3>1. Bad \in SUBSET Nat
      BY <1>1
    <3> HIDE DEF Bad
    <3> QED
      BY <2>1, <3>1, LeastOf
  <2>3. CASE k = 0
    <3>1. Flat(0) \in Seq(S) /\ Len(Flat(0)) = 0
      <4>1. <<>> \in Seq(S) /\ Len(<<>>) = 0
        OBVIOUS
      <4> QED
        BY ONLY <4>1, <1>5
    <3>2. at[k + 1] = 0
      BY <1>2, <2>3
    <3> QED
      BY <2>2, <2>3, <3>1, <3>2
  <2>4. CASE k # 0
    <3>1. k \in 1..N /\ k - 1 \in 0..N /\ ~(k <= k - 1)
      BY <1>1, <2>4
    <3>2. Len(Flat(k - 1)) = at[k] /\ Flat(k - 1) \in Seq(S)
      <4>1. k - 1 \notin Bad /\ (k - 1) + 1 = k
        BY <2>2, <3>1
      <4> QED
        BY <3>1, <4>1
    <3>3. /\ Flat(k) = Flat(k - 1) \o s[k] /\ s[k] \in Seq(S)
          /\ at[k + 1] = at[k] + Len(s[k])
      BY <1>2, <1>4, <3>1
    <3>4. Flat(k) \in Seq(S) /\ Len(Flat(k)) = at[k + 1]
      <4>1. PICK h, x : h = Flat(k - 1) /\ x = s[k]
        OBVIOUS
      <4>2. h \o x \in Seq(S) /\ Len(h \o x) = Len(h) + Len(x)
        BY <3>2, <3>3, <4>1, ConcatProperties
      <4> QED
        BY ONLY <3>2, <3>3, <4>1, <4>2
    <3> QED
      BY <3>4
  <2> QED
    BY <2>3, <2>4
<1> DEFINE h == Flat(n - 1)
           x == s[n]
           t == FlattenSeq(SubSeq(s, n + 1, Len(s)))
           F == FlattenSeq(s)
<1>7. /\ h \in Seq(S) /\ Len(h) = at[n] /\ x \in Seq(S) /\ Flat(n) = h \o x
      /\ at[n + 1] = at[n] + Len(x) /\ at[n] \in Nat
  <2>1. n \in 1..N /\ n - 1 \in 0..N /\ (n - 1) + 1 = n /\ n \in 1..(N + 1)
    BY <1>1 DEF N
  <2>2. Len(h) = at[n]
    BY <1>6, <2>1
  <2> QED
    BY <1>2, <1>4, <2>1, <2>2
<1>8. F = Flat(n) \o t /\ t \in Seq(S)
  <2>1. n \in 0..Len(s)
    BY <1>1 DEF N
  <2>2. /\ SubSeq(s, 1, n) \in Seq(Seq(S)) /\ SubSeq(s, n + 1, Len(s)) \in Seq(Seq(S))
        /\ SubSeq(s, 1, n) \o SubSeq(s, n + 1, Len(s)) = s
    BY <2>1, TwoHalves
  <2>3. FlattenSeq(SubSeq(s, 1, n) \o SubSeq(s, n + 1, Len(s)))
          = FlattenSeq(SubSeq(s, 1, n)) \o FlattenSeq(SubSeq(s, n + 1, Len(s)))
    BY <2>2, FlattenJoins
  <2>4. t \in Seq(S)
    BY <2>2, FlattenAppend, EmptySeq
  <2> QED
    BY <2>2, <2>3, <2>4 DEF Flat
<1> HIDE DEF h, x, t, F
<1> DEFINE a == Len(h)
           l == Len(x)
<1>9. F = (h \o x) \o t /\ a \in Nat /\ l \in Nat
  BY <1>7, <1>8, LenProperties
<1>10. F \in Seq(S) /\ a + l <= Len(F) /\ \A i \in 1..l : F[a + i] = x[i]
  <2> DEFINE g == h \o x
             z == Len(t)
  <2>1. /\ g \in Seq(S) /\ Len(g) = a + l /\ \A i \in 1..(a + l) : g[i] = IF i <= a THEN h[i] ELSE x[i - a]
    <3>1. h \in Seq(S) /\ x \in Seq(S)
      BY <1>7
    <3>2. PICK u, v : Len(h) = u /\ Len(x) = v
      OBVIOUS
    <3>3. /\ g \in Seq(S) /\ Len(g) = u + v
          /\ \A i \in 1..(u + v) : g[i] = IF i <= u THEN h[i] ELSE x[i - u]
      BY ONLY <3>1, <3>2, EndToEnd DEF g
    <3> QED
      BY <3>2, <3>3 DEF a, l
  <2>2. z \in Nat
    BY <1>8, LenProperties
  <2> HIDE DEF g, a, l
  <2>3. /\ g \o t \in Seq(S) /\ Len(g \o t) = (a + l) + z
        /\ \A i \in 1..((a + l) + z) : (g \o t)[i] = IF i <= a + l THEN g[i] ELSE t[i - (a + l)]
    BY <1>8, <2>1, EndToEnd, SMTT(20)
  <2> HIDE DEF z
  <2>4. ASSUME NEW i \in 1..l PROVE (g \o t)[a + i] = x[i]
    <3>1. a + i \in 1..(a + l) /\ a + i \in 1..((a + l) + z) /\ a + i <= a + l /\ ~(a + i <= a) /\ (a + i) - a = i
      BY <1>9, <2>2
    <3>2. (g \o t)[a + i] = g[a + i]
      BY <2>3, <3>1
    <3>3. g[a + i] = x[(a + i) - a]
      BY <2>1, <3>1
    <3> QED
      BY <3>1, <3>2, <3>3
  <2>5. F = g \o t /\ a + l <= (a + l) + z
    BY <1>9, <2>2 DEF g
  <2> QED
    BY <2>3, <2>4, <2>5
<1>11. SubSeq(F, a + 1, a + l) = [i \in 1..l |-> F[a + i]]
  <2>1. Slice(F, a, l)
    <3> HIDE DEF a, l
    <3> QED
      BY <1>9, <1>10, SliceIs
  <2> QED
    BY <2>1 DEF Slice
<1>12. x = [i \in 1..l |-> x[i]]
  BY <1>7, LenProperties
<1>13. SubSeq(F, a + 1, a + l) = x
  BY <1>10, <1>11, <1>12
<1> QED
  BY <1>7, <1>13 DEF F, x
=============================================================================
