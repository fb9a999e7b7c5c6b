-------------------------- MODULE TextStreamProofs --------------------------
(***************************************************************************)
(* The text of an answer, for every vocabulary, every set of stop strings  *)
(* and every length: the deltas reassemble to the text of all tokens,      *)
(* whichever tokens share a character and wherever the decode window is    *)
(* cut; the text ends before the first stop string, and what was sent is   *)
(* no part of one.  And what is counted: a request once, by the reason its *)
(* client reads; what the handler accepts the engine takes.                *)
(***************************************************************************)
EXTENDS TextStream, CollectionLemmas

Texts  == Seq(Chars)
Tokens == Vocabulary \cup {Eos}
Items  == [token : Tokens, finish : {"none", "stop", "length"}] \cup {Failure}
Events ==
  [type : {"error", "role", "created", "delta", "body", "usage", "[DONE]", "completed", "finish"},
   text : Texts \cup {"stop", "length"} \cup {Status(a) : a \in Asks}]

Typed ==
  /\ ask \in Asks
  /\ phase \in {"new", "accepted", "refused", "open", "ended", "failed", "left"}
  /\ queue \in Seq(Items) /\ ids \in Seq(Tokens)
  /\ offsets \in [prefix : Nat, read : Nat]
  /\ offsets.prefix <= offsets.read /\ offsets.read <= Len(ids)
  /\ pending \in Texts /\ emitted \in Texts
  /\ stopped \in BOOLEAN /\ finish \in {"none", "stop", "length"}
  /\ wire \in Seq(Events)
  /\ metrics \in [requests : Nat, tokens : Nat, latencies : Nat, stop : Nat, length : Nat]

(* The text up to a seam of the decode window. *)
Before(n) == Decode(SubSeq(ids, 1, n))

(* The window is cut where no character is.  What was released and what is *)
(* held back are the text up to where the window was read, and only an     *)
(* incomplete character is behind that.                                    *)
Seams ==
  phase # "ended" =>
    /\ ~EndsBroken(Before(offsets.prefix)) /\ ~EndsBroken(Before(offsets.read))
    /\ ~stopped => emitted \o pending = Before(offsets.read)
    /\ offsets.read < Len(ids) => EndsBroken(Decode(ids))

(* No stop string has been completed, and whatever may become one is held  *)
(* back.                                                                   *)
Held ==
  ~stopped /\ phase # "ended" =>
    /\ ~HasStop(emitted \o pending)
    /\ \A n \in Tails(emitted \o pending) : n <= Len(pending)

(* How the answer ends: at its first stop string, or with its whole text. *)
Concluded ==
  LET text == Decode(ids) IN
  /\ stopped => emitted = UpToStop(text)
  /\ ~stopped /\ phase = "ended" =>
       /\ emitted = text /\ pending = <<>>
       /\ HasStop(text) => EndsBroken(text)

Counted ==
  /\ CountedOnce
  /\ phase # "ended" => \A n \in DOMAIN wire : wire[n].type # "finish"

Accepted == phase \in {"accepted", "open"} => Status(ask) = 200

IInv == Typed /\ Seams /\ Held /\ Concluded /\ Counted /\ Accepted

-----------------------------------------------------------------------------
(* Decoding *)

(* Two lists are the halves of one. *)
LEMMA EndsOf ==
  ASSUME NEW S, NEW s \in Seq(S), NEW t \in Seq(S)
  PROVE  /\ IsPrefix(s, s \o t)
         /\ SubSeq(s \o t, 1, Len(s)) = s
         /\ SubSeq(s \o t, Len(s) + 1, Len(s \o t)) = t
<1> DEFINE a == s \o t
           m == Len(s)
           b == SubSeq(a, 1, m)
           c == SubSeq(a, m + 1, Len(a))
<1>1. /\ a \in Seq(S) /\ Len(a) = m + Len(t) /\ m \in Nat /\ Len(t) \in Nat
      /\ \A i \in 1..(m + Len(t)) : a[i] = IF i <= m THEN s[i] ELSE t[i - m]
  BY ConcatProperties, LenProperties
<1>2. b = s
  <2>1. \A i \in 1..m : a[i] \in S /\ a[i] = s[i]
    BY <1>1, ElementOfSeq
  <2> HIDE DEF a, m
  <2>2. b \in Seq(S) /\ Len(b) = (IF 1 <= m THEN m - 1 + 1 ELSE 0)
        /\ \A i \in 1..(m - 1 + 1) : b[i] = a[1 + i - 1]
    BY <1>1, <2>1, SubSeqProperties
  <2>3. Len(b) = m /\ \A i \in 1..m : b[i] = s[i]
    BY <1>1, <2>1, <2>2
  <2> HIDE DEF b
  <2> QED
    BY <2>2, <2>3, SeqEqual DEF m
<1>3. c = t
  <2> DEFINE k == m + 1
             n == Len(a)
  <2>1. \A i \in k..n : a[i] \in S
    BY <1>1, ElementOfSeq
  <2>2. k \in Int /\ n \in Int
    BY <1>1
  <2>3. \A i \in 1..Len(t) : a[k + i - 1] = t[i] /\ n - k + 1 = Len(t)
    <3> SUFFICES ASSUME NEW i \in 1..Len(t) PROVE a[k + i - 1] = t[i] /\ n - k + 1 = Len(t)
      OBVIOUS
    <3> DEFINE j == k + i - 1
    <3>1. j \in 1..(m + Len(t)) /\ ~(j <= m) /\ j - m = i
      BY <1>1
    <3> HIDE DEF j, a
    <3>2. a[j] = t[i]
      BY <1>1, <3>1
    <3> QED
      BY <1>1, <3>2 DEF j
  <2>4. (k <= n => n - k + 1 = Len(t)) /\ (~(k <= n) => Len(t) = 0)
    BY <1>1
  <2> HIDE DEF k, n, a, m
  <2> DEFINE d == SubSeq(a, k, n)
  <2>5. d \in Seq(S) /\ Len(d) = (IF k <= n THEN n - k + 1 ELSE 0)
        /\ \A i \in 1..(n - k + 1) : d[i] = a[k + i - 1]
    BY <2>1, <2>2, SubSeqProperties
  <2> HIDE DEF d
  <2>6. Len(d) = Len(t) /\ \A i \in 1..Len(t) : d[i] = t[i]
    BY <2>3, <2>4, <2>5
  <2>7. d = t
    BY <2>5, <2>6, SeqEqual
  <2> QED
    BY <2>7 DEF d, k, n
<1>4. IsPrefix(s, a)
  <2>1. SubSeq(s, 1, m) = s
    BY SubSeqFull
  <2> HIDE DEF a
  <2> QED
    BY <1>1, <1>2, <2>1 DEF IsPrefix
<1> QED
  BY <1>2, <1>3, <1>4

(* The bytes of each token. *)
Parts(w) == [n \in DOMAIN w |-> IF w[n] = Eos THEN <<>> ELSE w[n]]

LEMMA BytesJoin ==
  ASSUME NEW t \in Seq(Tokens), NEW u \in Seq(Tokens)
  PROVE  /\ Bytes(t) \in Texts
         /\ Bytes(t \o u) = Bytes(t) \o Bytes(u)
<1>1. ASSUME NEW w \in Seq(Tokens)
      PROVE  Parts(w) \in Seq(Texts) /\ Len(Parts(w)) = Len(w) /\ Bytes(w) = FlattenSeq(Parts(w))
             /\ \A n \in 1..Len(w) : Parts(w)[n] = IF w[n] = Eos THEN <<>> ELSE w[n]
  <2>1. Len(w) \in Nat /\ DOMAIN w = 1..Len(w) /\ \A n \in 1..Len(w) : w[n] \in Tokens
    BY LenProperties, ElementOfSeq
  <2>2. <<>> \in Texts /\ Vocabulary \subseteq Texts
    BY StreamAssumption DEF Texts
  <2>3. \A n \in 1..Len(w) : (IF w[n] = Eos THEN <<>> ELSE w[n]) \in Texts
    BY <2>1, <2>2 DEF Tokens
  <2> QED
    BY <2>1, <2>3 DEF Bytes, Parts
<1>2. t \o u \in Seq(Tokens) /\ Len(t \o u) = Len(t) + Len(u) /\ Len(t) \in Nat /\ Len(u) \in Nat
      /\ \A n \in 1..(Len(t) + Len(u)) : (t \o u)[n] = IF n <= Len(t) THEN t[n] ELSE u[n - Len(t)]
  BY LenProperties, ConcatProperties
<1>3. Parts(t) \in Seq(Texts) /\ Parts(u) \in Seq(Texts) /\ Parts(t \o u) \in Seq(Texts)
  BY <1>1, <1>2
<1>4. Parts(t \o u) = Parts(t) \o Parts(u)
  <2>1. /\ Parts(t) \o Parts(u) \in Seq(Texts) /\ Len(Parts(t) \o Parts(u)) = Len(t) + Len(u)
        /\ \A n \in 1..(Len(t) + Len(u)) :
             (Parts(t) \o Parts(u))[n] = IF n <= Len(t) THEN Parts(t)[n] ELSE Parts(u)[n - Len(t)]
    <3> DEFINE m == Len(t)
               k == Len(u)
    <3>1. Len(Parts(t)) = m /\ Len(Parts(u)) = k
      BY <1>1
    <3> HIDE DEF m, k
    <3>2. /\ Parts(t) \o Parts(u) \in Seq(Texts) /\ Len(Parts(t) \o Parts(u)) = m + k
          /\ \A n \in 1..(m + k) :
               (Parts(t) \o Parts(u))[n] = IF n <= m THEN Parts(t)[n] ELSE Parts(u)[n - m]
      BY <1>3, <3>1, EndToEnd
    <3> QED
      BY <3>2 DEF m, k
  <2>2. Len(Parts(t \o u)) = Len(t) + Len(u)
    BY <1>1, <1>2
  <2>3. ASSUME NEW n \in 1..(Len(t) + Len(u)) PROVE Parts(t \o u)[n] = (Parts(t) \o Parts(u))[n]
    <3>1. Parts(t \o u)[n] = IF (t \o u)[n] = Eos THEN <<>> ELSE (t \o u)[n]
      BY <1>1, <1>2
    <3>2. CASE n <= Len(t)
      BY <1>1, <1>2, <2>1, <3>1, <3>2
    <3>3. CASE ~(n <= Len(t))
      <4>1. n - Len(t) \in 1..Len(u)
        BY <1>2, <3>3
      <4> QED
        BY <1>1, <1>2, <2>1, <3>1, <3>3, <4>1
    <3> QED
      BY <3>2, <3>3
  <2> QED
    BY <1>3, <2>1, <2>2, <2>3, SeqEqual
<1>5. FlattenSeq(Parts(t)) \in Texts
  <2>1. <<>> \in Seq(Chars)
    OBVIOUS
  <2> QED
    BY <1>3, <2>1, FlattenAppend DEF Texts
<1>6. FlattenSeq(Parts(t) \o Parts(u)) = FlattenSeq(Parts(t)) \o FlattenSeq(Parts(u))
  BY <1>3, FlattenJoins DEF Texts
<1> QED
  BY <1>1, <1>2, <1>4, <1>5, <1>6

(* The characters that the bytes of b complete, one list for each. *)
Pieces(b) == [n \in DOMAIN b |-> Character(b, n)]

LEMMA PiecesIs ==
  ASSUME NEW b \in Texts
  PROVE  /\ Pieces(b) \in Seq(Texts) /\ Len(Pieces(b)) = Len(b) /\ Len(b) \in Nat
         /\ \A n \in 1..Len(b) : Pieces(b)[n] = Character(b, n)
         /\ Characters(b) = FlattenSeq(Pieces(b)) /\ Characters(b) \in Texts
<1>1. Len(b) \in Nat /\ DOMAIN b = 1..Len(b) /\ \A n \in 1..Len(b) : b[n] \in Chars
  BY LenProperties, ElementOfSeq DEF Texts
<1>2. \A n \in 1..Len(b) : Character(b, n) \in Texts
  BY <1>1, StreamAssumption DEF Character, Texts
<1>3. Pieces(b) \in Seq(Texts) /\ Len(Pieces(b)) = Len(b) /\ \A n \in 1..Len(b) : Pieces(b)[n] = Character(b, n)
  BY <1>1, <1>2 DEF Pieces
<1>4. Characters(b) = FlattenSeq(Pieces(b))
  BY DEF Characters, Pieces
<1>5. FlattenSeq(Pieces(b)) \in Texts
  <2>1. <<>> \in Seq(Chars)
    OBVIOUS
  <2> QED
    BY <1>3, <2>1, FlattenAppend DEF Texts
<1> QED
  BY <1>1, <1>3, <1>4, <1>5

(* A text may be cut behind any byte but the first of a character. *)
LEMMA CharactersJoin ==
  ASSUME NEW b \in Texts, NEW c \in Texts, b = <<>> \/ b[Len(b)] # "("
  PROVE  Characters(b \o c) = Characters(b) \o Characters(c)
<1> DEFINE d == b \o c
           m == Len(b)
<1>1. /\ d \in Texts /\ Len(d) = m + Len(c) /\ m \in Nat /\ Len(c) \in Nat
      /\ \A n \in 1..(m + Len(c)) : d[n] = IF n <= m THEN b[n] ELSE c[n - m]
  BY LenProperties, ConcatProperties DEF Texts
<1>2. m = 0 \/ b[m] # "("
  BY EmptySeq DEF Texts
<1> HIDE DEF d, m
<1>3. ASSUME NEW n \in 1..m PROVE Character(d, n) = Character(b, n)
  <2>1. n \in 1..(m + Len(c)) /\ d[n] = b[n] /\ (n > 1 => d[n - 1] = b[n - 1])
    BY <1>1
  <2>2. b[n] = "(" => n # m
    BY <1>2
  <2>3. n # m => n + 1 <= m /\ d[n + 1] = b[n + 1] /\ n < Len(d) /\ n < m
    BY <1>1
  <2>4. Len(b) = m
    BY DEF m
  <2> QED
    BY <2>1, <2>2, <2>3, <2>4 DEF Character
<1>4. ASSUME NEW n \in 1..Len(c) PROVE Character(d, m + n) = Character(c, n)
  <2> DEFINE k == m + n
  <2>1. k \in 1..(m + Len(c)) /\ d[k] = c[n]
    BY <1>1
  <2>2. n > 1 => k > 1 /\ d[k - 1] = c[n - 1]
    BY <1>1
  <2>3. n = 1 /\ k > 1 => d[k - 1] # "("
    BY <1>1, <1>2
  <2>4. k < Len(d) <=> n < Len(c)
    BY <1>1
  <2>5. n < Len(c) => d[k + 1] = c[n + 1]
    BY <1>1
  <2>6. n = 1 \/ n > 1
    BY <1>1
  <2> HIDE DEF k
  <2>7. Character(d, k) = Character(c, n)
    BY <2>1, <2>2, <2>3, <2>4, <2>5, <2>6 DEF Character
  <2> QED
    BY <2>7 DEF k
<1>5. /\ Pieces(b) \in Seq(Texts) /\ Pieces(c) \in Seq(Texts) /\ Pieces(d) \in Seq(Texts)
      /\ Len(Pieces(b)) = m /\ Len(Pieces(c)) = Len(c) /\ Len(Pieces(d)) = m + Len(c)
  BY <1>1, PiecesIs DEF m
<1>6. Pieces(d) = Pieces(b) \o Pieces(c)
  <2>1. /\ Pieces(b) \o Pieces(c) \in Seq(Texts) /\ Len(Pieces(b) \o Pieces(c)) = m + Len(c)
        /\ \A n \in 1..(m + Len(c)) :
             (Pieces(b) \o Pieces(c))[n] = IF n <= m THEN Pieces(b)[n] ELSE Pieces(c)[n - m]
    BY <1>5, EndToEnd
  <2>2. ASSUME NEW n \in 1..(m + Len(c)) PROVE Pieces(d)[n] = (Pieces(b) \o Pieces(c))[n]
    <3>1. Pieces(d)[n] = Character(d, n)
      BY <1>1, PiecesIs
    <3>2. CASE n <= m
      <4>1. n \in 1..m /\ Pieces(b)[n] = Character(b, n)
        BY <1>1, <3>2, PiecesIs DEF m
      <4> QED
        BY <1>3, <2>1, <3>1, <3>2, <4>1
    <3>3. CASE ~(n <= m)
      <4> DEFINE k == n - m
      <4>1. k \in 1..Len(c) /\ n = m + k
        BY <1>1, <3>3
      <4>2. (Pieces(b) \o Pieces(c))[n] = Pieces(c)[k]
        BY <2>1, <3>3
      <4> HIDE DEF k
      <4>3. Pieces(c)[k] = Character(c, k) /\ Character(d, n) = Character(c, k)
        BY <1>4, <4>1, PiecesIs
      <4> QED
        BY <3>1, <4>2, <4>3
    <3> QED
      BY <3>2, <3>3
  <2> QED
    BY <1>5, <2>1, <2>2, SeqEqual
<1>7. FlattenSeq(Pieces(b) \o Pieces(c)) = FlattenSeq(Pieces(b)) \o FlattenSeq(Pieces(c))
  BY <1>5, FlattenJoins DEF Texts
<1> QED
  BY <1>1, <1>6, <1>7, PiecesIs DEF d

(* Bytes that end inside a character decode to a broken text. *)
LEMMA CutCharacter ==
  ASSUME NEW b \in Texts, b # <<>>, b[Len(b)] = "("
  PROVE  EndsBroken(Characters(b))
<1> DEFINE p == Pieces(b)
           n == Len(b)
<1>1. p \in Seq(Texts) /\ Len(p) = n /\ n \in Nat \ {0} /\ Characters(b) = FlattenSeq(p)
      /\ p[n] = Character(b, n)
  <2>1. n \in Nat \ {0}
    BY EmptySeq DEF Texts
  <2>2. n \in 1..n
    BY <2>1
  <2> QED
    BY <2>1, <2>2, PiecesIs
<1>2. p[n] = <<"?">>
  BY <1>1 DEF Character
<1> HIDE DEF p, n
<1>3. p = SubSeq(p, 1, n - 1) \o <<p[n]>>
  <2>1. SubSeq(p, 1, n) = SubSeq(p, 1, n - 1) \o <<p[n]>>
    <3>1. 1 \in 1..Len(p) /\ n \in 1..Len(p)
      BY <1>1
    <3> QED
      BY <1>1, <3>1, SubSeqRecursiveSecond
  <2>2. SubSeq(p, 1, n) = p
    BY <1>1, SubSeqFull
  <2> QED
    BY <2>1, <2>2
<1> DEFINE a == SubSeq(p, 1, n - 1)
<1>4. a \in Seq(Texts)
  <2>1. \A i \in 1..(n - 1) : p[i] \in Texts
    BY <1>1, ElementOfSeq
  <2>2. 1 \in Int /\ n - 1 \in Int
    BY <1>1
  <2> QED
    BY <2>1, <2>2, SubSeqProperties
<1>5. <<"?">> \in Seq(Chars)
  BY StreamAssumption
<1>6. p = Append(a, <<"?">>)
  <2>1. <<"?">> \in Texts
    BY <1>5 DEF Texts
  <2> HIDE DEF a
  <2>2. Append(a, <<"?">>) = a \o << <<"?">> >>
    BY <1>4, <2>1, AppendIsConcat
  <2> QED
    BY <1>2, <1>3, <2>2 DEF a
<1> HIDE DEF a
<1>7. Characters(b) = FlattenSeq(a) \o <<"?">> /\ FlattenSeq(a) \in Seq(Chars)
  BY <1>1, <1>4, <1>5, <1>6, FlattenAppend DEF Texts
<1> DEFINE f == FlattenSeq(a)
<1> HIDE DEF f
<1>8. EndsBroken(f \o <<"?">>)
  <2>1. f \in Seq(Chars)
    BY <1>7 DEF f
  <2> QED
    BY <2>1 DEF EndsBroken, Last
<1> QED
  BY <1>7, <1>8 DEF f

LEMMA BrokenJoin ==
  ASSUME NEW a \in Texts, NEW b \in Texts
  PROVE  EndsBroken(a \o b) <=> IF b = <<>> THEN EndsBroken(a) ELSE EndsBroken(b)
<1>1. a \o b \in Texts /\ Len(a \o b) = Len(a) + Len(b) /\ Len(a) \in Nat /\ Len(b) \in Nat
      /\ \A i \in 1..(Len(a) + Len(b)) : (a \o b)[i] = IF i <= Len(a) THEN a[i] ELSE b[i - Len(a)]
  BY ConcatProperties, LenProperties DEF Texts
<1>2. CASE b = <<>>
  BY <1>2, ConcatEmptySeq DEF Texts
<1>3. CASE b # <<>>
  <2>1. Len(b) \in Nat \ {0}
    BY <1>3, EmptySeq DEF Texts
  <2> DEFINE d == a \o b
             m == Len(a) + Len(b)
  <2>2. d # <<>> /\ Last(d) = d[m]
    <3>1. Len(<<>>) = 0
      OBVIOUS
    <3> QED
      BY <1>1, <2>1, <3>1 DEF Last
  <2>3. d[m] = b[Len(b)]
    <3>1. m \in 1..(Len(a) + Len(b)) /\ ~(m <= Len(a)) /\ m - Len(a) = Len(b)
      BY <1>1, <2>1
    <3>2. d[m] = b[m - Len(a)]
      <4> HIDE DEF m
      <4> QED
        BY <1>1, <3>1
    <3> QED
      BY <3>1, <3>2
  <2> QED
    BY <1>3, <2>2, <2>3 DEF EndsBroken, Last
<1> QED
  BY <1>2, <1>3

LEMMA DecodeIs ==
  ASSUME NEW t \in Seq(Tokens)
  PROVE  Decode(t) \in Texts
<1>1. Bytes(t) \in Texts
  BY BytesJoin
<1> QED
  BY <1>1, PiecesIs DEF Decode

LEMMA NothingDecoded == Decode(<<>>) = <<>> /\ ~EndsBroken(<<>>)
<1>1. FlattenSeq(<<>>) = <<>>
  BY FlattenNothing
<1>2. Bytes(<<>>) = <<>>
  <2>1. [n \in DOMAIN <<>> |-> IF <<>>[n] = Eos THEN <<>> ELSE <<>>[n]] = <<>>
    OBVIOUS
  <2> QED
    BY <1>1, <2>1 DEF Bytes
<1>3. Characters(<<>>) = <<>>
  <2>1. [n \in DOMAIN <<>> |-> Character(<<>>, n)] = <<>>
    OBVIOUS
  <2> QED
    BY <1>1, <2>1 DEF Characters
<1> QED
  BY <1>2, <1>3 DEF Decode, EndsBroken

(* Behind a text that is not broken the next tokens decode as they do      *)
(* alone, so a decode window may begin there.                              *)
LEMMA DecodeJoin ==
  ASSUME NEW t \in Seq(Tokens), NEW u \in Seq(Tokens), ~EndsBroken(Decode(t))
  PROVE  Decode(t \o u) = Decode(t) \o Decode(u)
<1> DEFINE b == Bytes(t)
           c == Bytes(u)
<1>1. b \in Texts /\ c \in Texts /\ Bytes(t \o u) = b \o c
  BY BytesJoin
<1>2. b = <<>> \/ b[Len(b)] # "("
  BY <1>1, CutCharacter DEF Decode
<1> HIDE DEF b, c
<1>3. Characters(b \o c) = Characters(b) \o Characters(c)
  BY <1>1, <1>2, CharactersJoin
<1> QED
  BY <1>1, <1>3 DEF Decode, b, c

(* The window begins behind x and was read up to behind y. *)
LEMMA WindowJoin ==
  ASSUME NEW x \in Seq(Tokens), NEW y \in Seq(Tokens), NEW z \in Seq(Tokens),
         ~EndsBroken(Decode(x)), ~EndsBroken(Decode(x \o y))
  PROVE  /\ Decode(y \o z) = Decode(y) \o Decode(z)
         /\ Decode((x \o y) \o z) = Decode(x \o y) \o Decode(z)
         /\ EndsBroken(Decode((x \o y) \o z)) <=> EndsBroken(Decode(y \o z))
<1>1. /\ Decode(x) \in Texts /\ Decode(y) \in Texts /\ Decode(z) \in Texts
      /\ x \o y \in Seq(Tokens) /\ y \o z \in Seq(Tokens) /\ (x \o y) \o z = x \o (y \o z)
  BY DecodeIs, ConcatProperties, ConcatAssociative
<1>2. Decode(x \o y) = Decode(x) \o Decode(y)
  BY DecodeJoin
<1>3. ~EndsBroken(Decode(y))
  BY <1>1, <1>2, BrokenJoin, NothingDecoded
<1>4. Decode(y \o z) = Decode(y) \o Decode(z)
  BY <1>3, DecodeJoin
<1>5. Decode((x \o y) \o z) = Decode(x \o y) \o Decode(z)
  BY <1>1, DecodeJoin
<1>6. Decode((x \o y) \o z) = Decode(x) \o Decode(y \o z) /\ Decode(y \o z) \in Texts
  BY <1>1, DecodeJoin, DecodeIs
<1>7. EndsBroken(Decode((x \o y) \o z)) <=> EndsBroken(Decode(y \o z))
  BY <1>1, <1>6, BrokenJoin, NothingDecoded
<1> QED
  BY <1>4, <1>5, <1>7

(* The tokens t, with the window behind n of them and read behind m. *)
LEMMA WindowIs ==
  ASSUME NEW t \in Seq(Tokens), NEW n \in Nat, NEW m \in Nat, n <= m, m <= Len(t),
         ~EndsBroken(Decode(SubSeq(t, 1, n))), ~EndsBroken(Decode(SubSeq(t, 1, m))),
         NEW window, window = Decode(SubSeq(t, n + 1, Len(t))),
         NEW old, old = Decode(SubSeq(t, n + 1, m)),
         NEW new, new = Decode(SubSeq(t, m + 1, Len(t)))
  PROVE  /\ window \in Texts /\ new \in Texts /\ old \in Texts
         /\ SubSeq(window, Len(old) + 1, Len(window)) = new
         /\ Decode(t) = Decode(SubSeq(t, 1, m)) \o new
         /\ EndsBroken(Decode(t)) <=> EndsBroken(window)
<1> DEFINE l == Len(t)
           k == n + 1
<1>1. l \in Nat /\ \A i \in 1..l : t[i] \in Tokens
  BY LenProperties, ElementOfSeq
<1>2. n \in 0..Len(t) /\ m \in 0..Len(t)
  BY <1>1
<1>3. /\ SubSeq(t, 1, n) \in Seq(Tokens) /\ SubSeq(t, m + 1, Len(t)) \in Seq(Tokens)
      /\ SubSeq(t, 1, m) \o SubSeq(t, m + 1, Len(t)) = t
  BY <1>2, TwoHalves
<1>4. SubSeq(t, k, m) \in Seq(Tokens)
  <2>1. \A i \in k..m : t[i] \in Tokens
    BY <1>1
  <2>2. k \in Int /\ m \in Int
    OBVIOUS
  <2> HIDE DEF k
  <2> QED
    BY <2>1, <2>2, SubSeqProperties
<1>5. SubSeq(t, 1, n) \o SubSeq(t, n + 1, m) = SubSeq(t, 1, m)
  <2>1. 1 \in 1..(Len(t) + 1) /\ n \in (1 - 1)..Len(t) /\ m \in n..Len(t)
    BY <1>1
  <2> QED
    BY <2>1, ConcatAdjacentSubSeq
<1>6. SubSeq(t, k, m) \o SubSeq(t, m + 1, l) = SubSeq(t, k, l)
  <2>1. k \in 1..(Len(t) + 1) /\ m \in (k - 1)..Len(t) /\ l \in m..Len(t)
    BY <1>1
  <2> HIDE DEF k, l
  <2> QED
    BY <2>1, ConcatAdjacentSubSeq
<1>7. \E x \in Seq(Tokens), y \in Seq(Tokens), z \in Seq(Tokens) :
        /\ x = SubSeq(t, 1, n) /\ y = SubSeq(t, n + 1, m) /\ z = SubSeq(t, m + 1, Len(t))
        /\ x \o y = SubSeq(t, 1, m) /\ y \o z = SubSeq(t, n + 1, Len(t)) /\ (x \o y) \o z = t
  BY <1>3, <1>4, <1>5, <1>6
<1>8. PICK x \in Seq(Tokens), y \in Seq(Tokens), z \in Seq(Tokens) :
        /\ x = SubSeq(t, 1, n) /\ y = SubSeq(t, n + 1, m) /\ z = SubSeq(t, m + 1, Len(t))
        /\ x \o y = SubSeq(t, 1, m) /\ y \o z = SubSeq(t, n + 1, Len(t)) /\ (x \o y) \o z = t
  BY <1>7
<1>9. ~EndsBroken(Decode(x)) /\ ~EndsBroken(Decode(x \o y))
  BY <1>8
<1>10. /\ Decode(y \o z) = Decode(y) \o Decode(z)
       /\ Decode((x \o y) \o z) = Decode(x \o y) \o Decode(z)
       /\ EndsBroken(Decode((x \o y) \o z)) <=> EndsBroken(Decode(y \o z))
  BY <1>9, WindowJoin
<1>11. old \in Texts /\ new \in Texts /\ window = old \o new
       /\ Decode(t) = Decode(SubSeq(t, 1, m)) \o new /\ (EndsBroken(Decode(t)) <=> EndsBroken(window))
  BY <1>8, <1>10, DecodeIs
<1>12. window \in Texts /\ SubSeq(window, Len(old) + 1, Len(window)) = new
  <2>1. old \o new \in Seq(Chars) /\ SubSeq(old \o new, Len(old) + 1, Len(old \o new)) = new
    <3>1. old \in Seq(Chars) /\ new \in Seq(Chars)
      BY <1>11 DEF Texts
    <3> QED
      BY ONLY <3>1, EndsOf, ConcatProperties
  <2> QED
    BY <1>11, <2>1 DEF Texts
<1> QED
  BY <1>11, <1>12

LEMMA AppendKeeps ==
  ASSUME NEW S, NEW s \in Seq(S), NEW x \in S, NEW i \in Nat \ {0}, NEW j \in Nat, j <= Len(s)
  PROVE  SubSeq(Append(s, x), i, j) = SubSeq(s, i, j)
<1> DEFINE t == Append(s, x)
<1>1. Len(s) \in Nat /\ \A k \in 1..Len(s) : t[k] = s[k] /\ s[k] \in S
  BY AppendProperties, LenProperties, ElementOfSeq
<1> HIDE DEF t
<1>2. \A k \in i..j : t[k] = s[k] /\ s[k] \in S
  BY <1>1
<1>3. /\ SubSeq(t, i, j) \in Seq(S) /\ Len(SubSeq(t, i, j)) = (IF i <= j THEN j - i + 1 ELSE 0)
      /\ \A k \in 1..(j - i + 1) : SubSeq(t, i, j)[k] = t[i + k - 1]
  BY <1>2, SubSeqProperties
<1>4. /\ SubSeq(s, i, j) \in Seq(S) /\ Len(SubSeq(s, i, j)) = (IF i <= j THEN j - i + 1 ELSE 0)
      /\ \A k \in 1..(j - i + 1) : SubSeq(s, i, j)[k] = s[i + k - 1]
  BY <1>2, SubSeqProperties
<1>5. \A k \in 1..(j - i + 1) : i + k - 1 \in i..j
  OBVIOUS
<1>6. \A k \in 1..Len(SubSeq(t, i, j)) : SubSeq(t, i, j)[k] = SubSeq(s, i, j)[k]
  BY <1>2, <1>3, <1>4, <1>5
<1>7. SubSeq(t, i, j) = SubSeq(s, i, j)
  BY <1>3, <1>4, <1>6, SeqEqual
<1> QED
  BY <1>7 DEF t

(* IncrementalDetokenizer.feed: the text of the new token, or nothing as   *)
(* long as a character is incomplete.                                      *)
LEMMA FeedMoves ==
  ASSUME Typed, ~EndsBroken(Before(offsets.prefix)), ~EndsBroken(Before(offsets.read)),
         NEW token \in Tokens, NEW all, all = Append(ids, token), NEW fed, fed = Feed(all)
  PROVE  /\ all \in Seq(Tokens) /\ Len(all) = Len(ids) + 1
         /\ fed.text \in Texts
         /\ IF EndsBroken(Decode(all)) THEN fed.text = <<>> /\ fed.offsets = offsets
            ELSE /\ fed.offsets = [prefix |-> offsets.read, read |-> Len(all)]
                 /\ Decode(all) = Before(offsets.read) \o fed.text
         /\ \A n \in 0..Len(ids) : SubSeq(all, 1, n) = SubSeq(ids, 1, n)
         /\ \E new \in Texts : Decode(all) = Before(offsets.read) \o new
<1> DEFINE n == offsets.prefix
           m == offsets.read
           window == Decode(SubSeq(all, n + 1, Len(all)))
           old == Decode(SubSeq(all, n + 1, m))
           new == Decode(SubSeq(all, m + 1, Len(all)))
<1>1. /\ ids \in Seq(Tokens) /\ Len(ids) \in Nat /\ n \in Nat /\ m \in Nat /\ n <= m /\ m <= Len(ids)
      /\ all \in Seq(Tokens) /\ Len(all) = Len(ids) + 1
  BY LenProperties, AppendProperties DEF Typed
<1>2. \A i \in Nat \ {0} : \A j \in Nat : j <= Len(ids) => SubSeq(all, i, j) = SubSeq(ids, i, j)
  BY <1>1, AppendKeeps
<1>3. \A j \in 0..Len(ids) : SubSeq(all, 1, j) = SubSeq(ids, 1, j)
  BY <1>1, <1>2
<1>4. SubSeq(all, n + 1, m) = SubSeq(ids, n + 1, m)
  <2> DEFINE k == n + 1
  <2>1. k \in Nat \ {0} /\ m \in Nat /\ m <= Len(ids)
    BY <1>1
  <2> HIDE DEF k, n, m
  <2>2. SubSeq(all, k, m) = SubSeq(ids, k, m)
    BY <1>2, <2>1
  <2> QED
    BY <2>2 DEF k
<1>5. Window(all) = window /\ Fresh(window) = SubSeq(window, Len(old) + 1, Len(window))
  BY <1>4 DEF Window, Fresh
<1>6. Before(n) = Decode(SubSeq(all, 1, n)) /\ Before(m) = Decode(SubSeq(all, 1, m))
  <2>1. n \in 0..Len(ids) /\ m \in 0..Len(ids)
    BY <1>1
  <2> QED
    BY <1>3, <2>1 DEF Before
<1>7. /\ new \in Texts /\ SubSeq(window, Len(old) + 1, Len(window)) = new
      /\ Decode(all) = Decode(SubSeq(all, 1, m)) \o new
      /\ EndsBroken(Decode(all)) <=> EndsBroken(window)
  <2>0. all \in Seq(Tokens)
    BY <1>1
  <2>1. n \in Nat /\ m \in Nat /\ n <= m /\ m <= Len(all)
    BY <1>1
  <2>2. ~EndsBroken(Decode(SubSeq(all, 1, n))) /\ ~EndsBroken(Decode(SubSeq(all, 1, m)))
    BY <1>6
  <2> HIDE DEF n, m
  <2>3. /\ new \in Texts /\ SubSeq(window, Len(old) + 1, Len(window)) = new
        /\ Decode(all) = Decode(SubSeq(all, 1, m)) \o new
    BY ONLY <2>0, <2>1, <2>2, WindowIs
  <2>4. EndsBroken(Decode(all)) <=> EndsBroken(window)
    BY ONLY <2>0, <2>1, <2>2, WindowIs
  <2> QED
    BY <2>3, <2>4
<1>8. <<>> \in Texts
  BY DEF Texts
<1> HIDE DEF n, window, old, new
<1>9. CASE EndsBroken(window)
  <2>1. fed = [text |-> <<>>, offsets |-> offsets]
    BY <1>5, <1>9 DEF Feed
  <2>2. EndsBroken(Decode(all))
    BY <1>7, <1>9
  <2>3. fed.text = <<>> /\ fed.offsets = offsets /\ Decode(all) = Before(m) \o new
    BY <1>6, <1>7, <2>1
  <2> HIDE DEF m
  <2> QED
    BY <1>1, <1>3, <1>7, <1>8, <2>2, <2>3 DEF m
<1>10. CASE ~EndsBroken(window)
  <2>1. fed = [text |-> Fresh(window), offsets |-> [prefix |-> m, read |-> Len(all)]]
    BY <1>5, <1>10 DEF Feed
  <2>2. ~EndsBroken(Decode(all))
    BY <1>7, <1>10
  <2>3. fed.text = new /\ fed.offsets = [prefix |-> m, read |-> Len(all)]
    BY <1>5, <1>7, <2>1
  <2> QED
    BY <1>1, <1>3, <1>6, <1>7, <2>2, <2>3
<1> QED
  BY <1>9, <1>10

(* The flush decodes what is behind the window. *)
LEMMA FreshIs ==
  ASSUME Typed, ~EndsBroken(Before(offsets.prefix)), ~EndsBroken(Before(offsets.read))
  PROVE  /\ Fresh(Window(ids)) \in Texts
         /\ Decode(ids) = Before(offsets.read) \o Fresh(Window(ids))
<1> DEFINE n == offsets.prefix
           m == offsets.read
           window == Decode(SubSeq(ids, n + 1, Len(ids)))
           old == Decode(SubSeq(ids, n + 1, m))
           new == Decode(SubSeq(ids, m + 1, Len(ids)))
<1>1. ids \in Seq(Tokens) /\ n \in Nat /\ m \in Nat /\ n <= m /\ m <= Len(ids)
  BY DEF Typed
<1>2. Fresh(Window(ids)) = SubSeq(window, Len(old) + 1, Len(window))
  BY DEF Fresh, Window
<1>3. ~EndsBroken(Decode(SubSeq(ids, 1, n))) /\ ~EndsBroken(Decode(SubSeq(ids, 1, m)))
  BY DEF Before
<1> HIDE DEF n, m
<1>4. /\ new \in Texts /\ SubSeq(window, Len(old) + 1, Len(window)) = new
      /\ Decode(ids) = Decode(SubSeq(ids, 1, m)) \o new
  BY <1>1, <1>3, WindowIs
<1> QED
  BY <1>2, <1>4 DEF Before, m

-----------------------------------------------------------------------------
(* Stop strings *)

LEMMA StopsAre ==
  ASSUME Typed
  PROVE  \A stop \in Stops : stop \in Texts /\ Len(stop) \in Nat \ {0}
<1>1. ask.stops \in Seq(Texts)
  BY StreamAssumption DEF Typed, Texts
<1>2. \A stop \in Stops : stop \in Texts /\ stop # <<>>
  BY <1>1 DEF Stops
<1> QED
  BY <1>2, EmptySeq DEF Texts

Agrees(a, m, n, s) == SubSeq(a, m, n) = s <=> \A k \in 1..Len(s) : a[m + k - 1] = s[k]

LEMMA SubSeqIs ==
  ASSUME NEW a \in Texts, NEW s \in Texts, NEW m \in Nat \ {0}, NEW n \in Nat,
         n = m + Len(s) - 1, n <= Len(a)
  PROVE  Agrees(a, m, n, s)
<1> DEFINE b == SubSeq(a, m, n)
<1>1. Len(s) \in Nat /\ Len(a) \in Nat /\ \A i \in 1..Len(a) : a[i] \in Chars
  BY LenProperties, ElementOfSeq DEF Texts
<1>2. \A i \in m..n : a[i] \in Chars
  BY <1>1
<1>3. b \in Texts /\ Len(b) = (IF m <= n THEN n - m + 1 ELSE 0)
      /\ \A i \in 1..(n - m + 1) : b[i] = a[m + i - 1]
  BY <1>2, SubSeqProperties DEF Texts
<1>4. n - m + 1 = Len(s) /\ Len(b) = Len(s)
  BY <1>1, <1>3
<1> HIDE DEF b
<1>5. \A i \in 1..Len(s) : b[i] = a[m + i - 1]
  BY <1>3, <1>4
<1>6. ASSUME \A k \in 1..Len(s) : a[m + k - 1] = s[k] PROVE b = s
  <2>1. \A k \in 1..Len(b) : b[k] = s[k]
    BY <1>4, <1>5, <1>6
  <2> QED
    BY <1>3, <1>4, <2>1, SeqEqual DEF Texts
<1> QED
  BY <1>5, <1>6 DEF b, Agrees

(* A stop string in a text, character by character. *)
LEMMA OccursIs ==
  ASSUME Typed, NEW text \in Texts, NEW stop \in Stops, NEW n \in 1..Len(text)
  PROVE  OccursAt(stop, text, n) <=>
           /\ n + Len(stop) - 1 <= Len(text)
           /\ \A k \in 1..Len(stop) : text[n + k - 1] = stop[k]
<1>1. stop \in Texts /\ Len(stop) \in Nat \ {0} /\ Len(text) \in Nat
  BY StopsAre, LenProperties DEF Texts
<1>2. n \in Nat \ {0} /\ n + Len(stop) - 1 \in Nat
  BY <1>1
<1> QED
  <2>1. CASE n + Len(stop) - 1 <= Len(text)
    <3>1. Agrees(text, n, n + Len(stop) - 1, stop)
      BY <1>1, <1>2, <2>1, SubSeqIs
    <3> QED
      BY <2>1, <3>1 DEF OccursAt, Agrees
  <2>2. CASE ~(n + Len(stop) - 1 <= Len(text))
    BY <2>2 DEF OccursAt
  <2> QED
    BY <2>1, <2>2

LEMMA TailsAre ==
  ASSUME Typed, NEW text \in Texts, NEW n
  PROVE  n \in Tails(text) <=>
           /\ n \in 1..Len(text)
           /\ \E stop \in Stops : n < Len(stop) /\ \A k \in 1..n : stop[k] = text[Len(text) - n + k]
<1>1. Len(text) \in Nat /\ DOMAIN text = 1..Len(text)
  BY LenProperties DEF Texts
<1>2. ASSUME n \in 1..Len(text), NEW stop \in Stops, n < Len(stop)
      PROVE  SubSeq(stop, 1, n) = SubSeq(text, Len(text) - n + 1, Len(text))
               <=> \A k \in 1..n : stop[k] = text[Len(text) - n + k]
  <2> DEFINE s == SubSeq(stop, 1, n)
             m == Len(text) - n + 1
  <2>1. stop \in Texts /\ Len(stop) \in Nat /\ n \in Nat /\ m \in Nat \ {0}
    BY <1>1, <1>2, StopsAre
  <2>2. \A i \in 1..n : stop[i] \in Chars
    BY <1>2, <2>1, ElementOfSeq DEF Texts
  <2>3. s \in Texts /\ Len(s) = n /\ \A i \in 1..n : s[i] = stop[i]
    <3>1. s \in Texts /\ Len(s) = (IF 1 <= n THEN n - 1 + 1 ELSE 0)
          /\ \A i \in 1..(n - 1 + 1) : s[i] = stop[1 + i - 1]
      BY <2>1, <2>2, SubSeqProperties DEF Texts
    <3> QED
      BY <1>2, <2>1, <3>1
  <2> HIDE DEF s
  <2>4. Len(text) = m + Len(s) - 1
    BY <1>1, <2>1, <2>3
  <2>5. \A k \in 1..n : m + k - 1 = Len(text) - n + k
    BY <1>1, <2>1
  <2> HIDE DEF m
  <2>6. SubSeq(text, m, Len(text)) = s <=> \A k \in 1..Len(s) : text[m + k - 1] = s[k]
    <3> DEFINE l == Len(text)
    <3>1. l \in Nat /\ l <= Len(text) /\ l = m + Len(s) - 1
      BY <1>1, <2>4
    <3>2. s \in Texts /\ m \in Nat \ {0}
      BY <2>1, <2>3
    <3> HIDE DEF l
    <3>3. Agrees(text, m, l, s)
      BY <3>1, <3>2, SubSeqIs
    <3> QED
      BY <3>3 DEF l, Agrees
  <2>7. SubSeq(text, m, Len(text)) = s <=> \A k \in 1..n : text[Len(text) - n + k] = stop[k]
    BY <2>3, <2>5, <2>6
  <2> QED
    BY <2>7 DEF s, m
<1> QED
  BY <1>1, <1>2 DEF Tails

(* What is held back is in front of the new text; nothing that was         *)
(* released takes part in a stop string any more.                          *)
LEMMA HitsMove ==
  ASSUME Typed, NEW e \in Texts, NEW p \in Texts, NEW f \in Texts,
         ~HasStop(e \o p), \A n \in Tails(e \o p) : n <= Len(p)
  PROVE  \A n \in 1..Len(e \o (p \o f)) :
           n \in Hits(e \o (p \o f)) <=> n > Len(e) /\ n - Len(e) \in Hits(p \o f)
<1> DEFINE t == e \o (p \o f)
           u == p \o f
           o == e \o p
           le == Len(e)
           lp == Len(p)
           lf == Len(f)
<1>1. /\ u \in Texts /\ t \in Texts /\ o \in Texts
      /\ le \in Nat /\ lp \in Nat /\ lf \in Nat
      /\ Len(u) = lp + lf /\ Len(t) = le + lp + lf /\ Len(o) = le + lp
  BY LenProperties, ConcatProperties DEF Texts
<1>2. \A i \in 1..(lp + lf) : u[i] = IF i <= lp THEN p[i] ELSE f[i - lp]
  BY ConcatProperties DEF Texts
<1>3. \A i \in 1..(le + lp + lf) : t[i] = IF i <= le THEN e[i] ELSE u[i - le]
  BY <1>1, ConcatProperties DEF Texts
<1>4. \A i \in 1..(le + lp) : o[i] = IF i <= le THEN e[i] ELSE p[i - le]
  BY ConcatProperties DEF Texts
<1>5. DOMAIN t = 1..Len(t) /\ DOMAIN u = 1..Len(u) /\ DOMAIN o = 1..Len(o)
  BY <1>1, LenProperties DEF Texts
<1>6. ~HasStop(o) /\ \A n \in Tails(o) : n <= lp
  OBVIOUS
<1> HIDE DEF t, u, o, le, lp, lf
<1>7. \A i \in 1..(le + lp) : t[i] = o[i]
  <2> SUFFICES ASSUME NEW i \in 1..(le + lp) PROVE t[i] = o[i]
    OBVIOUS
  <2>1. i <= le \/ (i - le \in 1..(lp + lf) /\ i - le <= lp)
    BY <1>1
  <2>2. i \in 1..(le + lp + lf)
    BY <1>1
  <2> QED
    BY <1>2, <1>3, <1>4, <2>1, <2>2
<1>8. ASSUME NEW n \in 1..Len(t), n <= le PROVE n \notin Hits(t)
  <2> SUFFICES ASSUME NEW stop \in Stops, OccursAt(stop, t, n) PROVE FALSE
    BY <1>5 DEF Hits
  <2> DEFINE l == Len(stop)
  <2>1. l \in Nat \ {0} /\ n + l - 1 <= Len(t) /\ \A k \in 1..l : t[n + k - 1] = stop[k]
    BY <1>1, StopsAre, OccursIs
  <2> HIDE DEF l
  <2>2. CASE n + l - 1 <= le + lp
    <3>1. n \in 1..Len(o)
      BY <1>1, <1>8
    <3>2. \A k \in 1..l : o[n + k - 1] = stop[k]
      <4>1. \A k \in 1..l : n + k - 1 \in 1..(le + lp)
        BY <1>1, <2>1, <2>2
      <4> QED
        BY <1>7, <2>1, <4>1
    <3>3. OccursAt(stop, o, n)
      BY <1>1, <2>2, <3>1, <3>2, OccursIs DEF l
    <3> QED
      BY <1>5, <1>6, <3>1, <3>3 DEF HasStop, Hits
  <2>3. CASE n + l - 1 > le + lp
    <3> DEFINE j == le + lp - n + 1
    <3>1. j \in 1..Len(o) /\ j < l /\ j > lp
      BY <1>1, <1>8, <2>1, <2>3
    <3>2. \A k \in 1..j : stop[k] = o[Len(o) - j + k]
      <4>1. \A k \in 1..j : k \in 1..l /\ n + k - 1 \in 1..(le + lp) /\ Len(o) - j + k = n + k - 1
        BY <1>1, <1>8, <2>1, <2>3
      <4> QED
        BY <1>7, <2>1, <4>1
    <3> HIDE DEF j
    <3>3. j \in Tails(o)
      BY <1>1, <3>1, <3>2, TailsAre DEF l
    <3> QED
      BY <1>1, <1>6, <3>1, <3>3
  <2> QED
    BY <1>1, <2>1, <2>2, <2>3
<1>9. ASSUME NEW n \in 1..Len(t), n > le
      PROVE  n \in Hits(t) <=> n - le \in Hits(u)
  <2> DEFINE m == n - le
  <2>1. m \in 1..Len(u) /\ n = le + m
    BY <1>1, <1>9
  <2> HIDE DEF m
  <2>2. ASSUME NEW stop \in Stops PROVE OccursAt(stop, t, n) <=> OccursAt(stop, u, m)
    <3> DEFINE l == Len(stop)
    <3>1. l \in Nat \ {0}
      BY StopsAre
    <3>2. OccursAt(stop, t, n) <=> n + l - 1 <= Len(t) /\ \A k \in 1..l : t[n + k - 1] = stop[k]
      BY <1>1, OccursIs
    <3>3. OccursAt(stop, u, m) <=> m + l - 1 <= Len(u) /\ \A k \in 1..l : u[m + k - 1] = stop[k]
      BY <1>1, <2>1, OccursIs
    <3> HIDE DEF l
    <3>4. n + l - 1 <= Len(t) <=> m + l - 1 <= Len(u)
      BY <1>1, <2>1, <3>1
    <3>5. ASSUME m + l - 1 <= Len(u), NEW k \in 1..l PROVE t[n + k - 1] = u[m + k - 1]
      <4> DEFINE i == n + k - 1
      <4>1. i \in 1..(le + lp + lf) /\ ~(i <= le) /\ i - le = m + k - 1
        BY <1>1, <2>1, <3>1, <3>5
      <4> HIDE DEF i
      <4>2. t[i] = u[m + k - 1]
        BY <1>3, <4>1
      <4> QED
        BY <4>2 DEF i
    <3> QED
      BY <3>2, <3>3, <3>4, <3>5
  <2>3. n \in Hits(t) <=> m \in Hits(u)
    BY <1>5, <2>1, <2>2 DEF Hits
  <2> QED
    BY <2>3 DEF m
<1>10. \A n \in 1..Len(t) : n \in Hits(t) <=> n > le /\ n - le \in Hits(u)
  BY <1>1, <1>8, <1>9
<1> QED
  BY <1>10 DEF t, u, le

(* ... nor does what it ends in. *)
LEMMA TailsMove ==
  ASSUME Typed, NEW e \in Texts, NEW p \in Texts, NEW f \in Texts,
         \A n \in Tails(e \o p) : n <= Len(p)
  PROVE  \A n \in Tails(e \o (p \o f)) : n <= Len(p \o f) /\ n \in Tails(p \o f)
<1> DEFINE t == e \o (p \o f)
           u == p \o f
           o == e \o p
           le == Len(e)
           lp == Len(p)
           lf == Len(f)
<1>1. /\ u \in Texts /\ t \in Texts /\ o \in Texts
      /\ le \in Nat /\ lp \in Nat /\ lf \in Nat
      /\ Len(u) = lp + lf /\ Len(t) = le + lp + lf /\ Len(o) = le + lp
  BY LenProperties, ConcatProperties DEF Texts
<1>2. \A i \in 1..(lp + lf) : u[i] = IF i <= lp THEN p[i] ELSE f[i - lp]
  BY ConcatProperties DEF Texts
<1>3. \A i \in 1..(le + lp + lf) : t[i] = IF i <= le THEN e[i] ELSE u[i - le]
  BY <1>1, ConcatProperties DEF Texts
<1>4. \A i \in 1..(le + lp) : o[i] = IF i <= le THEN e[i] ELSE p[i - le]
  BY ConcatProperties DEF Texts
<1>5. \A n \in Tails(o) : n <= lp
  OBVIOUS
<1> HIDE DEF t, u, o, le, lp, lf
<1>6. \A i \in 1..(le + lp) : t[i] = o[i]
  <2> SUFFICES ASSUME NEW i \in 1..(le + lp) PROVE t[i] = o[i]
    OBVIOUS
  <2>1. i <= le \/ (i - le \in 1..(lp + lf) /\ i - le <= lp)
    BY <1>1
  <2>2. i \in 1..(le + lp + lf)
    BY <1>1
  <2> QED
    BY <1>2, <1>3, <1>4, <2>1, <2>2
<1>7. ASSUME NEW n \in Tails(t) PROVE n <= Len(u) /\ n \in Tails(u)
  <2>1. n \in 1..Len(t)
        /\ \E stop \in Stops : n < Len(stop) /\ \A k \in 1..n : stop[k] = t[Len(t) - n + k]
    BY <1>1, <1>7, TailsAre
  <2>2. PICK stop \in Stops : n < Len(stop) /\ \A k \in 1..n : stop[k] = t[Len(t) - n + k]
    BY <2>1
  <2>3. Len(stop) \in Nat
    BY StopsAre
  <2>4. CASE n > lp + lf
    <3> DEFINE j == n - lf
    <3>1. j \in 1..Len(o) /\ j < Len(stop) /\ j > lp
      BY <1>1, <2>1, <2>2, <2>3, <2>4
    <3>2. \A k \in 1..j : stop[k] = o[Len(o) - j + k]
      <4>1. \A k \in 1..j : k \in 1..n /\ Len(o) - j + k \in 1..(le + lp) /\ Len(o) - j + k = Len(t) - n + k
        BY <1>1, <2>1, <2>4
      <4> QED
        BY <1>6, <2>2, <4>1
    <3> HIDE DEF j
    <3>3. j \in Tails(o)
      BY <1>1, <2>2, <3>1, <3>2, TailsAre
    <3> QED
      BY <1>1, <1>5, <3>1, <3>3
  <2>5. CASE ~(n > lp + lf)
    <3>1. n \in 1..Len(u) /\ n <= Len(u)
      BY <1>1, <2>1, <2>5
    <3>2. \A k \in 1..n : stop[k] = u[Len(u) - n + k]
      <4> SUFFICES ASSUME NEW k \in 1..n PROVE stop[k] = u[Len(u) - n + k]
        OBVIOUS
      <4> DEFINE i == Len(t) - n + k
      <4>1. i \in 1..(le + lp + lf) /\ ~(i <= le) /\ i - le = Len(u) - n + k
        BY <1>1, <2>1, <2>5
      <4>2. stop[k] = t[i]
        BY <2>2
      <4> HIDE DEF i
      <4> QED
        BY <1>3, <4>1, <4>2
    <3> QED
      BY <1>1, <2>2, <3>1, <3>2, TailsAre
  <2> QED
    BY <2>4, <2>5
<1> QED
  BY <1>7 DEF t, u

(* The first stop string, and the longest possible start of one at the end. *)
LEMMA HitsBound ==
  ASSUME NEW text \in Texts, HasStop(text)
  PROVE  /\ EarliestStop(text) \in 1..Len(text) /\ EarliestStop(text) \in Hits(text)
         /\ \A n \in Hits(text) : EarliestStop(text) <= n
<1>1. Hits(text) \subseteq 1..Len(text) /\ Hits(text) # {}
  BY LenProperties DEF Hits, HasStop, Texts
<1>2. Hits(text) \in SUBSET Nat
  BY <1>1
<1> QED
  BY <1>1, <1>2, MinExists DEF EarliestStop

LEMMA UnsafeTail ==
  ASSUME NEW text \in Texts
  PROVE  /\ UnsafeTailLen(text) \in 0..Len(text)
         /\ \A n \in Tails(text) : n <= UnsafeTailLen(text)
<1> DEFINE T == {0} \cup Tails(text)
<1>1. Len(text) \in Nat /\ Tails(text) \subseteq 1..Len(text)
  BY LenProperties DEF Tails, Texts
<1>2. T \in SUBSET (0..Len(text)) /\ T # {}
  BY <1>1
<1>3. Max(T) \in T /\ \A n \in T : n <= Max(T)
  BY <1>1, <1>2, MaxExists
<1> QED
  BY <1>2, <1>3 DEF UnsafeTailLen

Regrouped(a, b, c) == (a \o b) \o c = a \o (b \o c) /\ a \o b \in Texts /\ b \o c \in Texts

LEMMA Regroup ==
  ASSUME NEW a \in Texts, NEW b \in Texts, NEW c \in Texts
  PROVE  Regrouped(a, b, c)
  BY ConcatAssociative, ConcatProperties DEF Texts, Regrouped

(* A text cut in two goes on from what was sent. *)
LEMMA CutJoin ==
  ASSUME NEW e \in Texts, NEW u \in Texts, NEW n \in 0..Len(u)
  PROVE  /\ (e \o SubSeq(u, 1, n)) \o SubSeq(u, n + 1, Len(u)) = e \o u
         /\ e \o SubSeq(u, 1, n) \in Texts
         /\ SubSeq(e \o u, 1, Len(e) + n) = e \o SubSeq(u, 1, n)
<1>1. \E a \in Texts, b \in Texts : a = SubSeq(u, 1, n) /\ b = SubSeq(u, n + 1, Len(u)) /\ a \o b = u /\ Len(a) = n
  BY TwoHalves DEF Texts
<1>2. PICK a \in Texts, b \in Texts : a = SubSeq(u, 1, n) /\ b = SubSeq(u, n + 1, Len(u)) /\ a \o b = u /\ Len(a) = n
  BY <1>1
<1>3. (e \o a) \o b = e \o (a \o b)
  <2>1. Regrouped(e, a, b)
    BY Regroup
  <2> QED
    BY <2>1 DEF Regrouped
<1>4. e \o a \in Texts /\ Len(e \o a) = Len(e) + n
  BY <1>2, ConcatProperties DEF Texts
<1>5. SubSeq((e \o a) \o b, 1, Len(e \o a)) = e \o a
  BY <1>4, EndsOf DEF Texts
<1>6. (e \o a) \o b = e \o u
  BY <1>2, <1>3
<1>7. SubSeq(e \o u, 1, Len(e) + n) = e \o a
  BY <1>4, <1>5, <1>6
<1> QED
  BY <1>2, <1>4, <1>6, <1>7

LEMMA ConsumeIs ==
  ASSUME NEW u
  PROVE  /\ HasStop(u) =>
              /\ Consume(u).text = SubSeq(u, 1, EarliestStop(u) - 1)
              /\ Consume(u).pending = <<>> /\ Consume(u).stopped = TRUE
         /\ ~HasStop(u) =>
              /\ Consume(u).text = SubSeq(u, 1, Len(u) - UnsafeTailLen(u))
              /\ Consume(u).pending = SubSeq(u, (Len(u) - UnsafeTailLen(u)) + 1, Len(u))
              /\ Consume(u).stopped = FALSE
<1>1. CASE HasStop(u)
  BY <1>1, Zenon DEF Consume, UpToStop
<1>2. CASE ~HasStop(u)
  BY <1>2, Zenon DEF Consume
<1> QED
  BY <1>1, <1>2

(* The outcome of a search of t, the text behind e and with it. *)
Searched(e, t, found) ==
  /\ t \in Texts
  /\ found.text \in Texts /\ found.pending \in Texts /\ found.stopped \in BOOLEAN
  /\ found.stopped <=> HasStop(t)
  /\ found.stopped => e \o found.text = UpToStop(t)
  /\ ~found.stopped => /\ (e \o found.text) \o found.pending = t
                       /\ \A n \in Tails(t) : n <= Len(found.pending)

(* What is searched is only what was held back and the new text, yet the   *)
(* outcome is the one for the whole text.                                  *)
LEMMA ConsumeMoves ==
  ASSUME Typed, NEW e \in Texts, NEW p \in Texts, NEW f \in Texts,
         ~HasStop(e \o p), \A n \in Tails(e \o p) : n <= Len(p),
         NEW t, t = e \o (p \o f), NEW found, found = Consume(p \o f)
  PROVE  Searched(e, t, found)
<1> USE DEF Searched
<1> DEFINE u == p \o f
           le == Len(e)
<1>1. /\ u \in Texts /\ t \in Texts /\ le \in Nat /\ Len(u) \in Nat /\ Len(t) = le + Len(u)
      /\ Hits(u) \subseteq 1..Len(u) /\ Hits(t) \subseteq 1..Len(t)
      /\ \A i \in 1..(le + Len(u)) : t[i] = IF i <= le THEN e[i] ELSE u[i - le]
  <2>1. u \in Texts
    BY ConcatProperties DEF Texts
  <2> HIDE DEF u
  <2>2. t = e \o u
    BY DEF u
  <2> QED
    BY <2>1, <2>2, LenProperties, ConcatProperties DEF Texts, Hits
<1>2. \A n \in 1..Len(t) : n \in Hits(t) <=> n > le /\ n - le \in Hits(u)
  BY HitsMove
<1>3. \A n \in Tails(t) : n <= Len(u) /\ n \in Tails(u)
  BY TailsMove
<1>4. t = e \o u /\ found = Consume(u)
  OBVIOUS
<1> HIDE DEF u, le
<1>5. \A i \in Hits(u) : le + i \in Hits(t)
  <2> SUFFICES ASSUME NEW i \in Hits(u) PROVE le + i \in Hits(t)
    OBVIOUS
  <2> DEFINE n == le + i
  <2>1. n \in 1..Len(t) /\ n > le /\ n - le = i
    BY <1>1
  <2> HIDE DEF n
  <2>2. n \in Hits(t)
    BY <1>2, <2>1
  <2> QED
    BY <2>2 DEF n
<1>6. \A j \in Hits(t) : j > le /\ j - le \in Hits(u)
  BY <1>1, <1>2
<1>7. HasStop(t) <=> HasStop(u)
  BY <1>5, <1>6 DEF HasStop
<1>8. CASE HasStop(u)
  <2> DEFINE i == EarliestStop(u)
             j == EarliestStop(t)
  <2>1. i \in 1..Len(u) /\ i \in Hits(u) /\ \A n \in Hits(u) : i <= n
    BY <1>1, <1>8, HitsBound
  <2>2. j \in 1..Len(t) /\ j \in Hits(t) /\ \A n \in Hits(t) : j <= n
    BY <1>1, <1>7, <1>8, HitsBound
  <2> HIDE DEF i, j
  <2>3. j = le + i
    <3>1. j <= le + i
      BY <1>5, <2>1, <2>2
    <3>2. i <= j - le
      BY <1>6, <2>1, <2>2
    <3> QED
      BY <1>1, <2>1, <2>2, <3>1, <3>2
  <2> DEFINE n == i - 1
  <2>4. n \in 0..Len(u) /\ le + n = j - 1
    BY <1>1, <2>1, <2>3
  <2>5. found.text = SubSeq(u, 1, n) /\ found.pending = <<>> /\ found.stopped = TRUE
    BY <1>4, <1>8, ConsumeIs DEF i
  <2> HIDE DEF n
  <2>6. SubSeq(u, 1, n) \in Texts /\ SubSeq(t, 1, le + n) = e \o SubSeq(u, 1, n)
    BY <1>1, <1>4, <2>4, CutJoin, TwoHalves DEF Texts, le
  <2>7. UpToStop(t) = SubSeq(t, 1, j - 1)
    BY <1>7, <1>8 DEF UpToStop, j
  <2>8. <<>> \in Texts
    BY DEF Texts
  <2> QED
    BY <1>1, <1>7, <1>8, <2>4, <2>5, <2>6, <2>7, <2>8
<1>9. CASE ~HasStop(u)
  <2> DEFINE k == UnsafeTailLen(u)
             safe == Len(u) - k
             x == SubSeq(u, 1, safe)
             y == SubSeq(u, safe + 1, Len(u))
  <2>1. k \in 0..Len(u) /\ \A n \in Tails(u) : n <= k
    BY <1>1, UnsafeTail
  <2>2. found.text = x /\ found.pending = y /\ found.stopped = FALSE
    BY <1>4, <1>9, ConsumeIs
  <2> HIDE DEF k
  <2>3. safe \in 0..Len(u) /\ Len(u) - safe = k
    BY <1>1, <2>1
  <2> HIDE DEF safe
  <2>4. x \in Texts /\ y \in Texts /\ Len(y) = k /\ x \o y = u
    BY <1>1, <2>3, TwoHalves DEF Texts
  <2>5. (e \o x) \o y = t
    BY <1>1, <1>4, <2>3, CutJoin
  <2> HIDE DEF x, y
  <2>6. \A n \in Tails(t) : n <= k
    BY <1>3, <2>1
  <2> QED
    BY <1>1, <1>7, <1>9, <2>2, <2>4, <2>5, <2>6 DEF u
<1> QED
  BY <1>8, <1>9

-----------------------------------------------------------------------------
(* The checks of the handler *)

\* A check that fails never answers 200, and two of them are what the engine asks for.
Sound(a, list) ==
  /\ \A n \in DOMAIN list : list[n].status \in {400, 404, 422}
  /\ \E n \in DOMAIN list : list[n].ok = (a.prompt > 0)
  /\ \E n \in DOMAIN list : list[n].ok = Admissible(a)

LEMMA ChatSound ==
  ASSUME NEW a
  PROVE  Sound(a, ChatChecks(a)) /\ \E S : ChatChecks(a) \in Seq(S)
<1> DEFINE c == ChatChecks(a)
<1>1. /\ DOMAIN c = 1..7 /\ c[1].status = 422 /\ c[2].status = 422 /\ c[3].status = 404
      /\ c[4].status = 400 /\ c[5].status = 400 /\ c[6].status = 400 /\ c[7].status = 400
      /\ c[4].ok = (a.prompt > 0) /\ c[7].ok = Admissible(a) /\ Len(c) = 7
  BY DEF ChatChecks, Check, CheckModel, CheckTemplate, CheckSampling, CheckStops, CheckCapacity
<1>2. c \in Seq({c[n] : n \in DOMAIN c})
  BY DEF ChatChecks
<1> HIDE DEF c
<1>3. \A n \in 1..7 : n = 1 \/ n = 2 \/ n = 3 \/ n = 4 \/ n = 5 \/ n = 6 \/ n = 7
  OBVIOUS
<1>4. Sound(a, c)
  BY <1>1, <1>3 DEF Sound
<1> QED
  BY <1>2, <1>4 DEF c

LEMMA CompletionSound ==
  ASSUME NEW a
  PROVE  Sound(a, CompletionChecks(a)) /\ \E S : CompletionChecks(a) \in Seq(S)
<1> DEFINE c == CompletionChecks(a)
<1>1. /\ DOMAIN c = 1..7 /\ c[1].status = 422 /\ c[2].status = 404 /\ c[3].status = 400
      /\ c[4].status = 400 /\ c[5].status = 400 /\ c[6].status = 400 /\ c[7].status = 400
      /\ c[4].ok = (a.prompt > 0) /\ c[7].ok = Admissible(a) /\ Len(c) = 7
  BY DEF CompletionChecks, Check, CheckModel, CheckEncoded, CheckSampling, CheckStops, CheckCapacity
<1>2. c \in Seq({c[n] : n \in DOMAIN c})
  BY DEF CompletionChecks
<1> HIDE DEF c
<1>3. \A n \in 1..7 : n = 1 \/ n = 2 \/ n = 3 \/ n = 4 \/ n = 5 \/ n = 6 \/ n = 7
  OBVIOUS
<1>4. Sound(a, c)
  BY <1>1, <1>3 DEF Sound
<1> QED
  BY <1>2, <1>4 DEF c

LEMMA ResponsesSound ==
  ASSUME NEW a
  PROVE  Sound(a, ResponsesChecks(a)) /\ \E S : ResponsesChecks(a) \in Seq(S)
<1> DEFINE c == ResponsesChecks(a)
<1>1. /\ DOMAIN c = 1..6 /\ c[1].status = 422 /\ c[2].status = 404 /\ c[3] = CheckInput(a)
      /\ c[4].status = 400 /\ c[5].status = 400 /\ c[6].status = 400
      /\ c[6].ok = Admissible(a) /\ Len(c) = 6
  BY DEF ResponsesChecks, Check, CheckModel, CheckSampling, CheckStops, CheckCapacity
<1>2. CheckInput(a).status = 400 /\ CheckInput(a).ok = (a.prompt > 0)
  BY DEF CheckInput, CheckTemplate, CheckEncoded, Check
<1>3. c \in Seq({c[n] : n \in DOMAIN c})
  BY DEF ResponsesChecks
<1> HIDE DEF c
<1>4. \A n \in 1..6 : n = 1 \/ n = 2 \/ n = 3 \/ n = 4 \/ n = 5 \/ n = 6
  OBVIOUS
<1>5. Sound(a, c)
  BY <1>1, <1>2, <1>4 DEF Sound
<1> QED
  BY <1>3, <1>5 DEF c

(* A request that is answered 200 passed every check. *)
LEMMA AcceptedPasses ==
  ASSUME NEW a \in Asks, Status(a) = 200
  PROVE  WellFormed(a) /\ a.prompt > 0 /\ Admissible(a)
<1> DEFINE first == Check(WellFormed(a), 422)
           checks == Checks(a)
           failed == {n \in DOMAIN checks : ~checks[n].ok}
<1>1. PICK rest : checks = <<first>> \o rest /\ Sound(a, rest) /\ \E S : rest \in Seq(S)
  <2>1. a.endpoint \in {"chat", "text", "responses"}
    BY StreamAssumption
  <2> HIDE DEF first
  <2>2. CASE a.endpoint = "chat"
    BY <2>2, ChatSound DEF Checks, first
  <2>3. CASE a.endpoint = "text"
    BY <2>3, CompletionSound DEF Checks, first
  <2>4. CASE a.endpoint = "responses"
    BY <2>4, ResponsesSound DEF Checks, first
  <2> QED
    BY <2>1, <2>2, <2>3, <2>4
<1>2. first.ok = WellFormed(a) /\ first.status = 422
  BY DEF Check
<1>3. PICK S : rest \in Seq(S)
  BY <1>1
<1>4. /\ Len(rest) \in Nat /\ DOMAIN rest = 1..Len(rest) /\ DOMAIN checks = 1..(Len(rest) + 1)
      /\ checks[1] = first /\ \A n \in 1..Len(rest) : checks[n + 1] = rest[n]
  <2> DEFINE T == S \cup {first}
  <2>1. /\ <<first>> \in Seq(T) /\ Len(<<first>>) = 1 /\ <<first>>[1] = first
        /\ rest \in Seq(T) /\ Len(rest) \in Nat /\ DOMAIN rest = 1..Len(rest)
    BY <1>3, LenProperties
  <2> HIDE DEF first, T, checks
  <2>2. /\ checks \in Seq(T) /\ Len(checks) = 1 + Len(rest)
        /\ \A n \in 1..(1 + Len(rest)) : checks[n] = IF n <= 1 THEN <<first>>[n] ELSE rest[n - 1]
    BY <1>1, <2>1, EndToEnd
  <2>3. DOMAIN checks = 1..(Len(rest) + 1)
    BY <2>1, <2>2, LenProperties
  <2>4. checks[1] = first
    BY <2>1, <2>2
  <2>5. ASSUME NEW n \in 1..Len(rest) PROVE checks[n + 1] = rest[n]
    <3> DEFINE k == n + 1
    <3>1. k \in 1..(1 + Len(rest)) /\ ~(k <= 1) /\ k - 1 = n
      BY <2>1
    <3> HIDE DEF k
    <3>2. checks[k] = rest[n]
      BY <2>2, <3>1
    <3> QED
      BY <3>2 DEF k
  <2> QED
    BY <2>1, <2>3, <2>4, <2>5
<1> HIDE DEF first, checks
<1>5. failed = {}
  <2> SUFFICES ASSUME failed # {} PROVE FALSE
    OBVIOUS
  <2>1. failed \in SUBSET Nat
    BY <1>4
  <2>2. Min(failed) \in failed
    <3> HIDE DEF failed
    <3> QED
      BY <2>1, MinExists
  <2>3. Status(a) = checks[Min(failed)].status
    BY DEF Status, checks
  <2> DEFINE k == Min(failed)
  <2>4. k \in 1..(Len(rest) + 1)
    BY <1>4, <2>2
  <2> HIDE DEF k
  <2>5. k = 1 \/ (k - 1 \in 1..Len(rest) /\ k = (k - 1) + 1)
    BY <1>4, <2>4
  <2>6. checks[k].status \in {400, 404, 422}
    <3>1. CASE k = 1
      BY <1>2, <1>4, <3>1
    <3>2. CASE k # 1
      <4>1. checks[k] = rest[k - 1] /\ k - 1 \in DOMAIN rest
        BY <1>4, <2>5, <3>2
      <4>2. \A n \in DOMAIN rest : rest[n].status \in {400, 404, 422}
        BY <1>1 DEF Sound
      <4>3. rest[k - 1].status \in {400, 404, 422}
        BY <4>1, <4>2
      <4> QED
        BY ONLY <4>1, <4>3
    <3> QED
      BY <3>1, <3>2
  <2> QED
    BY <2>3, <2>6 DEF k
<1>6. \A n \in DOMAIN checks : checks[n].ok
  BY <1>5
<1>7. 1 \in DOMAIN checks /\ \A n \in DOMAIN rest : n + 1 \in DOMAIN checks /\ checks[n + 1] = rest[n]
  BY <1>4
<1>8. \A n \in DOMAIN rest : rest[n].ok
  BY <1>6, <1>7
<1>9. a.prompt > 0
  <2>1. PICK n \in DOMAIN rest : rest[n].ok = (a.prompt > 0)
    BY <1>1 DEF Sound
  <2> QED
    BY <1>8, <2>1
<1>10. Admissible(a)
  <2>1. PICK n \in DOMAIN rest : rest[n].ok = Admissible(a)
    BY <1>1 DEF Sound
  <2> QED
    BY <1>8, <2>1
<1>11. WellFormed(a)
  BY <1>2, <1>4, <1>6, <1>7
<1> QED
  BY <1>9, <1>10, <1>11

LEMMA AcceptedSound ==
  ASSUME IInv
  PROVE  AcceptedIsTaken
<1> SUFFICES ASSUME phase = "open", ~EngineTakes(ask) PROVE ask.group /\ ~PrefixCaching
  BY DEF AcceptedIsTaken
<1>1. WellFormed(ask) /\ ask.prompt > 0 /\ Admissible(ask)
  BY AcceptedPasses DEF IInv, Accepted, Typed
<1>2. ~(ask.group => PrefixCaching)
  BY <1>1 DEF EngineTakes, WellFormed, Admissible
<1> QED
  BY <1>2

-----------------------------------------------------------------------------
(* The invariant holds in every state *)

(* The parts about the text in the next state, when the body is the same. *)
LEMMA TextPrimed ==
  ASSUME ask' = ask
  PROVE  /\ Held' <=> (~stopped' /\ phase' # "ended" =>
                         /\ ~HasStop(emitted' \o pending')
                         /\ \A n \in Tails(emitted' \o pending') : n <= Len(pending'))
         /\ Concluded' <=> /\ stopped' => emitted' = UpToStop(Decode(ids'))
                           /\ ~stopped' /\ phase' = "ended" =>
                                /\ emitted' = Decode(ids') /\ pending' = <<>>
                                /\ HasStop(Decode(ids')) => EndsBroken(Decode(ids'))
         /\ Seams' <=> (phase' # "ended" =>
                          /\ ~EndsBroken(Decode(SubSeq(ids', 1, offsets'.prefix)))
                          /\ ~EndsBroken(Decode(SubSeq(ids', 1, offsets'.read)))
                          /\ ~stopped' => emitted' \o pending' = Decode(SubSeq(ids', 1, offsets'.read))
                          /\ offsets'.read < Len(ids') => EndsBroken(Decode(ids')))
<1>1. Held' <=> (~stopped' /\ phase' # "ended" =>
                         /\ ~HasStop(emitted' \o pending')
                         /\ \A n \in Tails(emitted' \o pending') : n <= Len(pending'))
  BY DEF Held, HasStop, Hits, OccursAt, Tails, Stops
<1>2. Concluded' <=> /\ stopped' => emitted' = UpToStop(Decode(ids'))
                     /\ ~stopped' /\ phase' = "ended" =>
                          /\ emitted' = Decode(ids') /\ pending' = <<>>
                          /\ HasStop(Decode(ids')) => EndsBroken(Decode(ids'))
  BY DEF Concluded, UpToStop, EarliestStop, HasStop, Hits, OccursAt, Stops
<1>3. Seams' <=> (phase' # "ended" =>
                          /\ ~EndsBroken(Decode(SubSeq(ids', 1, offsets'.prefix)))
                          /\ ~EndsBroken(Decode(SubSeq(ids', 1, offsets'.read)))
                          /\ ~stopped' => emitted' \o pending' = Decode(SubSeq(ids', 1, offsets'.read))
                          /\ offsets'.read < Len(ids') => EndsBroken(Decode(ids')))
  BY DEF Seams, Before
<1> QED
  BY <1>1, <1>2, <1>3

LEMMA TextKept ==
  ASSUME Seams, Held, Concluded, ask' = ask, detok' = detok, phase # "ended", phase' # "ended"
  PROVE  Seams' /\ Held' /\ Concluded'
<1>1. /\ ids' = ids /\ offsets' = offsets /\ pending' = pending
      /\ stopped' = stopped /\ finish' = finish /\ emitted' = emitted
  BY DEF detok
<1>2. Seams'
  BY <1>1, TextPrimed DEF Seams, Before
<1>3. Held'
  BY <1>1, TextPrimed DEF Held
<1>4. Concluded'
  BY <1>1, TextPrimed DEF Concluded
<1> QED
  BY <1>2, <1>3, <1>4

LEMMA InitIInv == Init => IInv
<1> SUFFICES ASSUME Init PROVE IInv
  OBVIOUS
<1> USE DEF Init
<1>1. Typed
  <2>1. metrics \in [requests : Nat, tokens : Nat, latencies : Nat, stop : Nat, length : Nat]
    BY DEF NoMetrics
  <2>2. pending \in Texts /\ emitted \in Texts /\ queue \in Seq(Items) /\ ids \in Seq(Tokens) /\ wire \in Seq(Events)
    BY DEF Texts
  <2>3. offsets \in [prefix : Nat, read : Nat] /\ offsets.prefix <= offsets.read /\ offsets.read <= Len(ids)
    OBVIOUS
  <2> QED
    BY <2>1, <2>2, <2>3 DEF Typed
<1>2. Before(0) = <<>> /\ Decode(ids) = <<>>
  <2>1. SubSeq(<<>>, 1, 0) = <<>>
    OBVIOUS
  <2> QED
    BY <2>1, NothingDecoded DEF Before
<1>3. Seams
  BY <1>2, NothingDecoded DEF Seams
<1>4. Held
  BY DEF Held, HasStop, Hits, Tails
<1>5. Concluded
  BY DEF Concluded
<1>6. Counted
  BY DEF Counted, CountedOnce, Completions, NoMetrics
<1>7. Accepted
  BY DEF Accepted
<1> QED
  BY <1>1, <1>3, <1>4, <1>5, <1>6, <1>7 DEF IInv

(* What is put on the wire: nothing but the last events names a reason. *)
Silent(events) == \A n \in DOMAIN events : events[n].type # "finish"

Says(events, reason) == \A n \in DOMAIN events : events[n].type = "finish" => events[n].text = reason

LEMMA WiresJoin ==
  ASSUME NEW s \in Seq(Events), NEW t \in Seq(Events)
  PROVE  /\ s \o t \in Seq(Events)
         /\ Silent(s) /\ Silent(t) => Silent(s \o t)
         /\ \A reason : Says(s, reason) /\ Says(t, reason) => Says(s \o t, reason)
<1> DEFINE w == s \o t
           m == Len(s)
           n == Len(t)
<1>1. /\ w \in Seq(Events) /\ m \in Nat /\ n \in Nat /\ DOMAIN w = 1..(m + n)
      /\ \A i \in 1..(m + n) : w[i] = IF i <= m THEN s[i] ELSE t[i - m]
  BY ConcatProperties, LenProperties
<1>2. DOMAIN s = 1..m /\ DOMAIN t = 1..n
  BY LenProperties
<1> HIDE DEF w, m, n
<1>3. \A i \in DOMAIN w : (i \in DOMAIN s /\ w[i] = s[i]) \/ (i - m \in DOMAIN t /\ w[i] = t[i - m])
  BY <1>1, <1>2
<1>4. Silent(s) /\ Silent(t) => Silent(w)
  BY <1>3 DEF Silent
<1>5. \A reason : Says(s, reason) /\ Says(t, reason) => Says(w, reason)
  BY <1>3 DEF Says
<1> QED
  BY <1>1, <1>4, <1>5 DEF w

LEMMA OneEvent ==
  ASSUME NEW e \in Events
  PROVE  /\ <<e>> \in Seq(Events)
         /\ e.type # "finish" => Silent(<<e>>)
         /\ Says(<<e>>, e.text)
  BY DEF Silent, Says

LEMMA NoEvent == <<>> \in Seq(Events) /\ Silent(<<>>)
  BY DEF Silent

LEMMA DeltaIs ==
  ASSUME NEW a, NEW text \in Texts
  PROVE  Delta(a, text) \in Seq(Events) /\ Silent(Delta(a, text))
<1>1. Event("delta", text) \in Events /\ Event("delta", text).type # "finish"
  BY DEF Event, Events
<1> QED
  BY <1>1, OneEvent, NoEvent DEF Delta, DeltaChunk

LEMMA OpeningIs ==
  ASSUME NEW a \in Asks
  PROVE  /\ Opening(a) \in Seq(Events) /\ Silent(Opening(a))
         /\ <<Event("error", Status(a))>> \in Seq(Events) /\ Silent(<<Event("error", Status(a))>>)
<1>1. <<>> \in Texts
  BY DEF Texts
<1>2. /\ Event("role", <<>>) \in Events /\ Event("role", <<>>).type # "finish"
      /\ Event("created", <<>>) \in Events /\ Event("created", <<>>).type # "finish"
  BY <1>1 DEF Event, Events
<1>3. Event("error", Status(a)) \in Events /\ Event("error", Status(a)).type # "finish"
  BY DEF Event, Events
<1>4. Opening(a) = <<>> \/ Opening(a) = <<Event("role", <<>>)>> \/ Opening(a) = <<Event("created", <<>>)>>
  BY StreamAssumption DEF Opening
<1> QED
  BY <1>2, <1>3, <1>4, OneEvent, NoEvent

LEMMA ClosingIs ==
  ASSUME NEW a, NEW text \in Texts, NEW reason \in {"stop", "length"}
  PROVE  Closing(a, text, reason) \in Seq(Events) /\ Says(Closing(a, text, reason), reason)
<1> DEFINE body == Event("body", text)
           last == Event("finish", reason)
           done == Event("[DONE]", <<>>)
           use  == Event("usage", <<>>)
           ready == Event("completed", text)
<1>1. <<>> \in Texts
  BY DEF Texts
<1>2. body \in Events /\ last \in Events /\ done \in Events /\ use \in Events /\ ready \in Events
  BY <1>1 DEF Event, Events
<1>3. /\ body.type # "finish" /\ done.type # "finish" /\ use.type # "finish" /\ ready.type # "finish"
      /\ last.text = reason
  BY DEF Event
<1> HIDE DEF body, last, done, use, ready
<1>4. <<body, last>> \in Seq(Events) /\ Says(<<body, last>>, reason)
  BY <1>2, <1>3 DEF Says
<1>5. /\ <<last>> \in Seq(Events) /\ Says(<<last>>, reason)
      /\ <<done>> \in Seq(Events) /\ Says(<<done>>, reason)
      /\ UsageChunk(a) \in Seq(Events) /\ Says(UsageChunk(a), reason)
  BY <1>2, <1>3 DEF Says, UsageChunk, use
<1>6. <<last>> \o UsageChunk(a) \in Seq(Events) /\ Says(<<last>> \o UsageChunk(a), reason)
  BY <1>5, WiresJoin
<1>7. /\ <<ready>> \in Seq(Events) /\ Says(<<ready>>, reason)
      /\ <<body>> \in Seq(Events) /\ Says(<<body>>, reason)
  BY <1>2, <1>3 DEF Says
<1>8. OpenAiEnd(a, reason) \in Seq(Events) /\ Says(OpenAiEnd(a, reason), reason)
  BY <1>5, <1>6, WiresJoin DEF OpenAiEnd, FinishChunk, last, done
<1>9. Completion(text, reason) = <<body, last>> /\ ResponsesEnd(text) = <<ready>> /\ ResponseBody(text) = <<body>>
  BY DEF Completion, ResponsesEnd, ResponseBody, body, last, ready
<1> QED
  BY <1>4, <1>7, <1>8, <1>9 DEF Closing

LEMMA CountedKept ==
  ASSUME Counted, phase # "ended", phase' # "ended", Silent(wire) => Silent(wire'),
         metrics'.stop = metrics.stop, metrics'.length = metrics.length, metrics'.latencies = metrics.latencies
  PROVE  Counted'
<1>1. Silent(wire) /\ metrics.stop + metrics.length = 0 /\ metrics.latencies = 0
  BY DEF Counted, CountedOnce, Completions, Silent
<1>2. Silent(wire') /\ metrics'.stop + metrics'.length = 0 /\ metrics'.latencies = 0
  BY <1>1
<1> QED
  BY <1>2 DEF Counted, CountedOnce, Completions, Silent

Counters == [requests : Nat, tokens : Nat, latencies : Nat, stop : Nat, length : Nat]

LEMMA CompletedIs ==
  ASSUME metrics \in Counters, NEW reason \in {"stop", "length"}
  PROVE  /\ Completed(reason) \in Counters
         /\ Completed(reason)[reason] = metrics[reason] + 1
         /\ Completed(reason).latencies = metrics.latencies + 1
         /\ Completed(reason).stop + Completed(reason).length = metrics.stop + metrics.length + 1
<1> DEFINE m == Completed(reason)
<1>1. DOMAIN metrics = {"requests", "tokens", "latencies", "stop", "length"}
      /\ \A k \in DOMAIN metrics : metrics[k] \in Nat
  BY DEF Counters
<1>2. /\ DOMAIN m = DOMAIN metrics
      /\ \A k \in DOMAIN metrics : m[k] = IF k = "latencies" \/ k = reason THEN metrics[k] + 1 ELSE metrics[k]
  BY <1>1 DEF Completed
<1>3. m = [k \in DOMAIN metrics |-> m[k]]
  BY <1>2 DEF Completed
<1> HIDE DEF m
<1>4. m \in Counters
  <2>1. m = [requests |-> m["requests"], tokens |-> m["tokens"], latencies |-> m["latencies"],
             stop |-> m["stop"], length |-> m["length"]]
    BY <1>1, <1>2, <1>3
  <2>2. \A k \in DOMAIN metrics : m[k] \in Nat
    BY <1>1, <1>2
  <2> QED
    BY <1>1, <2>1, <2>2 DEF Counters
<1>5. m[reason] = metrics[reason] + 1 /\ m.latencies = metrics.latencies + 1
  BY <1>1, <1>2
<1>6. m.stop + m.length = metrics.stop + metrics.length + 1
  <2>1. CASE reason = "stop"
    BY <1>1, <1>2, <2>1
  <2>2. CASE reason = "length"
    BY <1>1, <1>2, <2>2
  <2> QED
    BY <2>1, <2>2
<1> QED
  BY <1>4, <1>5, <1>6 DEF m

LEMMA CountedEnds ==
  ASSUME Typed, Counted, phase # "ended", phase' = "ended", NEW reason \in {"stop", "length"},
         metrics' = Completed(reason), Silent(wire) => Says(wire', reason)
  PROVE  Counted'
<1>1. Silent(wire) /\ metrics.stop + metrics.length = 0 /\ metrics.latencies = 0
  BY DEF Counted, CountedOnce, Completions, Silent
<1>2. metrics \in Counters
  BY DEF Typed, Counters
<1>3. metrics.stop = 0 /\ metrics.length = 0 /\ metrics[reason] = 0
  BY <1>1, <1>2 DEF Counters
<1>4. metrics'[reason] = 1 /\ metrics'.stop + metrics'.length = 1 /\ metrics'.latencies = 1
  BY <1>1, <1>2, <1>3, CompletedIs
<1>5. \A n \in DOMAIN wire' : wire'[n].type = "finish" => wire'[n].text = reason
  BY <1>1 DEF Says
<1>6. CountedOnce'
  BY <1>4, <1>5 DEF CountedOnce, Completions
<1> QED
  BY <1>6 DEF Counted

LEMMA HandleKeeps == IInv /\ Handle => IInv'
<1> SUFFICES ASSUME IInv, Handle PROVE IInv'
  OBVIOUS
<1> USE DEF IInv, Handle
<1>1. phase # "ended" /\ phase' \in {"accepted", "refused"} /\ ask \in Asks
  BY DEF Typed
<1>2. wire' \in Seq(Events) /\ Silent(wire')
  BY <1>1, OpeningIs
<1>3. Typed'
  BY <1>1, <1>2 DEF Typed, detok
<1>4. Seams' /\ Held' /\ Concluded'
  BY <1>1, TextKept
<1>5. Counted'
  BY <1>1, <1>2, CountedKept
<1>6. Accepted'
  BY DEF Accepted
<1> QED
  BY <1>3, <1>4, <1>5, <1>6

LEMMA SubmitKeeps == IInv /\ Submit => IInv'
<1> SUFFICES ASSUME IInv, Submit PROVE IInv'
  OBVIOUS
<1> USE DEF IInv, Submit
<1>1. phase # "ended" /\ phase' \in {"failed", "open"}
  OBVIOUS
<1>2. metrics' \in [requests : Nat, tokens : Nat, latencies : Nat, stop : Nat, length : Nat]
      /\ metrics'.stop = metrics.stop /\ metrics'.length = metrics.length /\ metrics'.latencies = metrics.latencies
  <2>1. metrics \in [requests : Nat, tokens : Nat, latencies : Nat, stop : Nat, length : Nat]
    BY DEF Typed
  <2>2. metrics' = metrics \/ metrics' = Count("requests")
    OBVIOUS
  <2> QED
    BY <2>1, <2>2 DEF Count
<1>3. Typed'
  BY <1>1, <1>2 DEF Typed, detok
<1>4. Seams' /\ Held' /\ Concluded'
  BY <1>1, TextKept
<1>5. Counted'
  BY <1>1, <1>2, CountedKept
<1>6. Accepted'
  BY DEF Accepted
<1> QED
  BY <1>3, <1>4, <1>5, <1>6

LEMMA QueueKeeps ==
  ASSUME IInv, Reject \/ Die \/ \E token \in Tokens : Produce(token)
  PROVE  IInv'
<1> USE DEF IInv
<1>1. /\ phase # "ended" /\ phase' = phase /\ ask' = ask /\ detok' = detok /\ wire' = wire /\ metrics' = metrics
  BY DEF Reject, Die, Produce
<1>2. queue' \in Seq(Items)
  <2>1. queue \in Seq(Items) /\ Failure \in Items
    BY DEF Typed, Items
  <2>2. \A token \in Tokens : [token |-> token, finish |-> FinishReason(token)] \in Items
    BY DEF Items, FinishReason
  <2>3. <<Failure>> \in Seq(Items)
    BY <2>1
  <2>4. CASE Reject
    BY <2>3, <2>4 DEF Reject
  <2>5. CASE Die
    BY <2>1, <2>5, AppendProperties DEF Die
  <2>6. ASSUME NEW token \in Tokens, Produce(token) PROVE queue' \in Seq(Items)
    <3> DEFINE item == [token |-> token, finish |-> FinishReason(token)]
    <3>1. item \in Items /\ queue' = Append(queue, item)
      BY <2>2, <2>6 DEF Produce
    <3> HIDE DEF item
    <3> QED
      BY <2>1, <3>1, AppendProperties
  <2> QED
    BY <2>4, <2>5, <2>6
<1>3. Typed'
  BY <1>1, <1>2 DEF Typed, detok
<1>4. Seams' /\ Held' /\ Concluded'
  BY <1>1, TextKept
<1>5. Counted'
  BY <1>1, CountedKept
<1>6. Accepted'
  BY <1>1 DEF Accepted
<1> QED
  BY <1>3, <1>4, <1>5, <1>6

LEMMA StopsShort ==
  ASSUME IInv, Fail \/ Leave
  PROVE  IInv'
<1> USE DEF IInv
<1>1. /\ phase # "ended" /\ phase' \in {"failed", "left"} /\ ask' = ask /\ queue' = queue
      /\ detok' = detok /\ wire' = wire /\ metrics' = metrics
  BY DEF Fail, Leave
<1>2. Typed'
  BY <1>1 DEF Typed, detok
<1>3. Seams' /\ Held' /\ Concluded'
  BY <1>1, TextKept
<1>4. Counted'
  BY <1>1, CountedKept
<1>5. Accepted'
  BY <1>1 DEF Accepted
<1> QED
  BY <1>2, <1>3, <1>4, <1>5

LEMMA HaltKeeps == IInv /\ Halt => IInv'
<1> SUFFICES ASSUME IInv, Halt PROVE IInv'
  OBVIOUS
<1> USE DEF IInv, Halt
<1>1. /\ phase # "ended" /\ phase' = "ended" /\ stopped /\ ask' = ask /\ queue' = queue /\ ids' = ids
      /\ offsets' = offsets /\ pending' = pending /\ stopped' = stopped /\ finish' = finish /\ emitted' = emitted
  BY DEF detok
<1>2. wire' \in Seq(Events) /\ (Silent(wire) => Says(wire', "stop"))
  <2> DEFINE last == Closing(ask, emitted, "stop")
  <2>1. last \in Seq(Events) /\ Says(last, "stop") /\ wire \in Seq(Events) /\ wire' = wire \o last
    BY ClosingIs DEF Typed
  <2>2. Silent(wire) => Says(wire, "stop")
    BY DEF Silent, Says
  <2> HIDE DEF last
  <2> QED
    BY <2>1, <2>2, WiresJoin
<1>3. metrics' = Completed("stop")
  BY DEF CountStop
<1>4. metrics' \in [requests : Nat, tokens : Nat, latencies : Nat, stop : Nat, length : Nat]
  BY <1>3, CompletedIs DEF Typed, Counters
<1>5. Typed'
  BY <1>1, <1>2, <1>4 DEF Typed
<1>6. Concluded'
  BY <1>1, TextPrimed DEF Concluded
<1>7. Seams' /\ Held'
  BY <1>1, TextPrimed
<1>8. Counted'
  BY <1>1, <1>2, <1>3, CountedEnds
<1>9. Accepted'
  BY <1>1 DEF Accepted
<1> QED
  BY <1>5, <1>6, <1>7, <1>8, <1>9

LEMMA PullKeeps == IInv /\ Pull => IInv'
<1> SUFFICES ASSUME IInv, Pull PROVE IInv'
  OBVIOUS
<1> USE DEF IInv
<1>1. /\ phase = "open" /\ phase' = "open" /\ ~stopped /\ ask' = ask /\ queue # <<>> /\ Head(queue) # Failure
      /\ queue' = Tail(queue) /\ metrics' = Count("tokens")
  BY DEF Pull
<1>2. PICK item, all, fed, new, found :
        /\ item = Head(queue) /\ all = Append(ids, item.token) /\ fed = Feed(all)
        /\ new = fed.text /\ found = Consume(pending \o new)
        /\ ids' = all /\ offsets' = fed.offsets /\ pending' = found.pending /\ stopped' = found.stopped
        /\ finish' = item.finish /\ emitted' = emitted \o found.text
        /\ wire' = IF found.text = <<>> THEN wire ELSE wire \o Delta(ask, found.text)
  BY DEF Pull
<1>3. item.token \in Tokens /\ item.finish \in {"none", "stop", "length"} /\ queue' \in Seq(Items)
  <2>1. queue \in Seq(Items)
    BY DEF Typed
  <2>2. Head(queue) \in Items /\ Tail(queue) \in Seq(Items)
    BY <1>1, <2>1, HeadTailProperties
  <2>3. item \in Items /\ item # Failure
    BY <1>1, <1>2, <2>2
  <2> QED
    BY <1>1, <2>2, <2>3 DEF Items
<1> DEFINE m == offsets.read
<1>4. /\ ~EndsBroken(Before(offsets.prefix)) /\ ~EndsBroken(Before(m)) /\ emitted \o pending = Before(m)
      /\ ~HasStop(emitted \o pending) /\ \A n \in Tails(emitted \o pending) : n <= Len(pending)
      /\ emitted \in Texts /\ pending \in Texts
  BY <1>1 DEF Seams, Held, Typed
<1>5. /\ offsets \in [prefix : Nat, read : Nat] /\ offsets.prefix <= m /\ m <= Len(ids)
      /\ ids \in Seq(Tokens) /\ Len(ids) \in Nat
  BY LenProperties DEF Typed
<1>6. /\ all \in Seq(Tokens) /\ Len(all) = Len(ids) + 1 /\ new \in Texts
      /\ IF EndsBroken(Decode(all)) THEN new = <<>> /\ fed.offsets = offsets
         ELSE fed.offsets = [prefix |-> m, read |-> Len(all)] /\ Decode(all) = Before(m) \o new
      /\ \A n \in 0..Len(ids) : SubSeq(all, 1, n) = SubSeq(ids, 1, n)
  BY <1>2, <1>3, <1>4, FeedMoves
<1>7. PICK t : t = emitted \o (pending \o new)
  OBVIOUS
<1>8. /\ t \in Texts /\ found.text \in Texts /\ found.pending \in Texts /\ found.stopped \in BOOLEAN
      /\ found.stopped <=> HasStop(t)
      /\ found.stopped => emitted \o found.text = UpToStop(t)
      /\ ~found.stopped => /\ (emitted \o found.text) \o found.pending = t
                           /\ \A n \in Tails(t) : n <= Len(found.pending)
  <2>1. found = Consume(pending \o new) /\ t = emitted \o (pending \o new) /\ new \in Texts
    BY <1>2, <1>6, <1>7
  <2>2. /\ ~HasStop(emitted \o pending) /\ \A n \in Tails(emitted \o pending) : n <= Len(pending)
        /\ emitted \in Texts /\ pending \in Texts /\ Typed
    BY <1>4
  <2>3. Searched(emitted, t, found)
    BY ONLY <2>1, <2>2, ConsumeMoves
  <2> QED
    BY <2>3 DEF Searched
<1>9. t = Before(m) \o new
  <2>1. emitted \in Texts /\ pending \in Texts /\ new \in Texts
    BY <1>4, <1>6
  <2>2. (emitted \o pending) \o new = emitted \o (pending \o new)
    <3>1. Regrouped(emitted, pending, new)
      BY <2>1, Regroup
    <3> QED
      BY <3>1 DEF Regrouped
  <2> QED
    BY <1>4, <1>7, <2>2
<1>10. /\ ids' = all /\ offsets' = fed.offsets /\ pending' = found.pending /\ stopped' = found.stopped
       /\ emitted' = emitted \o found.text /\ emitted' \in Texts
  BY <1>2, <1>4, <1>8, ConcatProperties DEF Texts
<1>11. wire' \in Seq(Events) /\ (Silent(wire) => Silent(wire'))
  <2>1. wire \in Seq(Events) /\ Delta(ask, found.text) \in Seq(Events) /\ Silent(Delta(ask, found.text))
    BY <1>8, DeltaIs DEF Typed
  <2>2. wire' = wire \/ wire' = wire \o Delta(ask, found.text)
    BY <1>2
  <2> QED
    BY <2>1, <2>2, WiresJoin
<1>12. /\ metrics' \in [requests : Nat, tokens : Nat, latencies : Nat, stop : Nat, length : Nat]
       /\ metrics'.stop = metrics.stop /\ metrics'.length = metrics.length /\ metrics'.latencies = metrics.latencies
  <2>1. metrics \in Counters /\ metrics' = [metrics EXCEPT !["tokens"] = metrics["tokens"] + 1]
    BY <1>1 DEF Typed, Count, Counters
  <2> QED
    BY <2>1 DEF Counters
<1>13. Counted'
  BY <1>1, <1>11, <1>12, CountedKept
<1>14. Accepted'
  BY <1>1 DEF Accepted
<1>15. CASE EndsBroken(Decode(all))
  <2>1. new = <<>> /\ offsets' = offsets
    BY <1>6, <1>10, <1>15
  <2>2. t = Before(m) /\ t = emitted \o pending
    BY <1>4, <1>9, <2>1, ConcatProperties, ConcatEmptySeq DEF Texts
  <2>3. ~HasStop(t) /\ ~found.stopped /\ ~stopped'
    BY <1>4, <1>8, <1>10, <2>2
  <2>4. emitted' \o pending' = t
    BY <1>8, <1>10, <2>3
  <2>5. SubSeq(ids', 1, offsets.prefix) = SubSeq(ids, 1, offsets.prefix) /\ SubSeq(ids', 1, m) = SubSeq(ids, 1, m)
    <3>1. offsets.prefix \in 0..Len(ids) /\ m \in 0..Len(ids)
      BY <1>5
    <3> QED
      BY <1>6, <1>10, <3>1
  <2>6. Seams'
    BY <1>1, <1>4, <1>10, <1>15, <2>1, <2>2, <2>4, <2>5, TextPrimed DEF Before
  <2>7. Held'
    BY <1>1, <1>8, <1>10, <2>3, <2>4, TextPrimed
  <2>8. Concluded'
    BY <1>1, <2>3, TextPrimed
  <2>9. Typed'
    <3>1. offsets' \in [prefix : Nat, read : Nat] /\ offsets'.prefix <= offsets'.read /\ offsets'.read <= Len(ids')
      BY <1>5, <1>6, <1>10, <2>1
    <3>2. ids' \in Seq(Tokens) /\ pending' \in Texts /\ emitted' \in Texts /\ stopped' \in BOOLEAN
          /\ finish' \in {"none", "stop", "length"}
      BY <1>2, <1>3, <1>6, <1>8, <1>10
    <3> QED
      BY <1>1, <1>3, <1>11, <1>12, <3>1, <3>2 DEF Typed
  <2> QED
    BY <1>13, <1>14, <2>6, <2>7, <2>8, <2>9
<1>16. CASE ~EndsBroken(Decode(all))
  <2>1. offsets' = [prefix |-> m, read |-> Len(all)] /\ t = Decode(all)
    BY <1>6, <1>9, <1>10, <1>16
  <2>2. SubSeq(ids', 1, m) = SubSeq(ids, 1, m) /\ SubSeq(ids', 1, Len(all)) = all
    <3>1. m \in 0..Len(ids)
      BY <1>5
    <3> QED
      BY <1>6, <1>10, <3>1, SubSeqFull
  <2>3. ~stopped' => emitted' \o pending' = t
    BY <1>8, <1>10
  <2>4. Seams'
    <3>1. offsets'.prefix = m /\ offsets'.read = Len(all) /\ ids' = all
      BY <1>10, <2>1
    <3>2. ~EndsBroken(Decode(SubSeq(ids', 1, offsets'.prefix)))
      BY <1>4, <2>2, <3>1 DEF Before
    <3>3. Decode(SubSeq(ids', 1, offsets'.read)) = t
      BY <2>1, <2>2, <3>1
    <3>4. ~(offsets'.read < Len(ids'))
      BY <1>5, <1>6, <3>1
    <3> QED
      BY <1>16, <2>1, <2>3, <3>2, <3>3, <3>4, TextPrimed, <1>1
  <2>5. Held'
    BY <1>1, <1>8, <1>10, <2>3, TextPrimed
  <2>6. Concluded'
    BY <1>1, <1>8, <1>10, <2>1, TextPrimed
  <2>7. Typed'
    <3>1. offsets' \in [prefix : Nat, read : Nat] /\ offsets'.prefix <= offsets'.read /\ offsets'.read <= Len(ids')
      BY <1>5, <1>6, <1>10, <2>1
    <3>2. ids' \in Seq(Tokens) /\ pending' \in Texts /\ emitted' \in Texts /\ stopped' \in BOOLEAN
          /\ finish' \in {"none", "stop", "length"}
      BY <1>2, <1>3, <1>6, <1>8, <1>10
    <3> QED
      BY <1>1, <1>3, <1>11, <1>12, <3>1, <3>2 DEF Typed
  <2> QED
    BY <1>13, <1>14, <2>4, <2>5, <2>6, <2>7
<1> QED
  BY <1>15, <1>16

LEMMA FinishKeeps == IInv /\ Finish => IInv'
<1> SUFFICES ASSUME IInv, Finish PROVE IInv'
  OBVIOUS
<1> USE DEF IInv
<1>1. /\ phase = "open" /\ phase' = "ended" /\ ~stopped /\ stopped' = stopped /\ finish # "none" /\ finish' = finish
      /\ ask' = ask /\ queue' = queue /\ ids' = ids /\ pending' = <<>>
      /\ offsets' = [prefix |-> offsets.read, read |-> Len(ids)]
      /\ emitted' = emitted \o Flush /\ metrics' = Completed(finish)
      /\ wire' = wire \o (IF Flush = <<>> THEN <<>> ELSE Delta(ask, Flush))
                      \o Closing(ask, emitted \o Flush, finish)
  BY DEF Finish
<1>2. /\ ~EndsBroken(Before(offsets.prefix)) /\ ~EndsBroken(Before(offsets.read))
      /\ emitted \o pending = Before(offsets.read)
      /\ offsets.read < Len(ids) => EndsBroken(Decode(ids))
      /\ ~HasStop(emitted \o pending)
  BY <1>1 DEF Seams, Held
<1>3. /\ offsets \in [prefix : Nat, read : Nat] /\ offsets.read <= Len(ids) /\ ids \in Seq(Tokens)
      /\ emitted \in Texts /\ pending \in Texts /\ finish \in {"stop", "length"} /\ Len(ids) \in Nat
  BY <1>1, LenProperties DEF Typed
<1> DEFINE new == Fresh(Window(ids))
<1>4. new \in Texts /\ Decode(ids) = Before(offsets.read) \o new /\ Flush = pending \o new
  BY <1>2, FreshIs DEF Flush
<1> HIDE DEF new
<1>5. Flush \in Texts /\ emitted \o Flush \in Texts /\ emitted \o Flush = Decode(ids)
  <2>1. (emitted \o pending) \o new = emitted \o (pending \o new) /\ pending \o new \in Texts
        /\ emitted \o (pending \o new) \in Texts
    <3>1. emitted \in Texts /\ pending \in Texts /\ new \in Texts
      BY <1>3, <1>4
    <3>2. Regrouped(emitted, pending, new)
      BY <3>1, Regroup
    <3>3. pending \o new \in Texts /\ (emitted \o pending) \o new = emitted \o (pending \o new)
      BY <3>2 DEF Regrouped
    <3>4. emitted \o (pending \o new) \in Texts
      BY <3>1, <3>3, Regroup DEF Regrouped
    <3> QED
      BY <3>3, <3>4
  <2> QED
    BY <1>2, <1>4, <2>1
<1>6. HasStop(Decode(ids)) => EndsBroken(Decode(ids))
  <2>1. CASE offsets.read < Len(ids)
    BY <1>2, <2>1
  <2>2. CASE ~(offsets.read < Len(ids))
    <3>1. offsets.read = Len(ids)
      BY <1>3, <2>2
    <3>2. Before(offsets.read) = Decode(ids)
      BY <1>3, <3>1, SubSeqFull DEF Before
    <3> QED
      BY <1>2, <3>2
  <2> QED
    BY <2>1, <2>2
<1>7. Concluded'
  BY <1>1, <1>5, <1>6, TextPrimed
<1>8. Seams' /\ Held'
  BY <1>1, TextPrimed
<1>9. wire' \in Seq(Events) /\ (Silent(wire) => Says(wire', finish))
  <2> DEFINE delta == IF Flush = <<>> THEN <<>> ELSE Delta(ask, Flush)
             end   == Closing(ask, emitted \o Flush, finish)
  <2>1. delta \in Seq(Events) /\ Silent(delta) /\ wire \in Seq(Events)
    BY <1>5, DeltaIs, NoEvent DEF Typed
  <2>2. end \in Seq(Events) /\ Says(end, finish)
    BY <1>3, <1>5, ClosingIs
  <2>3. wire' = (wire \o delta) \o end
    BY <1>1
  <2> HIDE DEF delta, end
  <2>4. wire \o delta \in Seq(Events) /\ (Silent(wire) => Silent(wire \o delta))
    BY <2>1, WiresJoin
  <2>5. Silent(wire \o delta) => Says(wire \o delta, finish)
    BY DEF Silent, Says
  <2> QED
    BY <2>2, <2>3, <2>4, <2>5, WiresJoin
<1>10. Counted'
  BY <1>1, <1>3, <1>9, CountedEnds
<1>11. metrics' \in [requests : Nat, tokens : Nat, latencies : Nat, stop : Nat, length : Nat]
  BY <1>1, <1>3, CompletedIs DEF Typed, Counters
<1>12. Typed'
  <2>1. pending' \in Texts
    BY <1>1 DEF Texts
  <2>2. offsets' \in [prefix : Nat, read : Nat] /\ offsets'.prefix <= offsets'.read /\ offsets'.read <= Len(ids')
    BY <1>1, <1>3
  <2> QED
    BY <1>1, <1>5, <1>9, <1>11, <2>1, <2>2 DEF Typed
<1>13. Accepted'
  BY <1>1 DEF Accepted
<1> QED
  BY <1>7, <1>8, <1>10, <1>12, <1>13

LEMMA NextIInv == IInv /\ [Next]_vars => IInv'
<1> SUFFICES ASSUME IInv, [Next]_vars PROVE IInv'
  OBVIOUS
<1>1. CASE Handler
  BY <1>1, HandleKeeps, SubmitKeeps, PullKeeps, StopsShort, HaltKeeps, FinishKeeps DEF Handler
<1>2. CASE Reject \/ Generate \/ Die
  BY <1>2, QueueKeeps DEF Generate, Tokens
<1>3. CASE Leave
  BY <1>3, StopsShort
<1>4. CASE UNCHANGED vars
  <2>1. /\ ask' = ask /\ phase' = phase /\ queue' = queue /\ wire' = wire /\ metrics' = metrics
        /\ ids' = ids /\ offsets' = offsets /\ pending' = pending /\ stopped' = stopped
        /\ finish' = finish /\ emitted' = emitted
    BY <1>4 DEF vars, detok
  <2>2. Typed' /\ Counted' /\ Accepted'
    BY <2>1 DEF IInv, Typed, Counted, CountedOnce, Completions, Accepted
  <2>3. Seams'
    BY <2>1, TextPrimed DEF IInv, Seams, Before
  <2>4. Held'
    BY <2>1, TextPrimed DEF IInv, Held
  <2>5. Concluded'
    BY <2>1, TextPrimed DEF IInv, Concluded
  <2> QED
    BY <2>2, <2>3, <2>4, <2>5 DEF IInv
<1> QED
  BY <1>1, <1>2, <1>3, <1>4 DEF Next

-----------------------------------------------------------------------------
(* The theorems *)

LEMMA PrefixOfItself ==
  ASSUME NEW s \in Texts
  PROVE  IsPrefix(s, s)
  BY LenProperties DEF IsPrefix, Texts

(* Before the answer ends, the whole text is what was released, what is    *)
(* held back and what is behind the window.                                *)
LEMMA WholeText ==
  ASSUME IInv, ~stopped, phase # "ended", NEW new, new = Fresh(Window(ids))
  PROVE  /\ new \in Texts /\ emitted \in Texts /\ pending \in Texts /\ emitted \o pending \in Texts
         /\ Decode(ids) = (emitted \o pending) \o new
         /\ Decode(ids) = emitted \o (pending \o new)
         /\ ~EndsBroken(Decode(ids)) => emitted \o pending = Decode(ids)
<1>1. /\ ~EndsBroken(Before(offsets.prefix)) /\ ~EndsBroken(Before(offsets.read))
      /\ emitted \o pending = Before(offsets.read)
      /\ offsets.read < Len(ids) => EndsBroken(Decode(ids))
      /\ offsets \in [prefix : Nat, read : Nat] /\ offsets.read <= Len(ids) /\ ids \in Seq(Tokens)
      /\ emitted \in Texts /\ pending \in Texts /\ Len(ids) \in Nat
  BY LenProperties DEF IInv, Seams, Typed
<1>2. new \in Texts /\ Decode(ids) = (emitted \o pending) \o new
  BY <1>1, FreshIs DEF IInv
<1>3. (emitted \o pending) \o new = emitted \o (pending \o new) /\ emitted \o pending \in Texts
  <2>1. emitted \in Texts /\ pending \in Texts /\ new \in Texts
    BY <1>1, <1>2
  <2>2. Regrouped(emitted, pending, new)
    BY <2>1, Regroup
  <2> QED
    BY <2>2 DEF Regrouped
<1>4. ~EndsBroken(Decode(ids)) => emitted \o pending = Decode(ids)
  <2> SUFFICES ASSUME ~EndsBroken(Decode(ids)) PROVE emitted \o pending = Decode(ids)
    OBVIOUS
  <2>1. offsets.read = Len(ids)
    BY <1>1
  <2>2. Before(offsets.read) = Decode(ids)
    BY <1>1, <2>1, SubSeqFull DEF Before
  <2> QED
    BY <1>1, <2>2
<1> QED
  BY <1>1, <1>2, <1>3, <1>4

LEMMA InvariantReassembles == IInv => Reassembles
<1> SUFFICES ASSUME IInv, ~stopped
             PROVE  /\ IsPrefix(emitted \o pending, Decode(ids))
                    /\ ~EndsBroken(Decode(ids)) => emitted \o pending = Decode(ids)
                    /\ phase = "ended" => emitted = Decode(ids)
  BY DEF Reassembles
<1>1. CASE phase = "ended"
  <2>1. emitted = Decode(ids) /\ pending = <<>> /\ emitted \in Texts
    BY <1>1 DEF IInv, Concluded, Typed
  <2>2. emitted \o pending = emitted
    BY <2>1, ConcatEmptySeq DEF Texts
  <2> QED
    BY <2>1, <2>2, PrefixOfItself
<1>2. CASE phase # "ended"
  <2>1. PICK new : new = Fresh(Window(ids))
    OBVIOUS
  <2>2. /\ new \in Texts /\ emitted \o pending \in Texts /\ Decode(ids) = (emitted \o pending) \o new
        /\ ~EndsBroken(Decode(ids)) => emitted \o pending = Decode(ids)
    BY <1>2, <2>1, WholeText
  <2>3. PICK s : s = emitted \o pending
    OBVIOUS
  <2>4. IsPrefix(s, s \o new)
    BY <2>2, <2>3, EndsOf DEF Texts
  <2> QED
    BY <1>2, <2>2, <2>3, <2>4
<1> QED
  BY <1>1, <1>2

LEMMA InvariantCuts == IInv => CutsAtStop
<1> SUFFICES ASSUME IInv
             PROVE  /\ stopped => emitted = UpToStop(Decode(ids))
                    /\ ~stopped /\ HasStop(Decode(ids)) => EndsBroken(Decode(ids))
                    /\ (phase = "ended" /\ EndsBroken(Decode(ids))) \/ IsPrefix(emitted, UpToStop(Decode(ids)))
  BY DEF CutsAtStop
<1>1. emitted \in Texts
  BY DEF IInv, Typed
<1>2. CASE stopped
  BY <1>1, <1>2, PrefixOfItself DEF IInv, Concluded
<1>3. CASE ~stopped /\ phase = "ended"
  <2>1. emitted = Decode(ids) /\ (HasStop(Decode(ids)) => EndsBroken(Decode(ids)))
    BY <1>3 DEF IInv, Concluded
  <2>2. ~HasStop(Decode(ids)) => UpToStop(Decode(ids)) = Decode(ids)
    BY DEF UpToStop
  <2> QED
    BY <1>1, <1>3, <2>1, <2>2, PrefixOfItself
<1>4. CASE ~stopped /\ phase # "ended"
  <2>1. PICK new, t, found : new = Fresh(Window(ids)) /\ t = emitted \o (pending \o new) /\ found = Consume(pending \o new)
    OBVIOUS
  <2>2. /\ new \in Texts /\ emitted \in Texts /\ pending \in Texts /\ t = Decode(ids)
        /\ ~EndsBroken(Decode(ids)) => emitted \o pending = Decode(ids)
    BY <1>4, <2>1, WholeText
  <2>3. ~HasStop(emitted \o pending) /\ \A n \in Tails(emitted \o pending) : n <= Len(pending)
    BY <1>4 DEF IInv, Held
  <2>4. Searched(emitted, t, found)
    <3>1. /\ emitted \in Texts /\ pending \in Texts /\ new \in Texts /\ Typed
          /\ t = emitted \o (pending \o new) /\ found = Consume(pending \o new)
      BY <2>1, <2>2 DEF IInv
    <3> QED
      BY ONLY <2>3, <3>1, ConsumeMoves
  <2>5. HasStop(t) => EndsBroken(t)
    BY <2>2, <2>3
  <2>6. IsPrefix(emitted, UpToStop(t))
    <3>1. CASE HasStop(t)
      <4>1. UpToStop(t) = emitted \o found.text /\ found.text \in Texts
        BY <2>4, <3>1 DEF Searched
      <4>2. PICK x : x = found.text
        OBVIOUS
      <4>3. IsPrefix(emitted, emitted \o x)
        BY <1>1, <4>1, <4>2, EndsOf DEF Texts
      <4> QED
        BY <4>1, <4>2, <4>3
    <3>2. CASE ~HasStop(t)
      <4>1. UpToStop(t) = t
        BY <3>2 DEF UpToStop
      <4>2. PICK x : x = pending \o new
        OBVIOUS
      <4>3. x \in Texts
        BY <2>2, <4>2, ConcatProperties DEF Texts
      <4>4. IsPrefix(emitted, emitted \o x)
        BY <1>1, <4>3, EndsOf DEF Texts
      <4> QED
        BY <2>1, <4>1, <4>2, <4>4
    <3> QED
      BY <3>1, <3>2
  <2> QED
    BY <1>4, <2>2, <2>5, <2>6
<1> QED
  BY <1>2, <1>3, <1>4

(* The whole invariant: the seams of the decode window, what is held back, *)
(* how an answer ends and what is counted.                                 *)
THEOREM TextStreamInvariant == Spec => []IInv
<1>1. Init => IInv
  BY InitIInv
<1>2. IInv /\ [Next]_vars => IInv'
  BY NextIInv
<1> QED
  BY <1>1, <1>2, PTL DEF Spec

(* The deltas reassemble to the text of all tokens, for every vocabulary   *)
(* and every way in which tokens share characters; nothing is lost or      *)
(* repeated where IncrementalDetokenizer moves its window.                 *)
THEOREM TextReassembles == Spec => []Reassembles
  BY TextStreamInvariant, InvariantReassembles, PTL

(* StopSequenceDetokenizer cuts the text exactly before the first stop     *)
(* string in all of it, although it only searches what it held back, and   *)
(* sends no part of one that may still be completed.                       *)
THEOREM AnswersCutAtStop == Spec => []CutsAtStop
  BY TextStreamInvariant, InvariantCuts, PTL

(* A request is counted as completed once, when its answer ended, by the   *)
(* reason that its client reads.                                           *)
THEOREM RequestsCountedOnce == Spec => []CountedOnce
<1>1. IInv => CountedOnce
  BY DEF IInv, Counted
<1> QED
  BY <1>1, TextStreamInvariant, PTL

(* What the handler's checks let through is not refused by the engine      *)
(* later, except a prefix group on a backend that cannot share.            *)
THEOREM AcceptedAreTaken == Spec => []AcceptedIsTaken
<1>1. IInv => AcceptedIsTaken
  BY AcceptedSound
<1> QED
  BY <1>1, TextStreamInvariant, PTL
=============================================================================
