------------------------- MODULE DecodeWindowProofs -------------------------
(***************************************************************************)
(* The deferred decode window records exactly what was sampled, for every  *)
(* number of requests, window size, pool and set of shapes.                *)
(*                                                                         *)
(* The invariant says what a table holds: the prompt, the recorded tokens  *)
(* and the rows in flight, and that these rows continue the answer where   *)
(* the recorded tokens end.  With it every drain records a longer prefix   *)
(* of the answer, and the window refines the reference loop GreedyDecode.  *)
(***************************************************************************)
EXTENDS DecodeWindow, CollectionLemmas

(* The answer of a request is 1, 2, ..., Stop(r), see DecodeWindow.        *)
Ramp(n) == [i \in 1..n |-> i]

Stop(r) == Greedy!Stop(shape[r])

Phases == {"between", "prefill", "decode", "return", "dead"}

Typed ==
  /\ shape \in [Requests -> Shapes] /\ deferrable \in [Requests -> BOOLEAN]
  /\ arrived \subseteq Requests /\ gone \subseteq arrived
  /\ waiting \in Seq(Requests) /\ running \in Seq(Requests)
  /\ prefilling \in Seq(Requests) /\ decoding \in Seq(Requests)
  /\ length \in [Requests -> Nat] /\ generated \in [Requests -> Seq(Nat)]
  /\ stash \in [Requests -> Seq(Nat)] /\ result \in [Requests -> Seq(Nat)]
  /\ sent \in [Requests -> Seq(Nat)]
  /\ phase \in Phases

(* A request waits or runs, never both; only one that runs has a table,    *)
(* and it has none only until the pass that admitted it prefills it.       *)
Queued ==
  /\ IsInjective(waiting)
  /\ \A r \in ToSet(waiting) : r \notin ToSet(running) /\ generated[r] = <<>>
  /\ ToSet(waiting) \cup ToSet(running) \subseteq arrived \ gone
  /\ \A r \in Requests \ arrived : generated[r] = <<>>
  /\ \A r \in Requests \ ToSet(running) : length[r] = 0
  /\ \A r \in ToSet(running) : length[r] = 0 =>
       generated[r] = <<>> /\ phase = "prefill" /\ r \in ToSet(prefilling)
  /\ phase = "prefill" => \A r \in ToSet(prefilling) : r \in ToSet(running) /\ length[r] = 0
  /\ phase \in {"prefill", "decode"} =>
       \A r \in ToSet(decoding) : r \in ToSet(running) /\ length[r] > 0

(* What was recorded is a prefix of the answer, and it is on its way. *)
Promised ==
  /\ \A r \in Requests : generated[r] = Ramp(Len(generated[r])) /\ Len(generated[r]) <= Stop(r)
  /\ \A r \in Requests : sent[r] \o result[r] \o stash[r] = generated[r]
  /\ phase = "between" => result = Nothing
  /\ phase \in {"prefill", "decode", "return"} => stash = Nothing

At(batch, r) == CHOOSE i \in DOMAIN batch : batch[i] = r

Staged(r) == IF r \in ToSet(flush.requests) THEN Len(flush.rows) ELSE 0
Opened(r) == IF r \in ToSet(window.requests) THEN Len(window.rows) ELSE 0

(* A table holds what was recorded and what is in flight, the rows in      *)
(* flight continue what was recorded, and none of them is past the cap.    *)
Flight(r) ==
  LET g == Len(generated[r])  IN
  /\ 1 <= g /\ g < Stop(r)
  /\ length[r] = shape[r].prompt + g - 1 + Staged(r) + Opened(r)
  /\ g + Staged(r) + Opened(r) <= shape[r].new
  /\ r \in ToSet(flush.requests) =>
       \A n \in 1..Len(flush.rows) : flush.rows[n][At(flush.requests, r)] = g + n
  /\ r \in ToSet(window.requests) =>
       /\ \A n \in 1..Len(window.rows) :
            window.rows[n][At(window.requests, r)] = g + Staged(r) + n
       /\ g + Staged(r) + window.budget <= shape[r].new

Running(r) == r \in ToSet(running) /\ length[r] > 0

(* An open window's batch runs, and it is the batch of the staged one. A   *)
(* member of the staged batch runs or is finished.                         *)
Batched ==
  /\ window.requests \in Seq(Requests) /\ window.budget \in Nat
  /\ window.rows \in Seq([DOMAIN window.requests -> Nat])
  /\ flush.requests \in Seq(Requests) /\ flush.rows \in Seq([DOMAIN flush.requests -> Nat])
  /\ \/ window = Closed
     \/ /\ Len(window.rows) < window.budget /\ window.budget <= WindowSize
        /\ \A r \in ToSet(window.requests) : Running(r)
  /\ \/ flush = Unstaged
     \/ /\ Len(flush.rows) \in 1..WindowSize
        /\ window = Closed \/ flush.requests = window.requests
  /\ \A r \in ToSet(flush.requests) : Running(r) \/ Len(generated[r]) = Stop(r)

Reserved == Committed <= NumBlocks

Inv ==
  /\ Typed /\ Queued /\ Promised /\ Batched /\ Reserved
  /\ \A r \in Requests : Running(r) => Flight(r)
-----------------------------------------------------------------------------
(* The least and the greatest of a set of integers *)

LEMMA MinIs ==
  ASSUME NEW S \in SUBSET Int, NEW m \in S, \A n \in S : m <= n
  PROVE  Min(S) = m
<1> DEFINE Lower(x) == x \in S /\ \A y \in S : x <= y
<1>1. Lower(m)
  OBVIOUS
<1>2. \A x : Lower(x) => x = m
  OBVIOUS
<1>3. Min(S) = CHOOSE x \in S : \A y \in S : x <= y
  BY DEF Min
<1>4. Min(S) \in S /\ \A y \in S : Min(S) <= y
  BY <1>1, <1>3
<1> QED
  BY <1>2, <1>4

-----------------------------------------------------------------------------
(* Prefixes of an answer *)

LEMMA RampTyped ==
  ASSUME NEW n \in Nat
  PROVE  /\ Ramp(n) \in Seq(Nat) /\ Len(Ramp(n)) = n /\ DOMAIN Ramp(n) = 1..n
         /\ \A i \in 1..n : Ramp(n)[i] = i
         /\ n >= 1 => Ramp(n) # <<>> /\ Last(Ramp(n)) = n
         /\ n = 0 => Ramp(n) = <<>>
<1>1. Ramp(n) \in Seq(Nat) /\ Len(Ramp(n)) = n /\ DOMAIN Ramp(n) = 1..n
  BY DEF Ramp
<1>2. \A i \in 1..n : Ramp(n)[i] = i
  BY DEF Ramp
<1>3. n >= 1 => Last(Ramp(n)) = n
  BY <1>1, <1>2 DEF Last
<1> QED
  BY <1>1, <1>2, <1>3, EmptySeq

(* A sequence of that length that counts is one. *)
LEMMA CountsUp ==
  ASSUME NEW n \in Nat, NEW s \in Seq(Nat), Len(s) = n, \A i \in 1..n : s[i] = i
  PROVE  s = Ramp(n)
<1>1. Ramp(n) \in Seq(Nat) /\ Len(Ramp(n)) = n /\ \A i \in 1..n : Ramp(n)[i] = i
  BY RampTyped
<1> DEFINE u == Ramp(n)
<1>2. u \in Seq(Nat) /\ Len(s) = Len(u) /\ \A i \in 1..Len(s) : s[i] = u[i]
  BY <1>1
<1> HIDE DEF u
<1>3. s = u
  BY <1>2, SeqEqual
<1> QED
  BY <1>3 DEF u

(* A part of a sequence of naturals. *)
LEMMA PartOf ==
  ASSUME NEW s \in Seq(Nat), NEW m \in Nat, m >= 1, NEW n \in Nat, m <= n + 1, n <= Len(s)
  PROVE  /\ SubSeq(s, m, n) \in Seq(Nat) /\ Len(SubSeq(s, m, n)) = n - m + 1
         /\ \A i \in 1..(n - m + 1) : SubSeq(s, m, n)[i] = s[m + i - 1]
<1>1. \A i \in m..n : s[i] \in Nat
  BY ElementOfSeq, LenProperties
<1>2. m \in Int /\ n \in Int
  OBVIOUS
<1> QED
  BY <1>1, <1>2, SubSeqProperties

LEMMA RampAppend ==
  ASSUME NEW n \in Nat
  PROVE  Append(Ramp(n), n + 1) = Ramp(n + 1)
<1> DEFINE s == Append(Ramp(n), n + 1)
<1>1. Ramp(n) \in Seq(Nat) /\ Len(Ramp(n)) = n /\ \A i \in 1..n : Ramp(n)[i] = i
  BY RampTyped
<1>2. n + 1 \in Nat
  OBVIOUS
<1>3. /\ s \in Seq(Nat) /\ Len(s) = n + 1
      /\ \A i \in 1..n : s[i] = Ramp(n)[i]
      /\ s[n + 1] = n + 1
  BY <1>1, <1>2, AppendProperties
<1> HIDE DEF s
<1>4. \A i \in 1..(n + 1) : s[i] = i
  BY <1>1, <1>3
<1>5. s = Ramp(n + 1)
  BY <1>2, <1>3, <1>4, CountsUp
<1> QED
  BY <1>5 DEF s

LEMMA RampSub ==
  ASSUME NEW n \in Nat, NEW m \in Nat, m <= n
  PROVE  SubSeq(Ramp(n), 1, m) = Ramp(m)
<1>1. Ramp(n) \in Seq(Nat) /\ Len(Ramp(n)) = n /\ \A i \in 1..n : Ramp(n)[i] = i
  BY RampTyped
<1> DEFINE s == SubSeq(Ramp(n), 1, m)
<1>2. /\ s \in Seq(Nat) /\ Len(s) = m - 1 + 1
      /\ \A i \in 1..(m - 1 + 1) : s[i] = Ramp(n)[1 + i - 1]
  BY <1>1, PartOf
<1> HIDE DEF s
<1>3. \A i \in 1..m : s[i] = i
  BY <1>1, <1>2
<1>4. s = Ramp(m)
  BY <1>2, <1>3, CountsUp
<1> QED
  BY <1>4 DEF s

LEMMA RampExtends ==
  ASSUME NEW n \in Nat, NEW m \in Nat, m <= n
  PROVE  /\ SubSeq(Ramp(n), m + 1, n) \in Seq(Nat)
         /\ Ramp(m) \o SubSeq(Ramp(n), m + 1, n) = Ramp(n)
<1> DEFINE t == SubSeq(Ramp(n), m + 1, n)
           s == Ramp(m) \o t
<1>1. Ramp(n) \in Seq(Nat) /\ Len(Ramp(n)) = n /\ \A i \in 1..n : Ramp(n)[i] = i
  BY RampTyped
<1>2. Ramp(m) \in Seq(Nat) /\ Len(Ramp(m)) = m /\ \A i \in 1..m : Ramp(m)[i] = i
  BY RampTyped
<1>3. /\ t \in Seq(Nat) /\ Len(t) = n - (m + 1) + 1
      /\ \A i \in 1..(n - (m + 1) + 1) : t[i] = Ramp(n)[(m + 1) + i - 1]
  BY <1>1, PartOf
<1> HIDE DEF t
<1>4. /\ s \in Seq(Nat) /\ Len(s) = Len(Ramp(m)) + Len(t)
      /\ \A i \in 1..(Len(Ramp(m)) + Len(t)) :
           s[i] = IF i <= Len(Ramp(m)) THEN Ramp(m)[i] ELSE t[i - Len(Ramp(m))]
  BY <1>2, <1>3, ConcatProperties
<1> HIDE DEF s
<1>5. Len(s) = n
  BY <1>2, <1>3, <1>4
<1>6. ASSUME NEW i \in 1..n PROVE s[i] = i
  <2>1. s[i] = IF i <= m THEN i ELSE t[i - m]
    BY <1>2, <1>3, <1>4
  <2>2. ~(i <= m) => t[i - m] = i
    BY <1>1, <1>3
  <2> QED
    BY <2>1, <2>2
<1>7. s = Ramp(n)
  BY <1>4, <1>5, <1>6, CountsUp
<1> QED
  BY <1>3, <1>7 DEF s, t

-----------------------------------------------------------------------------
(* Where an answer ends *)

LEMMA StopTyped ==
  ASSUME Typed, NEW r \in Requests
  PROVE  /\ shape[r].prompt \in Nat \ {0} /\ shape[r].new \in Nat \ {0} /\ shape[r].eos \in Nat
         /\ Stop(r) \in 1..shape[r].new
<1>1. shape[r] \in [prompt : Nat \ {0}, new : Nat \ {0}, eos : Nat]
  BY WindowAssumption DEF Typed
<1> QED
  BY <1>1 DEF Stop, Greedy!Stop

(* Up to the end of the answer, only its end finishes a request. *)
LEMMA DoneAtStop ==
  ASSUME Typed, NEW r \in Requests, NEW n \in Nat, n <= Stop(r)
  PROVE  Done(r, Ramp(n)) <=> n = Stop(r)
<1>1. /\ shape[r].new \in Nat \ {0} /\ shape[r].eos \in Nat
      /\ Stop(r) \in 1..shape[r].new
  BY StopTyped
<1>2. CASE n = 0
  BY <1>1, <1>2, RampTyped DEF Done
<1>3. CASE n >= 1
  <2>1. Done(r, Ramp(n)) <=> n = shape[r].eos \/ n >= shape[r].new
    BY <1>3, RampTyped DEF Done
  <2> QED
    BY <1>1, <1>3, <2>1 DEF Stop, Greedy!Stop
<1> QED
  BY <1>2, <1>3

Least(m, n) == IF m <= n THEN m ELSE n

(* Recording a column that continues the recorded tokens stops at the end  *)
(* of the answer; a finished request records nothing.                      *)
LEMMA RecordedRamp ==
  ASSUME Typed, NEW r \in Requests, NEW g \in Nat, 1 <= g, g <= Stop(r),
         NEW column \in Seq(Nat),
         g < Stop(r) => \A n \in 1..Len(column) : column[n] = g + n
  PROVE  Recorded(r, Ramp(g), column) = Ramp(Least(Stop(r), g + Len(column)))
<1> DEFINE all == Ramp(g) \o column
           top == g + Len(column)
           ends == {n \in Len(Ramp(g))..Len(all) : Done(r, SubSeq(all, 1, n))}
<1>1. Ramp(g) \in Seq(Nat) /\ Len(Ramp(g)) = g /\ \A i \in 1..g : Ramp(g)[i] = i
  BY RampTyped
<1>2. Len(column) \in Nat /\ top \in Nat /\ g <= top
  BY LenProperties
<1>3. /\ all \in Seq(Nat) /\ Len(all) = top
      /\ \A i \in 1..top : all[i] = IF i <= g THEN Ramp(g)[i] ELSE column[i - g]
  <2>1. /\ all \in Seq(Nat) /\ Len(all) = Len(Ramp(g)) + Len(column)
        /\ \A i \in 1..(Len(Ramp(g)) + Len(column)) :
             all[i] = IF i <= Len(Ramp(g)) THEN Ramp(g)[i] ELSE column[i - Len(Ramp(g))]
    BY <1>1, ConcatProperties
  <2> QED
    BY <1>1, <2>1
<1>4. Stop(r) \in Nat
  BY StopTyped
<1>5. Recorded(r, Ramp(g), column) = IF ends = {} THEN all ELSE SubSeq(all, 1, Min(ends))
  BY DEF Recorded
<1>6. ends = {n \in g..top : Done(r, SubSeq(all, 1, n))}
  BY <1>1, <1>3
<1> HIDE DEF all, ends, top
<1>7. CASE g = Stop(r)
  <2>1. SubSeq(all, 1, g) = Ramp(g)
    <3> DEFINE s == SubSeq(all, 1, g)
    <3>1. s \in Seq(Nat) /\ Len(s) = g - 1 + 1 /\ \A i \in 1..(g - 1 + 1) : s[i] = all[1 + i - 1]
      BY <1>2, <1>3, PartOf
    <3> HIDE DEF s
    <3>2. \A i \in 1..g : s[i] = i
      BY <1>1, <1>2, <1>3, <3>1
    <3>3. s = Ramp(g)
      BY <3>1, <3>2, CountsUp
    <3> QED
      BY <3>3 DEF s
  <2>2. Done(r, SubSeq(all, 1, g))
    BY <1>7, <2>1, DoneAtStop
  <2>3. g \in ends /\ \A n \in ends : n \in Int /\ g <= n
    BY <1>2, <1>6, <2>2
  <2>4. Min(ends) = g
    BY <2>3, MinIs
  <2>5. Recorded(r, Ramp(g), column) = Ramp(g)
    BY <1>5, <2>1, <2>3, <2>4
  <2>6. Least(Stop(r), g + Len(column)) = g
    BY <1>2, <1>7 DEF Least, top
  <2> QED
    BY <2>5, <2>6
<1>8. CASE g < Stop(r)
  <2>1. all = Ramp(top)
    <3>1. ASSUME NEW i \in 1..top PROVE all[i] = i
      <4>1. CASE i <= g
        BY <1>1, <1>3, <4>1
      <4>2. CASE ~(i <= g)
        <5>1. i - g \in 1..Len(column)
          BY <1>2, <4>2 DEF top
        <5>2. column[i - g] = g + (i - g)
          BY <1>8, <5>1
        <5> QED
          BY <1>3, <4>2, <5>2
      <4> QED
        BY <4>1, <4>2
    <3> QED
      BY <1>2, <1>3, <3>1, CountsUp
  <2>2. ASSUME NEW n \in g..top PROVE SubSeq(all, 1, n) = Ramp(n)
    <3>1. n \in Nat /\ n <= top
      BY <1>2
    <3> QED
      BY <1>2, <2>1, <3>1, RampSub
  <2>3. ends = {n \in g..top : Done(r, Ramp(n))}
    BY <1>6, <2>2
  <2>4. ASSUME NEW n \in ends PROVE n \in Int /\ Stop(r) <= n
    <3>1. n \in Nat /\ Done(r, Ramp(n))
      BY <2>3
    <3>2. n <= Stop(r) => n = Stop(r)
      BY <3>1, DoneAtStop
    <3> QED
      BY <1>4, <3>1, <3>2
  <2>5. CASE Stop(r) <= top
    <3>1. Done(r, Ramp(Stop(r)))
      BY <1>4, DoneAtStop
    <3>2. Stop(r) \in ends
      BY <1>2, <1>4, <1>8, <2>3, <2>5, <3>1
    <3>3. Min(ends) = Stop(r)
      BY <2>4, <3>2, MinIs
    <3>4. SubSeq(all, 1, Stop(r)) = Ramp(Stop(r))
      BY <1>2, <1>4, <1>8, <2>2, <2>5
    <3> QED
      BY <1>5, <2>5, <3>2, <3>3, <3>4 DEF Least, top
  <2>6. CASE ~(Stop(r) <= top)
    <3>1. \A n \in ends : n <= top
      BY <1>2, <2>3
    <3>2. ends = {}
      BY <1>2, <1>4, <2>4, <2>6, <3>1
    <3> QED
      BY <1>5, <2>1, <2>6, <3>2 DEF Least, top
  <2> QED
    BY <2>5, <2>6
<1> QED
  BY <1>4, <1>7, <1>8
-----------------------------------------------------------------------------
(* Lists and batches *)

LEMMA WithoutSet ==
  ASSUME NEW s \in Seq(Requests), NEW D
  PROVE  /\ Without(s, D) \in Seq(Requests)
         /\ \A r : r \in ToSet(Without(s, D)) <=> r \in ToSet(s) /\ r \notin D
         /\ IsInjective(s) => IsInjective(Without(s, D))
  BY WithoutExact DEF ToSet, Range

LEMMA MembersAreRequests ==
  ASSUME NEW s \in Seq(Requests)
  PROVE  \A r \in ToSet(s) : r \in Requests
  BY LenProperties, ElementOfSeq DEF ToSet

(* A member of a batch has a column in its rows. *)
LEMMA ColumnTyped ==
  ASSUME NEW batch \in Seq(Requests), NEW rows \in Seq([DOMAIN batch -> Nat]),
         NEW r \in ToSet(batch)
  PROVE  /\ At(batch, r) \in DOMAIN batch /\ batch[At(batch, r)] = r
         /\ Column(batch, rows, r) \in Seq(Nat)
         /\ Len(Column(batch, rows, r)) = Len(rows) /\ Len(rows) \in Nat
         /\ \A n \in 1..Len(rows) : Column(batch, rows, r)[n] = rows[n][At(batch, r)]
<1>1. At(batch, r) \in DOMAIN batch /\ batch[At(batch, r)] = r
  BY DEF At, ToSet
<1>2. Len(rows) \in Nat /\ DOMAIN rows = 1..Len(rows)
      /\ \A n \in 1..Len(rows) : rows[n] \in [DOMAIN batch -> Nat]
  BY LenProperties, ElementOfSeq
<1>3. Column(batch, rows, r) = [n \in 1..Len(rows) |-> rows[n][At(batch, r)]]
  BY <1>2 DEF Column, At
<1>4. \A n \in 1..Len(rows) : rows[n][At(batch, r)] \in Nat
  BY <1>1, <1>2
<1> QED
  BY <1>1, <1>2, <1>3, <1>4

-----------------------------------------------------------------------------
(* Draining *)

LEMMA Numbers ==
  ASSUME Inv, NEW r \in Requests
  PROVE  /\ Len(generated[r]) \in Nat /\ generated[r] = Ramp(Len(generated[r]))
         /\ Len(generated[r]) <= Stop(r) /\ Stop(r) \in Nat /\ Stop(r) >= 1
         /\ Staged(r) \in Nat /\ Opened(r) \in Nat
         /\ Stop(r) <= shape[r].new /\ shape[r].new \in Nat /\ shape[r].prompt \in Nat
         /\ length[r] \in Nat /\ shape[r].prompt >= 1
<1>1. Len(generated[r]) \in Nat
  BY LenProperties DEF Inv, Typed
<1>2. Len(flush.rows) \in Nat /\ Len(window.rows) \in Nat
  BY LenProperties DEF Inv, Batched
<1>3. shape[r].new \in Nat /\ shape[r].prompt \in Nat \ {0} /\ Stop(r) \in 1..shape[r].new
  BY StopTyped DEF Inv
<1>4. generated[r] = Ramp(Len(generated[r])) /\ Len(generated[r]) <= Stop(r)
  BY DEF Inv, Promised
<1>5. length[r] \in Nat
  BY DEF Inv, Typed
<1>6. Staged(r) \in Nat /\ Opened(r) \in Nat
  BY <1>2 DEF Staged, Opened
<1>7. Stop(r) \in Nat /\ Stop(r) >= 1 /\ Stop(r) <= shape[r].new /\ shape[r].prompt >= 1
  BY <1>3
<1> QED
  BY <1>1, <1>3, <1>4, <1>5, <1>6, <1>7

\* The recorded tokens once the staged flush is consumed, and once all is.
Landed(r) ==
  IF Running(r) THEN Least(Stop(r), Len(generated[r]) + Staged(r)) ELSE Len(generated[r])

Target(r) ==
  IF Running(r) THEN Least(Stop(r), Len(generated[r]) + Staged(r) + Opened(r))
  ELSE Len(generated[r])

LEMMA TargetsTyped ==
  ASSUME Inv, NEW r \in Requests
  PROVE  /\ Landed(r) \in Nat /\ Len(generated[r]) <= Landed(r) /\ Landed(r) <= Stop(r)
         /\ Target(r) \in Nat /\ Len(generated[r]) <= Target(r) /\ Target(r) <= Stop(r)
         /\ ~Running(r) => Landed(r) = Len(generated[r]) /\ Target(r) = Len(generated[r])
         /\ Running(r) /\ Landed(r) # Stop(r) => Landed(r) = Len(generated[r]) + Staged(r)
         /\ Running(r) /\ Target(r) # Stop(r) =>
              Target(r) = Len(generated[r]) + Staged(r) + Opened(r)
<1> DEFINE g == Len(generated[r])
           u == Staged(r)
           w == Opened(r)
           s == Stop(r)
<1>1. g \in Nat /\ u \in Nat /\ w \in Nat /\ s \in Nat /\ g <= s
  BY Numbers
<1>2. Landed(r) = (IF Running(r) THEN Least(s, g + u) ELSE g)
      /\ Target(r) = (IF Running(r) THEN Least(s, g + u + w) ELSE g)
  BY DEF Landed, Target
<1> HIDE DEF g, u, w, s
<1>3. /\ Least(s, g + u) \in Nat /\ g <= Least(s, g + u) /\ Least(s, g + u) <= s
      /\ Least(s, g + u) # s => Least(s, g + u) = g + u
  BY <1>1 DEF Least
<1>4. /\ Least(s, g + u + w) \in Nat /\ g <= Least(s, g + u + w) /\ Least(s, g + u + w) <= s
      /\ Least(s, g + u + w) # s => Least(s, g + u + w) = g + u + w
  BY <1>1 DEF Least
<1>5. CASE Running(r)
  BY <1>2, <1>3, <1>4, <1>5 DEF g, u, w, s
<1>6. CASE ~Running(r)
  BY <1>1, <1>2, <1>6 DEF g, s
<1> QED
  BY <1>5, <1>6

LEMMA FlushColumn ==
  ASSUME Inv, NEW r \in ToSet(flush.requests)
  PROVE  LET column == Column(flush.requests, flush.rows, r)
         IN  /\ column \in Seq(Nat) /\ Len(column) = Len(flush.rows) /\ Len(column) \in Nat
             /\ \A n \in 1..Len(column) : column[n] = flush.rows[n][At(flush.requests, r)]
<1> DEFINE batch == flush.requests
           rows == flush.rows
<1>1. batch \in Seq(Requests) /\ rows \in Seq([DOMAIN batch -> Nat])
  BY DEF Inv, Batched
<1>2. r \in ToSet(batch)
  OBVIOUS
<1> HIDE DEF batch, rows
<1>3. /\ Column(batch, rows, r) \in Seq(Nat)
      /\ Len(Column(batch, rows, r)) = Len(rows) /\ Len(rows) \in Nat
      /\ \A n \in 1..Len(rows) : Column(batch, rows, r)[n] = rows[n][At(batch, r)]
  BY <1>1, <1>2, ColumnTyped, Zenon
<1> QED
  BY <1>3 DEF batch, rows

LEMMA WindowColumn ==
  ASSUME Inv, NEW r \in ToSet(window.requests)
  PROVE  LET column == Column(window.requests, window.rows, r)
         IN  /\ column \in Seq(Nat) /\ Len(column) = Len(window.rows) /\ Len(column) \in Nat
             /\ \A n \in 1..Len(column) : column[n] = window.rows[n][At(window.requests, r)]
<1> DEFINE batch == window.requests
           rows == window.rows
<1>1. batch \in Seq(Requests) /\ rows \in Seq([DOMAIN batch -> Nat])
  BY DEF Inv, Batched
<1>2. r \in ToSet(batch)
  OBVIOUS
<1> HIDE DEF batch, rows
<1>3. /\ Column(batch, rows, r) \in Seq(Nat)
      /\ Len(Column(batch, rows, r)) = Len(rows) /\ Len(rows) \in Nat
      /\ \A n \in 1..Len(rows) : Column(batch, rows, r)[n] = rows[n][At(batch, r)]
  BY <1>1, <1>2, ColumnTyped, Zenon
<1> QED
  BY <1>3 DEF batch, rows

LEMMA FlushLands ==
  ASSUME Inv, NEW r \in Requests
  PROVE  Consumed(generated, flush.requests, flush.rows)[r] = Ramp(Landed(r))
<1> DEFINE g == Len(generated[r])
           column == Column(flush.requests, flush.rows, r)
<1>1. /\ g \in Nat /\ generated[r] = Ramp(g) /\ g <= Stop(r) /\ Stop(r) \in Nat /\ Stop(r) >= 1
  BY Numbers
<1>2. CASE r \in ToSet(flush.requests)
  <2>1. /\ column \in Seq(Nat) /\ Len(column) = Len(flush.rows) /\ Len(column) \in Nat
        /\ \A n \in 1..Len(column) : column[n] = flush.rows[n][At(flush.requests, r)]
    BY <1>2, FlushColumn
  <2>2. Running(r) => Flight(r)
    BY DEF Inv
  <2>3. g < Stop(r) => Running(r)
    BY <1>1, <1>2 DEF Inv, Batched
  <2>4. 1 <= g
    BY <1>1, <2>2, <2>3 DEF Flight
  <2>5. g < Stop(r) => \A n \in 1..Len(column) : column[n] = g + n
    BY <1>2, <2>1, <2>2, <2>3 DEF Flight
  <2>6. Consumed(generated, flush.requests, flush.rows)[r] = Recorded(r, generated[r], column)
    BY <1>2 DEF Consumed
  <2> HIDE DEF g, column
  <2>7. Recorded(r, Ramp(g), column) = Ramp(Least(Stop(r), g + Len(column)))
    BY <1>1, <2>1, <2>4, <2>5, RecordedRamp DEF Inv
  <2>8. Least(Stop(r), g + Len(column)) = Landed(r)
    <3>1. Staged(r) = Len(column)
      BY <1>2, <2>1 DEF Staged
    <3>2. CASE Running(r)
      BY <3>1, <3>2 DEF Landed, g
    <3>3. CASE ~Running(r)
      <4>1. g = Stop(r)
        BY <1>1, <2>3, <3>3
      <4>2. Landed(r) = g
        BY <3>3 DEF Landed, g
      <4> QED
        BY <1>1, <2>1, <4>1, <4>2 DEF Least
    <3> QED
      BY <3>2, <3>3
  <2> QED
    BY <1>1, <2>6, <2>7, <2>8
<1>3. CASE r \notin ToSet(flush.requests)
  <2>1. Consumed(generated, flush.requests, flush.rows)[r] = generated[r]
    BY <1>3 DEF Consumed
  <2>2. Landed(r) = g
    BY <1>1, <1>3 DEF Landed, Least, Staged
  <2> QED
    BY <1>1, <2>1, <2>2
<1> QED
  BY <1>2, <1>3

LEMMA DrainLands ==
  ASSUME Inv, NEW r \in Requests
  PROVE  Drained(generated)[r] = Ramp(Target(r))
<1> DEFINE gen == Consumed(generated, flush.requests, flush.rows)
           g == Len(generated[r])
           k == Landed(r)
           column == Column(window.requests, window.rows, r)
<1>1. /\ g \in Nat /\ g <= Stop(r) /\ Stop(r) \in Nat /\ Stop(r) >= 1
      /\ Staged(r) \in Nat /\ Opened(r) \in Nat
  BY Numbers
<1>2. gen[r] = Ramp(k)
  BY FlushLands
<1>3. /\ k \in Nat /\ g <= k /\ k <= Stop(r)
      /\ Running(r) /\ k # Stop(r) => k = g + Staged(r)
      /\ ~Running(r) => k = g
  BY TargetsTyped
<1>4. Drained(generated)[r] =
        IF r \in ToSet(window.requests) THEN Recorded(r, gen[r], column) ELSE gen[r]
  BY DEF Drained, Consumed
<1> HIDE DEF gen
<1>5. CASE r \in ToSet(window.requests)
  <2>1. /\ column \in Seq(Nat) /\ Len(column) = Len(window.rows) /\ Len(column) \in Nat
        /\ \A n \in 1..Len(column) : column[n] = window.rows[n][At(window.requests, r)]
    BY <1>5, WindowColumn
  <2>2. Running(r)
    <3>1. window # Closed
      BY <1>5 DEF Closed, ToSet
    <3> QED
      BY <1>5, <3>1 DEF Inv, Batched
  <2>3. Flight(r)
    BY <2>2 DEF Inv
  <2>4. 1 <= k
    BY <1>1, <1>3, <2>3 DEF Flight
  <2>5. k < Stop(r) => \A n \in 1..Len(column) : column[n] = k + n
    <3>1. k < Stop(r) => k = g + Staged(r)
      BY <1>1, <1>3, <2>2
    <3>2. \A n \in 1..Len(window.rows) :
            window.rows[n][At(window.requests, r)] = g + Staged(r) + n
      BY <1>5, <2>3 DEF Flight
    <3> QED
      BY <2>1, <3>1, <3>2
  <2> HIDE DEF g, k, column
  <2>6. Recorded(r, Ramp(k), column) = Ramp(Least(Stop(r), k + Len(column)))
    BY <1>3, <2>1, <2>4, <2>5, RecordedRamp DEF Inv
  <2>7. Opened(r) = Len(column)
    BY <1>5, <2>1 DEF Opened
  <2>8. Least(Stop(r), k + Len(column)) = Target(r)
    BY <1>1, <1>3, <2>1, <2>2, <2>7 DEF Landed, Target, Least, g, k
  <2> QED
    BY <1>2, <1>4, <1>5, <2>6, <2>8
<1>6. CASE r \notin ToSet(window.requests)
  <2>1. Target(r) = k
    BY <1>1, <1>6 DEF Landed, Target, Opened
  <2> QED
    BY <1>2, <1>4, <1>6, <2>1
<1> QED
  BY <1>5, <1>6

-----------------------------------------------------------------------------
(* Recording more of the answers *)

\* gen holds k of each answer, more than is recorded only for requests that run.
Advances(gen, k) ==
  /\ gen \in [Requests -> Seq(Nat)]
  /\ \A r \in Requests :
       /\ k[r] \in Nat /\ gen[r] = Ramp(k[r])
       /\ Len(generated[r]) <= k[r] /\ k[r] <= Stop(r)
       /\ r \notin ToSet(running) => k[r] = Len(generated[r])

Targets == [r \in Requests |-> Target(r)]
Landings == [r \in Requests |-> Landed(r)]
Lengths == [r \in Requests |-> Len(generated[r])]

LEMMA DrainAdvances ==
  ASSUME Inv
  PROVE  /\ Advances(Drained(generated), Targets)
         /\ Advances(Consumed(generated, flush.requests, flush.rows), Landings)
         /\ Advances(generated, Lengths)
<1>1. ASSUME NEW r \in Requests, r \notin ToSet(running) PROVE ~Running(r)
  BY <1>1 DEF Running
<1>2. \A r \in Requests : Targets[r] = Target(r) /\ Landings[r] = Landed(r)
                          /\ Lengths[r] = Len(generated[r])
  BY DEF Targets, Landings, Lengths
<1>3. Drained(generated) \in [Requests -> Seq(Nat)]
  <2>1. \A r \in Requests : Drained(generated)[r] \in Seq(Nat)
    BY DrainLands, TargetsTyped, RampTyped
  <2>2. Drained(generated) = [r \in Requests |-> Drained(generated)[r]]
    BY DEF Drained, Consumed
  <2> QED
    BY <2>1, <2>2
<1>4. Consumed(generated, flush.requests, flush.rows) \in [Requests -> Seq(Nat)]
  <2> DEFINE gen == Consumed(generated, flush.requests, flush.rows)
  <2>1. \A r \in Requests : gen[r] \in Seq(Nat)
    BY FlushLands, TargetsTyped, RampTyped
  <2>2. gen = [r \in Requests |-> gen[r]]
    BY DEF Consumed
  <2> QED
    BY <2>1, <2>2
<1>5. Advances(Drained(generated), Targets)
  BY <1>1, <1>2, <1>3, DrainLands, TargetsTyped DEF Advances
<1>6. Advances(Consumed(generated, flush.requests, flush.rows), Landings)
  BY <1>1, <1>2, <1>4, FlushLands, TargetsTyped DEF Advances
<1>7. Advances(generated, Lengths)
  <2>1. generated \in [Requests -> Seq(Nat)]
    BY DEF Inv, Typed
  <2> QED
    BY <1>2, <2>1, Numbers DEF Advances
<1> QED
  BY <1>5, <1>6, <1>7

(* The finishers are the running requests whose answers are complete. *)
LEMMA OverIs ==
  ASSUME Inv, NEW gen, NEW k, Advances(gen, k)
  PROVE  \A r \in Requests : r \in Over(gen) <=> r \in ToSet(running) /\ k[r] = Stop(r)
<1>1. ASSUME NEW r \in Requests PROVE Done(r, gen[r]) <=> k[r] = Stop(r)
  <2>1. k[r] \in Nat /\ k[r] <= Stop(r) /\ gen[r] = Ramp(k[r])
    BY DEF Advances
  <2> QED
    BY <2>1, DoneAtStop DEF Inv
<1> QED
  BY <1>1 DEF Over

(* What is recorded goes on its way. *)
LEMMA NewFollows ==
  ASSUME Inv, NEW gen, NEW k, Advances(gen, k), NEW r \in Requests
  PROVE  New(gen)[r] \in Seq(Nat) /\ generated[r] \o New(gen)[r] = gen[r]
<1>1. /\ Len(generated[r]) \in Nat /\ generated[r] = Ramp(Len(generated[r]))
      /\ k[r] \in Nat /\ gen[r] = Ramp(k[r]) /\ Len(generated[r]) <= k[r] /\ Len(gen[r]) = k[r]
  BY Numbers, RampTyped DEF Advances
<1>2. New(gen)[r] = SubSeq(Ramp(k[r]), Len(generated[r]) + 1, k[r])
  BY <1>1 DEF New
<1> DEFINE m == Len(generated[r])
           n == k[r]
<1> HIDE DEF m, n
<1>3. SubSeq(Ramp(n), m + 1, n) \in Seq(Nat) /\ Ramp(m) \o SubSeq(Ramp(n), m + 1, n) = Ramp(n)
  BY <1>1, RampExtends DEF m, n
<1> QED
  BY <1>1, <1>2, <1>3 DEF m, n
LEMMA Associative ==
  ASSUME NEW a \in Seq(Nat), NEW b \in Seq(Nat), NEW c \in Seq(Nat)
  PROVE  a \o (b \o c) = (a \o b) \o c
<1>1. (a \o b) \o c = a \o (b \o c)
  BY ConcatAssociative
<1> QED
  BY <1>1, Zenon

(* What a pass records joins its result, what an abort records its stash:  *)
(* either way it is next in line.                                          *)
LEMMA PromiseKept ==
  ASSUME Inv, NEW gen, NEW k, Advances(gen, k)
  PROVE  /\ Plus(result, gen) \in [Requests -> Seq(Nat)]
         /\ Plus(stash, gen) \in [Requests -> Seq(Nat)]
         /\ phase \in {"prefill", "decode", "return"} =>
              \A r \in Requests : sent[r] \o Plus(result, gen)[r] \o stash[r] = gen[r]
         /\ phase = "between" =>
              \A r \in Requests : sent[r] \o result[r] \o Plus(stash, gen)[r] = gen[r]
<1>1. ASSUME NEW r \in Requests
      PROVE  /\ sent[r] \in Seq(Nat) /\ result[r] \in Seq(Nat) /\ stash[r] \in Seq(Nat)
             /\ New(gen)[r] \in Seq(Nat) /\ generated[r] \o New(gen)[r] = gen[r]
             /\ sent[r] \o result[r] \o stash[r] = generated[r]
             /\ phase = "between" => result[r] = <<>>
             /\ phase \in {"prefill", "decode", "return"} => stash[r] = <<>>
             /\ Plus(result, gen)[r] = result[r] \o New(gen)[r]
             /\ Plus(stash, gen)[r] = stash[r] \o New(gen)[r]
  <2>1. New(gen)[r] \in Seq(Nat) /\ generated[r] \o New(gen)[r] = gen[r]
    BY NewFollows
  <2>2. sent[r] \in Seq(Nat) /\ result[r] \in Seq(Nat) /\ stash[r] \in Seq(Nat)
    BY DEF Inv, Typed
  <2> QED
    BY <2>1, <2>2 DEF Inv, Promised, Nothing, Plus
<1>2. ASSUME NEW r \in Requests
      PROVE  Plus(result, gen)[r] \in Seq(Nat) /\ Plus(stash, gen)[r] \in Seq(Nat)
  <2> DEFINE b == result[r]
             c == stash[r]
             n == New(gen)[r]
  <2>1. b \in Seq(Nat) /\ c \in Seq(Nat) /\ n \in Seq(Nat)
        /\ Plus(result, gen)[r] = b \o n /\ Plus(stash, gen)[r] = c \o n
    BY <1>1
  <2> HIDE DEF b, c, n
  <2> QED
    BY <2>1, ConcatProperties
<1>3. ASSUME NEW r \in Requests, phase \in {"prefill", "decode", "return"}
      PROVE  sent[r] \o Plus(result, gen)[r] \o stash[r] = gen[r]
  <2> DEFINE a == sent[r]
             b == result[r]
             n == New(gen)[r]
  <2>1. a \in Seq(Nat) /\ b \in Seq(Nat) /\ n \in Seq(Nat)
        /\ stash[r] = <<>> /\ Plus(result, gen)[r] = b \o n
        /\ (a \o b) \o <<>> = generated[r] /\ generated[r] \o n = gen[r]
    BY <1>1, <1>3
  <2> HIDE DEF a, b, n
  <2>2. (a \o b) \in Seq(Nat) /\ (a \o (b \o n)) \in Seq(Nat)
    BY <2>1, ConcatProperties
  <2>3. a \o (b \o n) = (a \o b) \o n
    BY <2>1, Associative
  <2>4. (a \o b) \o <<>> = a \o b /\ (a \o (b \o n)) \o <<>> = a \o (b \o n)
    BY <2>2, ConcatEmptySeq
  <2> QED
    BY <2>1, <2>3, <2>4 DEF a
<1>4. ASSUME NEW r \in Requests, phase = "between"
      PROVE  sent[r] \o result[r] \o Plus(stash, gen)[r] = gen[r]
  <2> DEFINE a == sent[r]
             c == stash[r]
             n == New(gen)[r]
  <2>1. a \in Seq(Nat) /\ c \in Seq(Nat) /\ n \in Seq(Nat)
        /\ result[r] = <<>> /\ Plus(stash, gen)[r] = c \o n
        /\ (a \o <<>>) \o c = generated[r] /\ generated[r] \o n = gen[r]
    BY <1>1, <1>4
  <2> HIDE DEF a, c, n
  <2>2. a \o <<>> = a
    BY <2>1, ConcatEmptySeq
  <2>3. a \o (c \o n) = (a \o c) \o n
    BY <2>1, Associative
  <2> QED
    BY <2>1, <2>2, <2>3 DEF a
<1>5. DOMAIN Plus(result, gen) = Requests /\ DOMAIN Plus(stash, gen) = Requests
      /\ Plus(result, gen) = [r \in Requests |-> Plus(result, gen)[r]]
      /\ Plus(stash, gen) = [r \in Requests |-> Plus(stash, gen)[r]]
  BY DEF Plus
<1> QED
  BY <1>2, <1>3, <1>4, <1>5

-----------------------------------------------------------------------------
(* The block budget *)

Cost(sh) == [r \in Requests |-> Positions(sh[r].prompt + sh[r].new - 1)]

\* The blocks reserved for the requests in S.
Needed(sh, S) == SumOver(Cost(sh), S)

LEMMA CostIsNat ==
  ASSUME NEW sh \in [Requests -> Shapes], NEW r \in Requests
  PROVE  Cost(sh)[r] \in Nat
<1>1. sh[r].prompt \in Nat \ {0} /\ sh[r].new \in Nat \ {0}
  BY WindowAssumption
<1>2. sh[r].prompt + sh[r].new - 1 + BlockSize - 1 \in Nat /\ BlockSize \in Nat \ {0}
  BY <1>1, WindowAssumption
<1>3. Cost(sh)[r] = (sh[r].prompt + sh[r].new - 1 + BlockSize - 1) \div BlockSize
  BY DEF Cost, Positions
<1> DEFINE m == sh[r].prompt + sh[r].new - 1 + BlockSize - 1
<1>4. m \in Nat /\ m \div BlockSize \in Nat
  <2> HIDE DEF m
  <2>1. m \in Nat
    BY <1>2 DEF m
  <2> QED
    BY <1>2, <2>1
<1> QED
  BY <1>3, <1>4

LEMMA NeededJoins ==
  ASSUME NEW sh \in [Requests -> Shapes], NEW S \in SUBSET Requests, NEW T \in SUBSET S
  PROVE  /\ Needed(sh, S) = Needed(sh, T) + Needed(sh, S \ T)
         /\ Needed(sh, T) \in Nat /\ Needed(sh, S) \in Nat /\ Needed(sh, S \ T) \in Nat
<1>1. IsFiniteSet(S) /\ IsFiniteSet(T) /\ IsFiniteSet(S \ T)
  BY WindowAssumption, FS_Subset
<1>2. \A x \in S : Cost(sh)[x] \in Nat
  BY CostIsNat
<1>3. SumOver(Cost(sh), S) = SumOver(Cost(sh), T) + SumOver(Cost(sh), S \ T)
  BY <1>1, <1>2, SumJoins
<1>4. \A s \in SUBSET S : SumOver(Cost(sh), s) \in Nat
  BY <1>1, <1>2, SumIsNat
<1> QED
  BY <1>3, <1>4 DEF Needed

LEMMA NeededIs ==
  ASSUME NEW S \in SUBSET Requests
  PROVE  MapThenSumSet(MaxBlocksFor, S) = Needed(shape, S)
<1> DEFINE Here(it) == it = [s \in SUBSET S |->
             IF s = {} THEN 0 ELSE MaxBlocksFor(Pick(s)) + it[s \ {Pick(s)}]]
           Sums(it) == Unfolds(it, Cost(shape), S)
<1>1. MapThenSumSet(MaxBlocksFor, S) = (CHOOSE it : Here(it))[S]
  BY DEF MapThenSumSet, MapThenFoldSet, Pick
<1>2. Needed(shape, S) = (CHOOSE it : Sums(it))[S]
  BY SumUnfolds DEF Partial, Needed
<1>3. ASSUME NEW it PROVE Here(it) <=> Sums(it)
  <2>1. \A s \in SUBSET S : s # {} => Pick(s) \in Requests
    BY DEF Pick
  <2>2. \A s \in SUBSET S :
          (IF s = {} THEN 0 ELSE MaxBlocksFor(Pick(s)) + it[s \ {Pick(s)}])
          = Adds(it, Cost(shape), s)
    BY <2>1 DEF Adds, Cost, MaxBlocksFor
  <2>3. [s \in SUBSET S |-> IF s = {} THEN 0 ELSE MaxBlocksFor(Pick(s)) + it[s \ {Pick(s)}]]
        = [s \in SUBSET S |-> Adds(it, Cost(shape), s)]
    BY <2>2
  <2> QED
    BY <2>3 DEF Unfolds
<1> HIDE DEF Here, Sums
<1>4. (CHOOSE it : Here(it)) = (CHOOSE it : Sums(it))
  BY <1>3, Zenon
<1> QED
  BY <1>1, <1>2, <1>4

LEMMA CommittedIs == Typed => Committed = Needed(shape, ToSet(running))
<1> SUFFICES ASSUME Typed PROVE Committed = Needed(shape, ToSet(running))
  OBVIOUS
<1>1. ToSet(running) \in SUBSET Requests
  BY MembersAreRequests DEF Typed
<1> QED
  BY <1>1, NeededIs DEF Committed

(* Fewer running requests need no more blocks. *)
LEMMA ReservedKept ==
  ASSUME Inv, Typed', shape' = shape, ToSet(running') \subseteq ToSet(running)
  PROVE  Reserved'
<1>1. (Committed = Needed(shape, ToSet(running)))'
  BY CommittedIs, PTL
<1>2. Committed = Needed(shape, ToSet(running))
  BY CommittedIs DEF Inv
<1>3. ToSet(running) \in SUBSET Requests /\ shape \in [Requests -> Shapes]
  BY MembersAreRequests DEF Inv, Typed
<1>4. /\ Needed(shape, ToSet(running')) \in Nat /\ Needed(shape, ToSet(running)) \in Nat
      /\ Needed(shape, ToSet(running) \ ToSet(running')) \in Nat
      /\ Needed(shape, ToSet(running))
         = Needed(shape, ToSet(running')) + Needed(shape, ToSet(running) \ ToSet(running'))
  <2> DEFINE S == ToSet(running)
             T == ToSet(running')
  <2>1. S \in SUBSET Requests /\ T \in SUBSET S /\ shape \in [Requests -> Shapes]
    BY <1>3
  <2> HIDE DEF S, T
  <2>2. /\ Needed(shape, S) = Needed(shape, T) + Needed(shape, S \ T)
        /\ Needed(shape, T) \in Nat /\ Needed(shape, S) \in Nat /\ Needed(shape, S \ T) \in Nat
    BY <2>1, NeededJoins
  <2> QED
    BY <2>2 DEF S, T
<1>5. Committed <= NumBlocks /\ NumBlocks \in Nat
  BY WindowAssumption DEF Inv, Reserved
<1>6. Committed' <= NumBlocks
  BY <1>1, <1>2, <1>4, <1>5
<1> QED
  BY <1>6 DEF Reserved
-----------------------------------------------------------------------------
(* Recording tokens and releasing requests *)

\* Record gen, tables at len; the requests in left leave the scheduler and lose their tables.
Releases(gen, len, left) ==
  /\ generated' = gen
  /\ running' = Without(running, left)
  /\ length' = [q \in Requests |-> IF q \in left THEN 0 ELSE len[q]]

\* Running requests have tables, and no other request has.
Tabled(len) ==
  /\ len \in [Requests -> Nat]
  /\ \A r \in Requests : r \in ToSet(running) <=> len[r] > 0

LEMMA AfterRelease ==
  ASSUME Inv, NEW gen, NEW k, Advances(gen, k), NEW len, Tabled(len),
         NEW left, Over(gen) \subseteq left, Releases(gen, len, left), shape' = shape
  PROVE  /\ generated' \in [Requests -> Seq(Nat)] /\ length' \in [Requests -> Nat]
         /\ running' \in Seq(Requests)
         /\ \A r \in Requests :
              /\ generated'[r] = Ramp(k[r]) /\ Len(generated'[r]) = k[r] /\ k[r] <= Stop(r)
              /\ k[r] \in Nat /\ Len(generated[r]) <= k[r]
              /\ Stop(r)' = Stop(r)
              /\ r \in ToSet(running') <=> r \in ToSet(running) /\ r \notin left
              /\ Running(r)' <=> r \in ToSet(running')
              /\ r \in ToSet(running') => k[r] < Stop(r) /\ length'[r] = len[r] /\ length'[r] > 0
              /\ r \notin ToSet(running') => length'[r] = 0
              /\ r \notin ToSet(running) => k[r] = Len(generated[r])
<1>1. running \in Seq(Requests)
  BY DEF Inv, Typed
<1>2. running' \in Seq(Requests) /\ \A r : r \in ToSet(running') <=> r \in ToSet(running) /\ r \notin left
  BY <1>1, WithoutSet DEF Releases
<1>3. length' \in [Requests -> Nat]
      /\ \A r \in Requests : length'[r] = IF r \in left THEN 0 ELSE len[r]
  BY DEF Releases, Tabled
<1>4. ASSUME NEW r \in Requests
      PROVE  /\ generated'[r] = Ramp(k[r]) /\ Len(generated'[r]) = k[r] /\ k[r] <= Stop(r)
             /\ k[r] \in Nat /\ Len(generated[r]) <= k[r] /\ Stop(r) \in Nat
             /\ generated'[r] \in Seq(Nat)
             /\ r \notin ToSet(running) => k[r] = Len(generated[r])
  <2>1. k[r] \in Nat /\ gen[r] = Ramp(k[r]) /\ k[r] <= Stop(r) /\ Len(generated[r]) <= k[r]
        /\ (r \notin ToSet(running) => k[r] = Len(generated[r]))
    BY DEF Advances
  <2> QED
    BY <2>1, RampTyped, Numbers DEF Releases
<1>5. generated' \in [Requests -> Seq(Nat)]
  BY DEF Releases, Advances
<1>6. ASSUME NEW r \in Requests
      PROVE  /\ r \in ToSet(running') => k[r] < Stop(r) /\ length'[r] = len[r] /\ length'[r] > 0
             /\ r \notin ToSet(running') => length'[r] = 0
  <2>1. r \in Over(gen) <=> r \in ToSet(running) /\ k[r] = Stop(r)
    BY OverIs
  <2>2. r \in ToSet(running') => k[r] # Stop(r)
    BY <1>2, <2>1
  <2>3. r \in ToSet(running) <=> len[r] > 0
    BY DEF Tabled
  <2>4. len[r] \in Nat /\ length'[r] = IF r \in left THEN 0 ELSE len[r]
    BY <1>3 DEF Tabled
  <2> QED
    BY <1>2, <1>4, <2>2, <2>3, <2>4
<1>7. \A r \in Requests : Stop(r)' = Stop(r)
  BY DEF Stop
<1>8. \A r \in Requests : Running(r)' <=> r \in ToSet(running')
  BY <1>6 DEF Running
<1> QED
  BY <1>2, <1>3, <1>4, <1>5, <1>6, <1>7, <1>8

\* Answers only grow, and only the answers of requests that run.
Records ==
  \A r \in Requests :
    /\ Len(generated[r]) <= Len(generated'[r])
    /\ r \notin ToSet(running) => Len(generated'[r]) = Len(generated[r])

(* Settling a pass leaves the queues, the promise and the budget in order. *)
LEMMA SettleKeeps ==
  ASSUME Inv, NEW gen, NEW k, Advances(gen, k), NEW len, Tabled(len),
         Settle(gen, len), result' = Plus(result, gen),
         UNCHANGED <<ids, deferrable, waiting, stash, sent>>,
         phase \in {"prefill", "decode"}, phase' \in {"decode", "return"},
         prefilling' \in Seq(Requests), decoding' \in Seq(Requests),
         phase' = "decode" => \A r \in ToSet(decoding') : r \in ToSet(running) /\ k[r] # Stop(r)
  PROVE  Typed' /\ Queued' /\ Promised' /\ Reserved' /\ Records
<1> DEFINE left == Over(gen)
<1>1. Releases(gen, len, left) /\ Over(gen) \subseteq left
  BY DEF Settle, Releases
<1>2. shape' = shape /\ arrived' = arrived /\ gone' = gone /\ deferrable' = deferrable
      /\ waiting' = waiting /\ stash' = stash /\ sent' = sent
  BY DEF ids
<1>3. \A r \in Requests : r \in left <=> r \in ToSet(running) /\ k[r] = Stop(r)
  BY OverIs
<1> HIDE DEF left
<1>4. /\ generated' \in [Requests -> Seq(Nat)] /\ length' \in [Requests -> Nat]
      /\ running' \in Seq(Requests)
      /\ \A r \in Requests :
           /\ generated'[r] = Ramp(k[r]) /\ Len(generated'[r]) = k[r] /\ k[r] <= Stop(r)
           /\ k[r] \in Nat /\ Len(generated[r]) <= k[r]
           /\ Stop(r)' = Stop(r)
           /\ r \in ToSet(running') <=> r \in ToSet(running) /\ r \notin left
           /\ r \in ToSet(running') => k[r] < Stop(r) /\ length'[r] = len[r] /\ length'[r] > 0
           /\ r \notin ToSet(running') => length'[r] = 0
           /\ r \notin ToSet(running) => k[r] = Len(generated[r])
  BY <1>1, <1>2, AfterRelease
<1>5. /\ result' \in [Requests -> Seq(Nat)]
      /\ \A r \in Requests : sent[r] \o result'[r] \o stash[r] = gen[r]
  BY PromiseKept
<1>6. Typed'
  BY <1>2, <1>4, <1>5 DEF Inv, Typed, Phases
<1>7. ToSet(running) \subseteq Requests /\ ToSet(waiting) \subseteq Requests
  BY MembersAreRequests DEF Inv, Typed
<1>8. ToSet(running') \subseteq ToSet(running)
  <2>1. ASSUME NEW r \in ToSet(running') PROVE r \in ToSet(running)
    <3>1. r \in Requests
      BY <1>4, MembersAreRequests
    <3> QED
      BY <1>4, <3>1
  <2> QED
    BY <2>1
<1>9. Queued'
  <2>1. \A r \in ToSet(waiting') : r \notin ToSet(running') /\ generated'[r] = <<>>
    <3>1. ASSUME NEW r \in ToSet(waiting)
          PROVE  r \in Requests /\ r \notin ToSet(running) /\ generated[r] = <<>>
      BY <1>7 DEF Inv, Queued
    <3>2. ASSUME NEW r \in ToSet(waiting) PROVE r \notin ToSet(running') /\ generated'[r] = <<>>
      <4>1. r \in Requests /\ r \notin ToSet(running) /\ Len(generated[r]) = 0
        BY <3>1
      <4>2. generated'[r] = Ramp(0)
        BY <1>4, <4>1
      <4> QED
        BY <1>4, <4>1, <4>2, RampTyped
    <3> QED
      BY <1>2, <3>2
  <2>2. \A r \in Requests \ arrived' : generated'[r] = <<>>
    <3>1. ASSUME NEW r \in Requests, r \notin arrived PROVE generated'[r] = <<>>
      <4>1. r \notin ToSet(running) /\ generated[r] = <<>>
        BY <3>1 DEF Inv, Queued
      <4>2. generated'[r] = Ramp(0)
        BY <1>4, <4>1
      <4> QED
        BY <4>2, RampTyped
    <3> QED
      BY <1>2, <3>1
  <2>3. \A r \in ToSet(running') : length'[r] > 0
    BY <1>4, <1>7, <1>8
  <2>4. \A r \in Requests \ ToSet(running') : length'[r] = 0
    BY <1>4
  <2>5. phase' \in {"prefill", "decode"} =>
          \A r \in ToSet(decoding') : r \in ToSet(running') /\ length'[r] > 0
    <3>1. ASSUME phase' = "decode", NEW r \in ToSet(decoding')
          PROVE  r \in ToSet(running') /\ length'[r] > 0
      <4>1. r \in Requests /\ r \in ToSet(running) /\ k[r] # Stop(r)
        BY <1>7, <3>1
      <4> QED
        BY <1>3, <1>4, <4>1
    <3> QED
      BY <3>1
  <2>6. IsInjective(waiting') /\ ToSet(waiting') \cup ToSet(running') \subseteq arrived' \ gone'
    BY <1>2, <1>8 DEF Inv, Queued
  <2>7. \A r \in ToSet(running') : length'[r] # 0
    BY <1>4, <2>3
  <2> QED
    BY <2>1, <2>2, <2>4, <2>5, <2>6, <2>7 DEF Queued
<1>10. Promised'
  <2>1. \A r \in Requests : generated'[r] = Ramp(Len(generated'[r])) /\ Len(generated'[r]) <= Stop(r)'
    BY <1>4
  <2>2. \A r \in Requests : sent'[r] \o result'[r] \o stash'[r] = generated'[r]
    BY <1>1, <1>2, <1>5 DEF Releases
  <2>3. stash' = Nothing
    BY <1>2 DEF Inv, Promised
  <2> QED
    BY <2>1, <2>2, <2>3 DEF Promised
<1>11. Reserved'
  BY <1>2, <1>6, <1>8, ReservedKept
<1>12. Records
  BY <1>4 DEF Records
<1> QED
  BY <1>6, <1>9, <1>10, <1>11, <1>12

LEMMA Shaped ==
  Typed => \A r \in Requests :
    shape[r].prompt \in Nat \ {0} /\ shape[r].new \in Nat \ {0} /\ Stop(r) \in 1..shape[r].new
  BY StopTyped

(* With nothing staged and no window open, a table holds what was recorded. *)
LEMMA NothingInFlight ==
  ASSUME window' = Closed, flush' = Unstaged, Typed',
         \A r \in Requests : Running(r)' =>
           /\ 1 <= Len(generated'[r]) /\ Len(generated'[r]) < Stop(r)'
           /\ length'[r] = shape'[r].prompt + Len(generated'[r]) - 1
  PROVE  Batched' /\ \A r \in Requests : Running(r)' => Flight(r)'
<1>0. (\A r \in Requests : shape[r].prompt \in Nat \ {0} /\ shape[r].new \in Nat \ {0}
                          /\ Stop(r) \in 1..shape[r].new)'
  BY Shaped, PTL
<1>1. /\ window' = [requests |-> <<>>, budget |-> 0, rows |-> <<>>]
      /\ flush' = [requests |-> <<>>, rows |-> <<>>]
  BY DEF Closed, Unstaged
<1>2. \A r : r \notin ToSet(window'.requests) /\ r \notin ToSet(flush'.requests)
  BY <1>1 DEF ToSet
<1>3. Batched'
  <2>1. window'.requests \in Seq(Requests) /\ window'.budget \in Nat
        /\ flush'.requests \in Seq(Requests)
    BY <1>1
  <2>2. window'.rows \in Seq([DOMAIN window'.requests -> Nat])
        /\ flush'.rows \in Seq([DOMAIN flush'.requests -> Nat])
    BY <1>1
  <2> QED
    BY <1>2, <2>1, <2>2 DEF Batched
<1>4. ASSUME NEW r \in Requests, Running(r)' PROVE Flight(r)'
  <2>1. (Stop(r) \in 1..shape[r].new)' /\ (shape[r].prompt \in Nat)' /\ (shape[r].new \in Nat)'
    BY <1>0
  <2>2. Staged(r)' = 0 /\ Opened(r)' = 0
    BY <1>2 DEF Staged, Opened
  <2>3. Len(generated'[r]) \in Nat
    BY LenProperties DEF Typed
  <2>4. /\ 1 <= Len(generated'[r]) /\ Len(generated'[r]) < Stop(r)'
        /\ length'[r] = shape'[r].prompt + Len(generated'[r]) - 1
    BY <1>4
  <2> QED
    BY <1>2, <2>1, <2>2, <2>3, <2>4 DEF Flight
<1> QED
  BY <1>3, <1>4
-----------------------------------------------------------------------------
(* Steps that leave the tables and the windows alone *)

LEMMA OutsidePrefill ==
  ASSUME Inv, phase # "prefill"
  PROVE  Tabled(length) /\ \A r \in Requests : Running(r) <=> r \in ToSet(running)
<1>1. length \in [Requests -> Nat]
  BY DEF Inv, Typed
<1>2. \A r \in Requests : length[r] \in Nat /\ (r \in ToSet(running) <=> length[r] > 0)
  BY <1>1 DEF Inv, Queued
<1> QED
  BY <1>1, <1>2 DEF Tabled, Running

LEMMA FlightKept ==
  ASSUME Inv, UNCHANGED <<shape, generated, length, window, flush>>,
         \A r \in Requests : Running(r)' <=> Running(r)
  PROVE  Batched' /\ \A r \in Requests : Running(r)' => Flight(r)'
<1>1. shape' = shape /\ generated' = generated /\ window' = window /\ flush' = flush
      /\ length' = length
  OBVIOUS
<1>2. \A r \in Requests : Staged(r)' = Staged(r) /\ Opened(r)' = Opened(r) /\ Stop(r)' = Stop(r)
  BY <1>1 DEF Staged, Opened, Stop
<1>3. window.requests \in Seq(Requests) /\ flush.requests \in Seq(Requests)
  BY DEF Inv, Batched
<1>4. (\A r \in ToSet(window.requests) : r \in Requests)
      /\ (\A r \in ToSet(flush.requests) : r \in Requests)
  BY <1>3, MembersAreRequests
<1>5. Batched'
  BY <1>1, <1>2, <1>4 DEF Inv, Batched
<1>6. ASSUME NEW r \in Requests, Running(r)' PROVE Flight(r)'
  <2>1. Flight(r)
    BY <1>6 DEF Inv
  <2> QED
    BY <1>1, <1>2, <2>1 DEF Flight
<1> QED
  BY <1>5, <1>6

LEMMA DieKeeps ==
  ASSUME Inv, phase # "prefill", Die
  PROVE  Inv' /\ Records
<1>1. /\ shape' = shape /\ arrived' = arrived /\ gone' = gone /\ deferrable' = deferrable
      /\ waiting' = waiting /\ running' = running /\ generated' = generated /\ length' = length
      /\ window' = window /\ flush' = flush /\ stash' = stash /\ result' = result
      /\ sent' = sent /\ prefilling' = prefilling /\ decoding' = decoding /\ phase' = "dead"
  BY DEF Die, ids, queues
<1>2. Typed'
  BY <1>1 DEF Inv, Typed, Phases
<1>3. Queued'
  BY <1>1 DEF Inv, Queued
<1>4. Promised'
  BY <1>1 DEF Inv, Promised, Stop
<1>5. Reserved'
  BY <1>1, <1>2, ReservedKept
<1>6. Batched' /\ \A r \in Requests : Running(r)' => Flight(r)'
  BY <1>1, FlightKept DEF Running
<1>7. Records
  BY <1>1, Numbers DEF Records
<1> QED
  BY <1>2, <1>3, <1>4, <1>5, <1>6, <1>7 DEF Inv

LEMMA StutterKeeps ==
  ASSUME Inv, UNCHANGED vars
  PROVE  Inv'
<1>1. /\ shape' = shape /\ arrived' = arrived /\ gone' = gone /\ deferrable' = deferrable
      /\ waiting' = waiting /\ running' = running /\ generated' = generated /\ length' = length
      /\ window' = window /\ flush' = flush /\ stash' = stash /\ result' = result
      /\ sent' = sent /\ prefilling' = prefilling /\ decoding' = decoding /\ phase' = phase
  BY DEF vars, ids, queues
<1>2. Typed'
  BY <1>1 DEF Inv, Typed
<1>3. Queued'
  BY <1>1 DEF Inv, Queued
<1>4. Promised'
  BY <1>1 DEF Inv, Promised, Stop
<1>5. Reserved'
  BY <1>1, <1>2, ReservedKept
<1>6. Batched' /\ \A r \in Requests : Running(r)' => Flight(r)'
  BY <1>1, FlightKept DEF Running
<1> QED
  BY <1>2, <1>3, <1>4, <1>5, <1>6 DEF Inv

LEMMA BecomePrivateKeeps ==
  ASSUME Inv, NEW r \in Requests, BecomePrivate(r)
  PROVE  Inv'
<1>1. /\ shape' = shape /\ arrived' = arrived /\ gone' = gone
      /\ waiting' = waiting /\ running' = running /\ generated' = generated /\ length' = length
      /\ window' = window /\ flush' = flush /\ stash' = stash /\ result' = result
      /\ sent' = sent /\ prefilling' = prefilling /\ decoding' = decoding /\ phase' = phase
  BY DEF BecomePrivate, ids, queues
<1>2. Typed'
  <2>1. deferrable' \in [Requests -> BOOLEAN]
    BY DEF BecomePrivate, Inv, Typed
  <2> QED
    BY <1>1, <2>1 DEF Inv, Typed
<1>3. Queued'
  BY <1>1 DEF Inv, Queued
<1>4. Promised'
  BY <1>1 DEF Inv, Promised, Stop
<1>5. Reserved'
  BY <1>1, <1>2, ReservedKept
<1>6. Batched' /\ \A q \in Requests : Running(q)' => Flight(q)'
  BY <1>1, FlightKept DEF Running
<1> QED
  BY <1>2, <1>3, <1>4, <1>5, <1>6 DEF Inv

LEMMA AddKeeps ==
  ASSUME Inv, NEW r \in Requests, Add(r)
  PROVE  Inv'
<1>1. /\ shape' = shape /\ gone' = gone /\ deferrable' = deferrable
      /\ running' = running /\ generated' = generated /\ length' = length
      /\ window' = window /\ flush' = flush /\ stash' = stash /\ result' = result
      /\ sent' = sent /\ prefilling' = prefilling /\ decoding' = decoding /\ phase' = phase
      /\ arrived' = arrived \cup {r} /\ waiting' = Append(waiting, r)
      /\ r \notin arrived /\ phase = "between"
  BY DEF Add
<1>2. /\ waiting \in Seq(Requests) /\ waiting' \in Seq(Requests)
      /\ Len(waiting) \in Nat /\ DOMAIN waiting = 1..Len(waiting)
      /\ Len(waiting') = Len(waiting) + 1 /\ DOMAIN waiting' = 1..(Len(waiting) + 1)
      /\ \A i \in 1..Len(waiting) : waiting'[i] = waiting[i]
      /\ waiting'[Len(waiting) + 1] = r
  <2>1. waiting \in Seq(Requests)
    BY DEF Inv, Typed
  <2> QED
    BY <1>1, <2>1, AppendProperties, LenProperties
<1>3. \A q : q \in ToSet(waiting') <=> q \in ToSet(waiting) \/ q = r
  BY <1>2 DEF ToSet
<1>4. gone \subseteq arrived /\ r \notin gone /\ r \notin ToSet(waiting) /\ r \notin ToSet(running)
      /\ generated[r] = <<>>
  BY <1>1 DEF Inv, Typed, Queued
<1>5. Typed'
  BY <1>1, <1>2 DEF Inv, Typed
<1>6. Queued'
  <2>1. IsInjective(waiting')
    <3>1. \A i \in 1..Len(waiting) : waiting[i] # r
      BY <1>2, <1>4 DEF ToSet
    <3>2. \A i, j \in 1..Len(waiting) : waiting[i] = waiting[j] => i = j
      BY <1>2 DEF Inv, Queued, IsInjective
    <3>3. ASSUME NEW i \in 1..(Len(waiting) + 1), NEW j \in 1..(Len(waiting) + 1),
                 waiting'[i] = waiting'[j]
          PROVE  i = j
      <4>1. CASE i \in 1..Len(waiting) /\ j \in 1..Len(waiting)
        BY <1>2, <3>2, <3>3, <4>1
      <4>2. CASE i \in 1..Len(waiting) /\ j = Len(waiting) + 1
        BY <1>2, <3>1, <3>3, <4>2
      <4>3. CASE j \in 1..Len(waiting) /\ i = Len(waiting) + 1
        BY <1>2, <3>1, <3>3, <4>3
      <4>4. CASE i = Len(waiting) + 1 /\ j = Len(waiting) + 1
        BY <4>4
      <4> QED
        BY <1>2, <4>1, <4>2, <4>3, <4>4
    <3> QED
      BY <1>2, <3>3 DEF IsInjective
  <2>2. ToSet(waiting') \cup ToSet(running') \subseteq arrived' \ gone'
    BY <1>1, <1>3, <1>4 DEF Inv, Queued
  <2>3. \A q \in ToSet(waiting') : q \notin ToSet(running') /\ generated'[q] = <<>>
    BY <1>1, <1>3, <1>4 DEF Inv, Queued
  <2>4. \A q \in Requests \ arrived' : generated'[q] = <<>>
    BY <1>1 DEF Inv, Queued
  <2> QED
    BY <1>1, <2>1, <2>2, <2>3, <2>4 DEF Inv, Queued
<1>7. Promised'
  BY <1>1 DEF Inv, Promised, Stop
<1>8. Reserved'
  BY <1>1, <1>5, ReservedKept
<1>9. Batched' /\ \A q \in Requests : Running(q)' => Flight(q)'
  BY <1>1, FlightKept DEF Running
<1> QED
  BY <1>5, <1>6, <1>7, <1>8, <1>9 DEF Inv

LEMMA ReturnKeeps ==
  ASSUME Inv, Return
  PROVE  Inv'
<1>1. /\ shape' = shape /\ arrived' = arrived /\ gone' = gone /\ deferrable' = deferrable
      /\ waiting' = waiting /\ running' = running /\ generated' = generated /\ length' = length
      /\ window' = window /\ flush' = flush /\ stash' = stash /\ result' = Nothing
      /\ sent' = [r \in Requests |-> sent[r] \o result[r]]
      /\ prefilling' = prefilling /\ decoding' = <<>> /\ phase = "return" /\ phase' = "between"
  BY DEF Return, ids, queues
<1>2. ASSUME NEW r \in Requests
      PROVE  /\ sent'[r] \in Seq(Nat) /\ result'[r] = <<>>
             /\ sent'[r] \o result'[r] \o stash'[r] = generated'[r]
  <2> DEFINE a == sent[r]
             b == result[r]
  <2>1. a \in Seq(Nat) /\ b \in Seq(Nat) /\ stash[r] = <<>>
        /\ (a \o b) \o <<>> = generated[r] /\ sent'[r] = a \o b /\ result'[r] = <<>>
    BY <1>1 DEF Inv, Typed, Promised, Nothing
  <2> HIDE DEF a, b
  <2>2. (a \o b) \in Seq(Nat)
    BY <2>1, ConcatProperties
  <2>3. (a \o b) \o <<>> = a \o b
    BY <2>2, ConcatEmptySeq
  <2> QED
    BY <1>1, <2>1, <2>2, <2>3
<1>3. Typed'
  <2>1. sent' \in [Requests -> Seq(Nat)] /\ result' \in [Requests -> Seq(Nat)]
    <3>1. sent' = [r \in Requests |-> sent'[r]] /\ \A r \in Requests : sent'[r] \in Seq(Nat)
      BY <1>1, <1>2
    <3>2. Nothing \in [Requests -> Seq(Nat)]
      BY EmptySeq DEF Nothing
    <3>3. sent' \in [Requests -> Seq(Nat)]
      BY <3>1
    <3> QED
      BY <1>1, <3>2, <3>3
  <2> QED
    BY <1>1, <2>1 DEF Inv, Typed, Phases
<1>4. Queued'
  BY <1>1 DEF Inv, Queued
<1>5. Promised'
  <2>1. \A r \in Requests : generated'[r] = Ramp(Len(generated'[r])) /\ Len(generated'[r]) <= Stop(r)'
    BY <1>1 DEF Inv, Promised, Stop
  <2> QED
    BY <1>1, <1>2, <2>1 DEF Promised
<1>6. Reserved'
  BY <1>1, <1>3, ReservedKept
<1>7. Batched' /\ \A r \in Requests : Running(r)' => Flight(r)'
  BY <1>1, FlightKept DEF Running
<1> QED
  BY <1>3, <1>4, <1>5, <1>6, <1>7 DEF Inv

-----------------------------------------------------------------------------
(* Steps that drain *)

LEMMA DrainFlight ==
  ASSUME Inv, phase # "prefill", shape' = shape, Typed',
         NEW left, Over(Drained(generated)) \subseteq left,
         Releases(Drained(generated), length, left), window' = Closed, flush' = Unstaged
  PROVE  Batched' /\ \A r \in Requests : Running(r)' => Flight(r)'
<1>1. Tabled(length) /\ \A r \in Requests : Running(r) <=> r \in ToSet(running)
  BY OutsidePrefill
<1>2. Advances(Drained(generated), Targets)
  BY DrainAdvances
<1>3. \A r \in Requests :
        /\ Len(generated'[r]) = Targets[r]
        /\ Stop(r)' = Stop(r)
        /\ r \in ToSet(running') <=> r \in ToSet(running) /\ r \notin left
        /\ Running(r)' <=> r \in ToSet(running')
        /\ r \in ToSet(running') => Targets[r] < Stop(r) /\ length'[r] = length[r]
  BY <1>1, <1>2, AfterRelease
<1>4. ASSUME NEW r \in Requests, Running(r)'
      PROVE  /\ 1 <= Len(generated'[r]) /\ Len(generated'[r]) < Stop(r)'
             /\ length'[r] = shape'[r].prompt + Len(generated'[r]) - 1
  <2>1. /\ Len(generated'[r]) = Targets[r] /\ Stop(r)' = Stop(r) /\ Targets[r] < Stop(r)
        /\ length'[r] = length[r] /\ Running(r)
    BY <1>1, <1>3, <1>4
  <2>2. Flight(r)
    BY <2>1 DEF Inv
  <2>3. Targets[r] = Len(generated[r]) + Staged(r) + Opened(r)
    BY <2>1, TargetsTyped DEF Targets
  <2>4. /\ 1 <= Len(generated[r])
        /\ length[r] = shape[r].prompt + Len(generated[r]) - 1 + Staged(r) + Opened(r)
    BY <2>2 DEF Flight
  <2>5. Len(generated[r]) \in Nat /\ Staged(r) \in Nat /\ Opened(r) \in Nat
        /\ shape[r].prompt \in Nat /\ length[r] \in Nat
    BY Numbers
  <2>6. Len(generated'[r]) >= 1 /\ Len(generated'[r]) < Stop(r)'
    BY <2>1, <2>3, <2>4, <2>5
  <2> DEFINE p == shape[r].prompt
             g == Len(generated[r])
             u == Staged(r)
             w == Opened(r)
             l == length[r]
  <2>7. p \in Nat /\ g \in Nat /\ u \in Nat /\ w \in Nat /\ l \in Nat /\ l = p + g - 1 + u + w
    BY <2>4, <2>5
  <2>8. shape'[r].prompt = p /\ Len(generated'[r]) = g + u + w /\ length'[r] = l
    BY <2>1, <2>3
  <2> HIDE DEF p, g, u, w, l
  <2>9. l = p + (g + u + w) - 1
    BY <2>7
  <2> QED
    BY <2>6, <2>8, <2>9
<1> QED
  BY <1>4, NothingInFlight

LEMMA AbortKeeps ==
  ASSUME Inv, NEW r \in Requests, Abort(r)
  PROVE  Inv' /\ Records
<1> DEFINE gen == Drained(generated)
           left == Over(gen) \cup {r}
<1>1. phase = "between" /\ r \in (ToSet(waiting) \cup ToSet(running))
  BY DEF Abort
<1>2. CASE DonationRaises(gen, length)
  BY <1>1, <1>2, DieKeeps DEF Abort
<1>3. CASE ~DonationRaises(gen, length)
  <2>1. /\ Releases(gen, length, left) /\ Over(gen) \subseteq left
        /\ stash' = Plus(stash, gen) /\ window' = Closed /\ flush' = Unstaged
        /\ waiting' = Without(waiting, {r})
        /\ gone' = IF r \in Over(gen) THEN gone ELSE gone \cup {r}
        /\ shape' = shape /\ arrived' = arrived /\ deferrable' = deferrable /\ result' = result
        /\ sent' = sent /\ phase' = phase /\ prefilling' = prefilling /\ decoding' = decoding
    BY <1>3 DEF Abort, Releases, Stashed
  <2>2. Advances(gen, Targets)
    BY DrainAdvances
  <2>3. Tabled(length)
    BY <1>1, OutsidePrefill
  <2>4. \A q \in Requests : q \in Over(gen) <=> q \in ToSet(running) /\ Targets[q] = Stop(q)
    BY <2>2, OverIs
  <2>5. /\ Plus(stash, gen) \in [Requests -> Seq(Nat)]
        /\ \A q \in Requests : sent[q] \o result[q] \o Plus(stash, gen)[q] = gen[q]
    BY <1>1, <2>2, PromiseKept
  <2>6. r \in left
    OBVIOUS
  <2>7. Over(gen) \subseteq ToSet(running)
    BY DEF Over
  <2> HIDE DEF gen, left
  <2>8. /\ generated' \in [Requests -> Seq(Nat)] /\ length' \in [Requests -> Nat]
        /\ running' \in Seq(Requests)
        /\ \A q \in Requests :
             /\ generated'[q] = Ramp(Targets[q]) /\ Len(generated'[q]) = Targets[q]
             /\ Targets[q] <= Stop(q) /\ Stop(q)' = Stop(q)
             /\ q \in ToSet(running') <=> q \in ToSet(running) /\ q \notin left
             /\ q \in ToSet(running') => length'[q] > 0
             /\ q \notin ToSet(running') => length'[q] = 0
             /\ q \notin ToSet(running) => Targets[q] = Len(generated[q])
    BY <2>1, <2>2, <2>3, AfterRelease
  <2>9. /\ waiting' \in Seq(Requests)
        /\ \A q : q \in ToSet(waiting') <=> q \in ToSet(waiting) /\ q # r
        /\ IsInjective(waiting')
    <3>1. waiting \in Seq(Requests) /\ IsInjective(waiting)
      BY DEF Inv, Typed, Queued
    <3> QED
      BY <2>1, <3>1, WithoutSet
  <2>10. ToSet(running) \subseteq Requests /\ ToSet(waiting) \subseteq Requests
         /\ ToSet(running') \subseteq Requests
    BY <2>8, MembersAreRequests DEF Inv, Typed
  <2>11. Typed'
    <3>1. gone' \subseteq arrived'
      BY <1>1, <2>1 DEF Inv, Typed, Queued
    <3> QED
      BY <2>1, <2>5, <2>8, <2>9, <3>1 DEF Inv, Typed
  <2>12. Queued'
    <3>1. \A q \in ToSet(waiting') : q \notin ToSet(running') /\ generated'[q] = <<>>
      <4>1. ASSUME NEW q \in ToSet(waiting') PROVE q \notin ToSet(running') /\ generated'[q] = <<>>
        <5>1. q \in Requests /\ q \notin ToSet(running) /\ Len(generated[q]) = 0
          BY <2>9, <2>10 DEF Inv, Queued
        <5>2. generated'[q] = Ramp(0)
          BY <2>8, <5>1
        <5> QED
          BY <2>8, <5>1, <5>2, RampTyped
      <4> QED
        BY <4>1
    <3>2. \A q \in Requests \ arrived' : generated'[q] = <<>>
      <4>1. ASSUME NEW q \in Requests, q \notin arrived PROVE generated'[q] = <<>>
        <5>1. q \notin ToSet(running) /\ Len(generated[q]) = 0
          BY <4>1 DEF Inv, Queued
        <5>2. generated'[q] = Ramp(0)
          BY <2>8, <5>1
        <5> QED
          BY <5>2, RampTyped
      <4> QED
        BY <2>1, <4>1
    <3>3. ToSet(waiting') \cup ToSet(running') \subseteq arrived' \ gone'
      <4>1. ASSUME NEW q \in ToSet(waiting') \cup ToSet(running')
            PROVE  q \in (ToSet(waiting) \cup ToSet(running)) /\ q # r
        BY <2>6, <2>8, <2>9, <2>10
      <4>2. ASSUME NEW q \in ToSet(waiting') \cup ToSet(running') PROVE q \in arrived' \ gone'
        <5>1. q \in arrived /\ q \notin gone /\ q # r
          BY <4>1 DEF Inv, Queued
        <5> QED
          BY <2>1, <5>1
      <4> QED
        BY <4>2
    <3>4. \A q \in ToSet(running') : length'[q] # 0
      BY <2>8, <2>10
    <3>5. \A q \in Requests \ ToSet(running') : length'[q] = 0
      BY <2>8
    <3> QED
      BY <1>1, <2>1, <2>9, <3>1, <3>2, <3>3, <3>4, <3>5 DEF Queued
  <2>13. Promised'
    <3>1. \A q \in Requests :
            generated'[q] = Ramp(Len(generated'[q])) /\ Len(generated'[q]) <= Stop(q)'
      BY <2>8
    <3>2. \A q \in Requests : sent'[q] \o result'[q] \o stash'[q] = generated'[q]
      BY <2>1, <2>5 DEF Releases
    <3> QED
      BY <1>1, <2>1, <3>1, <3>2 DEF Inv, Promised
  <2>14. Reserved'
    <3>1. ASSUME NEW q \in ToSet(running') PROVE q \in ToSet(running)
      BY <2>8, <2>10
    <3> QED
      BY <2>1, <2>11, <3>1, ReservedKept
  <2>15. Batched' /\ \A q \in Requests : Running(q)' => Flight(q)'
    BY <1>1, <2>1, <2>11, DrainFlight DEF gen
  <2>16. Records
    <3>1. \A q \in Requests : Len(generated[q]) <= Targets[q]
      BY <2>2 DEF Advances
    <3> QED
      BY <2>8, <3>1 DEF Records
  <2> QED
    BY <2>11, <2>12, <2>13, <2>14, <2>15, <2>16 DEF Inv
<1> QED
  BY <1>2, <1>3
LEMMA RecomposeKeeps ==
  ASSUME Inv, Recompose
  PROVE  Inv' /\ Records
<1> DEFINE gen == Drained(generated)
<1>1. phase = "decode"
  BY DEF Recompose
<1>2. CASE DonationRaises(gen, length)
  BY <1>1, <1>2, DieKeeps DEF Recompose
<1>3. CASE ~DonationRaises(gen, length)
  <2>1. /\ Settle(gen, length) /\ result' = Plus(result, gen)
        /\ window' = Closed /\ flush' = Unstaged /\ decoding' = Unfinished(gen)
        /\ phase' = IF decoding' = <<>> THEN "return" ELSE "decode"
        /\ UNCHANGED <<ids, deferrable, waiting, stash, sent, prefilling>>
    BY <1>3 DEF Recompose
  <2>2. Advances(gen, Targets) /\ Tabled(length)
    BY <1>1, DrainAdvances, OutsidePrefill
  <2>3. decoding \in Seq(Requests) /\ prefilling \in Seq(Requests)
    BY DEF Inv, Typed
  <2>4. /\ decoding' \in Seq(Requests)
        /\ \A r : r \in ToSet(decoding') <=>
                    r \in ToSet(decoding) /\ r \notin {q \in Requests : Done(q, gen[q])}
    BY <2>1, <2>3, WithoutSet DEF Unfinished
  <2>5. ASSUME NEW r \in ToSet(decoding') PROVE r \in ToSet(running) /\ Targets[r] # Stop(r)
    <3>1. r \in ToSet(decoding) /\ r \in Requests
      BY <2>3, <2>4, MembersAreRequests
    <3>2. r \in ToSet(running)
      BY <1>1, <3>1 DEF Inv, Queued
    <3>3. ~Done(r, gen[r])
      BY <2>4, <3>1
    <3>4. r \notin Over(gen)
      BY <3>3 DEF Over
    <3> QED
      BY <2>2, <3>1, <3>2, <3>4, OverIs
  <2>6. prefilling' \in Seq(Requests) /\ phase' \in {"decode", "return"}
    BY <2>1, <2>3
  <2>7. UNCHANGED <<ids, deferrable, waiting, stash, sent>>
    BY <2>1
  <2> HIDE DEF gen
  <2>8. Typed' /\ Queued' /\ Promised' /\ Reserved' /\ Records
    BY <1>1, <2>1, <2>2, <2>4, <2>5, <2>6, <2>7, SettleKeeps
  <2>9. Releases(gen, length, Over(gen)) /\ shape' = shape
    BY <2>1 DEF Settle, Releases, ids
  <2>10. Batched' /\ \A r \in Requests : Running(r)' => Flight(r)'
    BY <1>1, <2>1, <2>8, <2>9, DrainFlight DEF gen
  <2> QED
    BY <2>8, <2>10 DEF Inv
<1> QED
  BY <1>2, <1>3

(* A drained request that still runs decodes the next token of its answer. *)
LEMMA SurvivorDecodes ==
  ASSUME Inv, NEW r \in Requests, Running(r), Target(r) # Stop(r)
  PROVE  /\ Target(r) \in Nat /\ Target(r) >= 1 /\ Target(r) < Stop(r)
         /\ length[r] = shape[r].prompt + Target(r) - 1
         /\ Sampled(r, Last(Drained(generated)[r])) = Target(r) + 1
         /\ Append(Drained(generated)[r], Target(r) + 1) = Ramp(Target(r) + 1)
<1>1. Flight(r)
  BY DEF Inv
<1>2. /\ Target(r) = Len(generated[r]) + Staged(r) + Opened(r)
      /\ Target(r) \in Nat /\ Target(r) <= Stop(r)
  BY TargetsTyped
<1>3. Len(generated[r]) \in Nat /\ Staged(r) \in Nat /\ Opened(r) \in Nat /\ Stop(r) \in Nat
      /\ shape[r].prompt \in Nat /\ length[r] \in Nat
  BY Numbers
<1>4. 1 <= Len(generated[r])
      /\ length[r] = shape[r].prompt + Len(generated[r]) - 1 + Staged(r) + Opened(r)
  BY <1>1 DEF Flight
<1>5. Target(r) >= 1 /\ Target(r) < Stop(r) /\ length[r] = shape[r].prompt + Target(r) - 1
  <2>1. Target(r) >= 1
    BY <1>2, <1>3, <1>4
  <2>2. Target(r) < Stop(r)
    BY <1>2, <1>3
  <2>3. length[r] = shape[r].prompt + Target(r) - 1
    <3> DEFINE p == shape[r].prompt
               g == Len(generated[r])
               u == Staged(r)
               w == Opened(r)
               l == length[r]
    <3>1. p \in Nat /\ g \in Nat /\ u \in Nat /\ w \in Nat /\ l \in Nat
          /\ l = p + g - 1 + u + w /\ Target(r) = g + u + w
      BY <1>2, <1>3, <1>4
    <3> HIDE DEF p, g, u, w, l
    <3>2. l = p + (g + u + w) - 1
      BY <3>1
    <3> QED
      BY <3>1, <3>2 DEF p, l
  <2> QED
    BY <2>1, <2>2, <2>3
<1>6. Drained(generated)[r] = Ramp(Target(r))
  BY DrainLands
<1>7. Last(Ramp(Target(r))) = Target(r) /\ Append(Ramp(Target(r)), Target(r) + 1) = Ramp(Target(r) + 1)
  BY <1>2, <1>5, RampTyped, RampAppend
<1>8. Sampled(r, Target(r)) = Target(r) + 1
  BY <1>2, <1>5 DEF Sampled, Wrong
<1> QED
  BY <1>2, <1>5, <1>6, <1>7, <1>8

LEMMA DecodeNormalKeeps ==
  ASSUME Inv, DecodeNormal
  PROVE  Inv' /\ Records
<1> DEFINE drained == Drained(generated)
           batch == ToSet(Unfinished(drained))
           gen == [r \in Requests |-> IF r \in batch
                     THEN Append(drained[r], Sampled(r, Last(drained[r]))) ELSE drained[r]]
           len == [r \in Requests |-> length[r] + IF r \in batch THEN 1 ELSE 0]
           k == [r \in Requests |-> Target(r) + IF r \in batch THEN 1 ELSE 0]
<1>1. phase = "decode"
  BY DEF DecodeNormal
<1>2. CASE DonationRaises(drained, length)
  BY <1>1, <1>2, DieKeeps DEF DecodeNormal
<1>3. CASE ~DonationRaises(drained, length)
  <2>1. /\ Settle(gen, len) /\ result' = Plus(result, gen)
        /\ window' = Closed /\ flush' = Unstaged /\ decoding' = <<>> /\ phase' = "return"
        /\ UNCHANGED <<ids, deferrable, waiting, stash, sent, prefilling>>
    BY <1>3 DEF DecodeNormal
  <2>2. Advances(drained, Targets) /\ Tabled(length)
        /\ \A r \in Requests : Running(r) <=> r \in ToSet(running)
    BY <1>1, DrainAdvances, OutsidePrefill
  <2>3. decoding \in Seq(Requests) /\ prefilling \in Seq(Requests)
    BY DEF Inv, Typed
  <2>4. ASSUME NEW r \in Requests, r \in batch PROVE Running(r) /\ Target(r) # Stop(r)
    <3>1. r \in ToSet(decoding) /\ ~Done(r, drained[r])
      BY <2>3, <2>4, WithoutSet DEF Unfinished
    <3>2. r \in ToSet(running)
      BY <1>1, <3>1 DEF Inv, Queued
    <3>3. r \notin Over(drained)
      BY <3>1 DEF Over
    <3>4. Targets[r] # Stop(r)
      BY <2>2, <3>2, <3>3, OverIs
    <3> QED
      BY <2>2, <3>2, <3>4 DEF Targets
  <2>5. ASSUME NEW r \in Requests
        PROVE  /\ k[r] \in Nat /\ gen[r] = Ramp(k[r]) /\ gen[r] \in Seq(Nat)
               /\ Len(generated[r]) <= k[r] /\ k[r] <= Stop(r)
               /\ r \notin ToSet(running) => k[r] = Len(generated[r])
               /\ len[r] \in Nat /\ (len[r] > 0 <=> length[r] > 0)
    <3>1. /\ Target(r) \in Nat /\ drained[r] = Ramp(Target(r))
          /\ Len(generated[r]) <= Target(r) /\ Target(r) <= Stop(r) /\ Stop(r) \in Nat
          /\ length[r] \in Nat /\ Len(generated[r]) \in Nat
      BY DrainLands, TargetsTyped, Numbers
    <3>2. CASE r \in batch
      <4>1. Running(r) /\ Target(r) # Stop(r)
        BY <2>4, <3>2
      <4>2. Target(r) < Stop(r) /\ gen[r] = Ramp(Target(r) + 1)
        BY <3>2, <4>1, SurvivorDecodes
      <4>3. k[r] = Target(r) + 1 /\ len[r] = length[r] + 1
        BY <3>2
      <4>4. length[r] > 0 /\ r \in ToSet(running)
        BY <4>1 DEF Running
      <4> HIDE DEF k, gen, len
      <4>5. k[r] \in Nat
        BY <3>1, <4>3
      <4>6. gen[r] = Ramp(k[r]) /\ gen[r] \in Seq(Nat)
        BY <3>1, <4>2, <4>3, <4>5, RampTyped
      <4>7. Len(generated[r]) <= k[r] /\ k[r] <= Stop(r)
        BY <3>1, <4>2, <4>3
      <4>8. len[r] \in Nat /\ (len[r] > 0 <=> length[r] > 0)
        BY <3>1, <4>3, <4>4
      <4> QED
        BY <4>4, <4>5, <4>6, <4>7, <4>8
    <3>3. CASE r \notin batch
      <4>1. k[r] = Target(r) /\ len[r] = length[r] /\ gen[r] = drained[r]
        BY <3>1, <3>3
      <4>2. r \notin ToSet(running) => Target(r) = Len(generated[r])
        BY <2>2, TargetsTyped
      <4> HIDE DEF k, gen, len
      <4> QED
        BY <3>1, <4>1, <4>2, RampTyped
    <3> QED
      BY <3>2, <3>3
  <2>6. Advances(gen, k)
    <3>1. gen \in [Requests -> Seq(Nat)]
      BY <2>5
    <3> HIDE DEF k, gen
    <3> QED
      BY <2>5, <3>1 DEF Advances
  <2>7. Tabled(len)
    <3>1. len \in [Requests -> Nat]
      BY <2>5
    <3>2. \A r \in Requests : r \in ToSet(running) <=> length[r] > 0
      BY <2>2 DEF Tabled
    <3> HIDE DEF len
    <3> QED
      BY <2>5, <3>1, <3>2 DEF Tabled
  <2>8. decoding' \in Seq(Requests) /\ prefilling' \in Seq(Requests) /\ phase' \in {"decode", "return"}
        /\ UNCHANGED <<ids, deferrable, waiting, stash, sent>>
        /\ (phase' = "decode" => \A r \in ToSet(decoding') : r \in ToSet(running) /\ k[r] # Stop(r))
    BY <2>1, <2>3
  <2>9. \A r \in Requests : len[r] = length[r] + IF r \in batch THEN 1 ELSE 0
    OBVIOUS
  <2>10. \A r \in Requests : k[r] = Target(r) + IF r \in batch THEN 1 ELSE 0
    OBVIOUS
  <2> HIDE DEF gen, len, k, batch, drained
  <2>11. Typed' /\ Queued' /\ Promised' /\ Reserved' /\ Records
    BY <1>1, <2>1, <2>6, <2>7, <2>8, SettleKeeps
  <2>12. Releases(gen, len, Over(gen)) /\ shape' = shape
    BY <2>1 DEF Settle, Releases, ids
  <2>13. \A r \in Requests :
           /\ Len(generated'[r]) = k[r] /\ Stop(r)' = Stop(r)
           /\ Running(r)' => r \in ToSet(running) /\ k[r] < Stop(r) /\ length'[r] = len[r]
    BY <2>6, <2>7, <2>12, AfterRelease
  <2>14. ASSUME NEW r \in Requests, Running(r)'
         PROVE  /\ 1 <= Len(generated'[r]) /\ Len(generated'[r]) < Stop(r)'
                /\ length'[r] = shape'[r].prompt + Len(generated'[r]) - 1
    <3>1. /\ Len(generated'[r]) = k[r] /\ Stop(r)' = Stop(r) /\ Running(r)
          /\ k[r] < Stop(r) /\ length'[r] = len[r]
      BY <2>2, <2>13, <2>14
    <3>2. Target(r) \in Nat /\ Stop(r) \in Nat /\ length[r] \in Nat /\ shape[r].prompt \in Nat
      BY TargetsTyped, Numbers
    <3>3. Target(r) # Stop(r)
      BY <2>10, <3>1, <3>2
    <3>4. Target(r) >= 1 /\ length[r] = shape[r].prompt + Target(r) - 1
      BY <3>1, <3>3, SurvivorDecodes
    <3>5. CASE r \in batch
      <4>1. k[r] = Target(r) + 1 /\ len[r] = length[r] + 1
        BY <2>9, <2>10, <3>5
      <4> QED
        BY <2>12, <3>1, <3>2, <3>4, <4>1
    <3>6. CASE r \notin batch
      <4>1. k[r] = Target(r) /\ len[r] = length[r]
        BY <2>9, <2>10, <3>2, <3>6
      <4> QED
        BY <2>12, <3>1, <3>2, <3>4, <4>1
    <3> QED
      BY <3>5, <3>6
  <2>15. Batched' /\ \A r \in Requests : Running(r)' => Flight(r)'
    BY <2>1, <2>11, <2>14, NothingInFlight
  <2> QED
    BY <2>11, <2>15 DEF Inv
<1> QED
  BY <1>2, <1>3
-----------------------------------------------------------------------------
(* Admission and prefill *)

LEMMA Halves ==
  ASSUME NEW s \in Seq(Requests), IsInjective(s), NEW n \in 0..Len(s)
  PROVE  /\ SubSeq(s, 1, n) \in Seq(Requests) /\ SubSeq(s, n + 1, Len(s)) \in Seq(Requests)
         /\ IsInjective(SubSeq(s, n + 1, Len(s)))
         /\ \A r : r \in ToSet(s) <=>
                     r \in ToSet(SubSeq(s, 1, n)) \/ r \in ToSet(SubSeq(s, n + 1, Len(s)))
         /\ \A r : ~(r \in ToSet(SubSeq(s, 1, n)) /\ r \in ToSet(SubSeq(s, n + 1, Len(s))))
<1> DEFINE h == SubSeq(s, 1, n)
           t == SubSeq(s, n + 1, Len(s))
<1>1. Len(s) \in Nat /\ DOMAIN s = 1..Len(s) /\ \A i \in 1..Len(s) : s[i] \in Requests
  BY LenProperties, ElementOfSeq
<1>2. /\ 1 \in Int /\ n \in Int /\ n + 1 \in Int /\ Len(s) \in Int
      /\ (\A i \in 1..n : s[i] \in Requests) /\ (\A i \in (n + 1)..Len(s) : s[i] \in Requests)
  BY <1>1
<1>3. /\ h \in Seq(Requests)
      /\ Len(h) = IF 1 <= n THEN n - 1 + 1 ELSE 0
      /\ \A i \in 1..(n - 1 + 1) : h[i] = s[1 + i - 1]
  BY <1>2, SubSeqProperties
<1>4. /\ t \in Seq(Requests)
      /\ Len(t) = IF n + 1 <= Len(s) THEN Len(s) - (n + 1) + 1 ELSE 0
      /\ \A i \in 1..(Len(s) - (n + 1) + 1) : t[i] = s[(n + 1) + i - 1]
  BY <1>2, SubSeqProperties
<1> HIDE DEF h, t
<1>5. DOMAIN h = 1..Len(h) /\ DOMAIN t = 1..Len(t) /\ Len(h) = n /\ Len(t) = Len(s) - n
      /\ n \in Nat /\ n <= Len(s)
  <2>1. n \in Nat /\ n <= Len(s)
    BY <1>1
  <2>2. DOMAIN h = 1..Len(h) /\ DOMAIN t = 1..Len(t)
    BY <1>3, <1>4, LenProperties
  <2>3. Len(h) = n
    BY <1>3, <2>1
  <2>4. Len(t) = Len(s) - n
    <3>1. Len(t) = IF n + 1 <= Len(s) THEN Len(s) - (n + 1) + 1 ELSE 0
      BY <1>4
    <3>2. CASE n + 1 <= Len(s)
      <4>1. Len(t) = Len(s) - (n + 1) + 1
        BY <3>1, <3>2
      <4>2. Len(s) - (n + 1) + 1 = Len(s) - n
        BY <1>1, <2>1
      <4> QED
        BY <4>1, <4>2
    <3>3. CASE ~(n + 1 <= Len(s))
      <4>1. Len(s) - n = 0
        <5> DEFINE l == Len(s)
        <5>1. l \in Nat /\ n \in Nat /\ n <= l /\ ~(n + 1 <= l)
          BY <1>1, <2>1, <3>3
        <5> HIDE DEF l
        <5>2. l = n
          BY <5>1
        <5> QED
          BY <5>1, <5>2 DEF l
      <4> QED
        BY <3>1, <3>3, <4>1
    <3> QED
      BY <3>2, <3>3
  <2> QED
    BY <2>1, <2>2, <2>3, <2>4
<1>6. (\A i \in 1..n : h[i] = s[i]) /\ (\A i \in 1..(Len(s) - n) : t[i] = s[n + i])
  <2>1. ASSUME NEW i \in 1..n PROVE h[i] = s[i]
    <3>1. i \in 1..(n - 1 + 1) /\ 1 + i - 1 = i
      BY <1>5
    <3> QED
      BY <1>3, <3>1
  <2>2. ASSUME NEW i \in 1..(Len(s) - n) PROVE t[i] = s[n + i]
    <3>1. i \in 1..(Len(s) - (n + 1) + 1) /\ (n + 1) + i - 1 = n + i
      BY <1>1, <1>5
    <3> QED
      BY <1>4, <3>1
  <2> QED
    BY <2>1, <2>2
<1>7. \A i, j \in 1..Len(s) : s[i] = s[j] => i = j
  BY <1>1 DEF IsInjective
<1>8. IsInjective(t)
  <2>1. ASSUME NEW i \in 1..(Len(s) - n), NEW j \in 1..(Len(s) - n), t[i] = t[j] PROVE i = j
    <3>1. n + i \in 1..Len(s) /\ n + j \in 1..Len(s) /\ s[n + i] = s[n + j]
      BY <1>1, <1>6, <2>1
    <3>2. n + i = n + j
      BY <1>7, <3>1
    <3> QED
      BY <1>1, <3>2
  <2> QED
    BY <1>5, <2>1 DEF IsInjective
<1>9. ASSUME NEW r \in ToSet(s) PROVE r \in ToSet(h) \/ r \in ToSet(t)
  <2>1. PICK i \in 1..Len(s) : s[i] = r
    BY <1>1 DEF ToSet
  <2>2. CASE i <= n
    <3>1. i \in DOMAIN h /\ h[i] = r
      BY <1>1, <1>5, <1>6, <2>1, <2>2
    <3> QED
      BY <3>1 DEF ToSet
  <2>3. CASE ~(i <= n)
    <3>1. i - n \in DOMAIN t /\ t[i - n] = s[n + (i - n)] /\ n + (i - n) = i
      BY <1>1, <1>5, <1>6, <2>3
    <3> QED
      BY <2>1, <3>1 DEF ToSet
  <2> QED
    BY <2>2, <2>3
<1>10. ASSUME NEW r \in ToSet(h) PROVE r \in ToSet(s) /\ r \notin ToSet(t)
  <2>1. PICK i \in 1..n : h[i] = r
    BY <1>5 DEF ToSet
  <2>2. i \in 1..Len(s) /\ s[i] = r
    BY <1>1, <1>6, <2>1
  <2>3. ASSUME NEW j \in 1..(Len(s) - n), t[j] = r PROVE FALSE
    <3>1. n + j \in 1..Len(s) /\ s[n + j] = r
      BY <1>1, <1>6, <2>3
    <3>2. n + j = i
      BY <1>7, <2>2, <3>1
    <3> QED
      BY <1>1, <3>2
  <2> QED
    BY <1>1, <1>5, <2>2, <2>3 DEF ToSet
<1>11. ASSUME NEW r \in ToSet(t) PROVE r \in ToSet(s)
  <2>1. PICK j \in 1..(Len(s) - n) : t[j] = r
    BY <1>5 DEF ToSet
  <2>2. n + j \in DOMAIN s /\ s[n + j] = r
    BY <1>1, <1>6, <2>1
  <2> QED
    BY <2>2 DEF ToSet
<1>12. \A r : (r \in ToSet(s) <=> r \in ToSet(h) \/ r \in ToSet(t))
            /\ ~(r \in ToSet(h) /\ r \in ToSet(t))
  BY <1>9, <1>10, <1>11
<1> QED
  BY <1>3, <1>4, <1>8, <1>12 DEF h, t

LEMMA JoinedSet ==
  ASSUME NEW s \in Seq(Requests), NEW t \in Seq(Requests)
  PROVE  s \o t \in Seq(Requests) /\ \A r : r \in ToSet(s \o t) <=> r \in ToSet(s) \/ r \in ToSet(t)
<1> DEFINE u == s \o t
<1>1. /\ u \in Seq(Requests) /\ Len(u) = Len(s) + Len(t)
      /\ \A i \in 1..(Len(s) + Len(t)) : u[i] = IF i <= Len(s) THEN s[i] ELSE t[i - Len(s)]
  BY ConcatProperties
<1> HIDE DEF u
<1>2. Len(s) \in Nat /\ Len(t) \in Nat /\ DOMAIN s = 1..Len(s) /\ DOMAIN t = 1..Len(t)
      /\ DOMAIN u = 1..(Len(s) + Len(t))
  BY <1>1, LenProperties
<1>3. ASSUME NEW r \in ToSet(u) PROVE r \in ToSet(s) \/ r \in ToSet(t)
  <2>1. PICK i \in 1..(Len(s) + Len(t)) : u[i] = r
    BY <1>2 DEF ToSet
  <2>2. CASE i <= Len(s)
    <3>1. i \in DOMAIN s /\ s[i] = r
      BY <1>1, <1>2, <2>1, <2>2
    <3> QED
      BY <3>1 DEF ToSet
  <2>3. CASE ~(i <= Len(s))
    <3>1. i - Len(s) \in DOMAIN t /\ t[i - Len(s)] = r
      BY <1>1, <1>2, <2>1, <2>3
    <3> QED
      BY <3>1 DEF ToSet
  <2> QED
    BY <2>2, <2>3
<1>4. ASSUME NEW r \in ToSet(s) PROVE r \in ToSet(u)
  <2>1. PICK i \in 1..Len(s) : s[i] = r
    BY <1>2 DEF ToSet
  <2>2. i \in DOMAIN u /\ u[i] = r
    BY <1>1, <1>2, <2>1
  <2> QED
    BY <2>2 DEF ToSet
<1>5. ASSUME NEW r \in ToSet(t) PROVE r \in ToSet(u)
  <2>1. PICK i \in 1..Len(t) : t[i] = r
    BY <1>2 DEF ToSet
  <2>2. Len(s) + i \in 1..(Len(s) + Len(t)) /\ ~(Len(s) + i <= Len(s)) /\ (Len(s) + i) - Len(s) = i
    BY <1>2
  <2>3. Len(s) + i \in DOMAIN u /\ u[Len(s) + i] = r
    BY <1>1, <1>2, <2>1, <2>2
  <2> QED
    BY <2>3 DEF ToSet
<1>6. \A r : r \in ToSet(u) <=> r \in ToSet(s) \/ r \in ToSet(t)
  BY <1>3, <1>4, <1>5
<1> QED
  BY <1>1, <1>6 DEF u

(* Admission takes a prefix of the queue that the budget covers. *)
LEMMA AdmittedFits ==
  ASSUME Inv
  PROVE  /\ Admitted \in 0..Len(waiting)
         /\ Committed + MapThenSumSet(MaxBlocksFor, ToSet(SubSeq(waiting, 1, Admitted))) <= NumBlocks
<1> DEFINE Fits(n) ==
             Committed + MapThenSumSet(MaxBlocksFor, ToSet(SubSeq(waiting, 1, n))) <= NumBlocks
           S == {n \in 0..Len(waiting) : Fits(n)}
<1>1. Len(waiting) \in Nat
  BY LenProperties DEF Inv, Typed
<1>2. Fits(0)
  <2>1. SubSeq(waiting, 1, 0) = <<>>
    BY SubSeqEmpty DEF Inv, Typed
  <2>2. ToSet(SubSeq(waiting, 1, 0)) = {}
    BY <2>1 DEF ToSet
  <2>3. {} \in SUBSET Requests
    OBVIOUS
  <2>4. MapThenSumSet(MaxBlocksFor, {}) = Needed(shape, {})
    BY <2>3, NeededIs
  <2>5. Needed(shape, {}) = 0
    BY SumEmpty DEF Needed
  <2>6. Committed = Needed(shape, ToSet(running)) /\ Committed <= NumBlocks
    BY CommittedIs DEF Inv, Reserved
  <2>7. Needed(shape, ToSet(running)) \in Nat
    BY NeededJoins, MembersAreRequests DEF Inv, Typed
  <2>8. Committed + 0 = Committed
    BY <2>6, <2>7
  <2> QED
    BY <2>2, <2>4, <2>5, <2>6, <2>8
<1>3. Admitted = Max(S)
  BY DEF Admitted
<1>4. 0 \in S
  BY <1>1, <1>2
<1> HIDE DEF Fits
<1>5. Max(S) \in S
  <2> DEFINE top == Len(waiting)
  <2>1. S \in SUBSET (0..top) /\ S # {} /\ top \in Nat
    BY <1>1, <1>4
  <2> HIDE DEF S, top
  <2> QED
    BY <2>1, MaxExists
<1>6. Admitted \in 0..Len(waiting) /\ Fits(Admitted)
  BY <1>3, <1>5
<1> QED
  BY <1>6 DEF Fits

LEMMA BeginKeeps ==
  ASSUME Inv, Begin
  PROVE  Inv'
<1> DEFINE n == Admitted
           h == SubSeq(waiting, 1, n)
           t == SubSeq(waiting, n + 1, Len(waiting))
<1>1. /\ shape' = shape /\ arrived' = arrived /\ gone' = gone /\ deferrable' = deferrable
      /\ generated' = generated /\ length' = length /\ window' = window /\ flush' = flush
      /\ sent' = sent /\ result' = stash /\ stash' = Nothing
      /\ running' = running \o h /\ waiting' = t
      /\ prefilling' = Without(running', {r \in Requests : length[r] > 0})
      /\ decoding' = Without(running', {r \in Requests : length[r] = 0})
      /\ phase = "between" /\ phase' = "prefill"
  BY DEF Begin, ids
<1>2. /\ n \in 0..Len(waiting)
      /\ Committed + MapThenSumSet(MaxBlocksFor, ToSet(h)) <= NumBlocks
  BY AdmittedFits
<1>3. waiting \in Seq(Requests) /\ IsInjective(waiting) /\ running \in Seq(Requests)
  BY DEF Inv, Typed, Queued
<1> HIDE DEF n
<1>4. /\ h \in Seq(Requests) /\ t \in Seq(Requests) /\ IsInjective(t)
      /\ \A r : r \in ToSet(waiting) <=> r \in ToSet(h) \/ r \in ToSet(t)
      /\ \A r : ~(r \in ToSet(h) /\ r \in ToSet(t))
  BY <1>2, <1>3, Halves
<1> HIDE DEF h, t
<1>5. running' \in Seq(Requests) /\ \A r : r \in ToSet(running') <=> r \in ToSet(running) \/ r \in ToSet(h)
  BY <1>1, <1>3, <1>4, JoinedSet
<1>6. /\ prefilling' \in Seq(Requests) /\ decoding' \in Seq(Requests)
      /\ \A r : r \in ToSet(prefilling') <=>
                  r \in ToSet(running') /\ r \notin {q \in Requests : length[q] > 0}
      /\ \A r : r \in ToSet(decoding') <=>
                  r \in ToSet(running') /\ r \notin {q \in Requests : length[q] = 0}
  BY <1>1, <1>5, WithoutSet
<1>7. ToSet(running') \subseteq Requests /\ ToSet(running) \subseteq Requests
      /\ ToSet(waiting) \subseteq Requests /\ ToSet(h) \subseteq Requests
  BY <1>3, <1>4, <1>5, MembersAreRequests
<1>8. Typed'
  <2>1. Nothing \in [Requests -> Seq(Nat)]
    BY EmptySeq DEF Nothing
  <2> QED
    BY <1>1, <1>4, <1>5, <1>6, <2>1 DEF Inv, Typed, Phases
<1>9. \A r \in ToSet(running) : length[r] > 0
  <2>1. Tabled(length)
    BY <1>1, OutsidePrefill
  <2> QED
    BY <1>7, <2>1 DEF Tabled
<1>10. \A r \in Requests : length[r] \in Nat
  BY DEF Inv, Typed
<1>11. Queued'
  <2>1. \A r \in ToSet(waiting) : r \notin ToSet(running) /\ generated[r] = <<>>
    BY DEF Inv, Queued
  <2>2. \A r \in ToSet(waiting') : r \notin ToSet(running') /\ generated'[r] = <<>>
    BY <1>1, <1>4, <1>5, <2>1
  <2>3. ToSet(waiting') \cup ToSet(running') \subseteq arrived' \ gone'
    BY <1>1, <1>4, <1>5 DEF Inv, Queued
  <2>4. \A r \in Requests \ ToSet(running') : length'[r] = 0
    BY <1>1, <1>5 DEF Inv, Queued
  <2>5. \A r \in ToSet(running') : length'[r] = 0 => generated'[r] = <<>> /\ r \in ToSet(prefilling')
    <3>1. ASSUME NEW r \in ToSet(running'), length'[r] = 0
          PROVE  generated'[r] = <<>> /\ r \in ToSet(prefilling')
      <4>1. r \in Requests /\ length[r] = 0 /\ r \in ToSet(h)
        BY <1>1, <1>5, <1>7, <1>9, <3>1
      <4>2. generated[r] = <<>>
        BY <1>4, <2>1, <4>1
      <4> QED
        BY <1>1, <1>6, <3>1, <4>1, <4>2
    <3> QED
      BY <3>1
  <2>6. \A r \in ToSet(prefilling') : r \in ToSet(running') /\ length'[r] = 0
    BY <1>1, <1>6, <1>7, <1>10
  <2>7. \A r \in ToSet(decoding') : r \in ToSet(running') /\ length'[r] > 0
    BY <1>1, <1>6, <1>7, <1>10
  <2>8. IsInjective(waiting') /\ \A r \in Requests \ arrived' : generated'[r] = <<>>
    BY <1>1, <1>4 DEF Inv, Queued
  <2> QED
    BY <1>1, <2>2, <2>3, <2>4, <2>5, <2>6, <2>7, <2>8 DEF Queued
<1>12. Promised'
  <2>1. \A r \in Requests : generated'[r] = Ramp(Len(generated'[r])) /\ Len(generated'[r]) <= Stop(r)'
    BY <1>1 DEF Inv, Promised, Stop
  <2>2. ASSUME NEW r \in Requests PROVE sent'[r] \o result'[r] \o stash'[r] = generated'[r]
    <3> DEFINE a == sent[r]
               c == stash[r]
    <3>1. a \in Seq(Nat) /\ c \in Seq(Nat) /\ (a \o <<>>) \o c = generated[r]
          /\ sent'[r] = a /\ result'[r] = c /\ stash'[r] = <<>>
      BY <1>1 DEF Inv, Typed, Promised, Nothing
    <3> HIDE DEF a, c
    <3>2. a \o <<>> = a
      BY <3>1, ConcatEmptySeq
    <3>3. (a \o c) \in Seq(Nat)
      BY <3>1, ConcatProperties
    <3>4. (a \o c) \o <<>> = a \o c
      BY <3>3, ConcatEmptySeq
    <3> QED
      BY <1>1, <3>1, <3>2, <3>4
  <2> QED
    BY <1>1, <2>1, <2>2 DEF Promised
<1>13. Reserved'
  <2>1. (Committed = Needed(shape, ToSet(running)))'
    BY <1>8, CommittedIs, PTL
  <2>2. Committed = Needed(shape, ToSet(running))
        /\ MapThenSumSet(MaxBlocksFor, ToSet(h)) = Needed(shape, ToSet(h))
    BY <1>7, CommittedIs, NeededIs DEF Inv
  <2>3. ToSet(running') \ ToSet(running) = ToSet(h)
    <3>1. \A r : r \in ToSet(h) => r \notin ToSet(running)
      BY <1>4 DEF Inv, Queued
    <3> QED
      BY <1>5, <3>1
  <2>4. shape \in [Requests -> Shapes] /\ ToSet(running) \in SUBSET ToSet(running')
    BY <1>5 DEF Inv, Typed
  <2>5. Needed(shape, ToSet(running'))
        = Needed(shape, ToSet(running)) + Needed(shape, ToSet(running') \ ToSet(running))
    BY <1>7, <2>4, NeededJoins
  <2>6. Committed' <= NumBlocks
    BY <1>1, <1>2, <2>1, <2>2, <2>3, <2>5
  <2> QED
    BY <2>6 DEF Reserved
<1>14. \A r \in Requests : Running(r)' <=> Running(r)
  <2>1. \A r \in ToSet(h) : length[r] = 0
    BY <1>4, <1>7 DEF Inv, Queued
  <2> QED
    BY <1>1, <1>5, <2>1 DEF Running
<1>15. Batched' /\ \A r \in Requests : Running(r)' => Flight(r)'
  BY <1>1, <1>14, FlightKept
<1> QED
  BY <1>8, <1>11, <1>12, <1>13, <1>15 DEF Inv
(* What a prefill records: one token of every request it prefills.  *)
LEMMA PrefillKeeps ==
  ASSUME Inv, Prefill
  PROVE  Inv' /\ Records
<1> DEFINE first == ToSet(prefilling)
           gen == [r \in Requests |-> IF r \in first THEN <<1>> ELSE generated[r]]
           len == [r \in Requests |-> IF r \in first THEN shape[r].prompt ELSE length[r]]
           k == [r \in Requests |-> IF r \in first THEN 1 ELSE Len(generated[r])]
<1>1. /\ Settle(gen, len) /\ result' = Plus(result, gen)
      /\ phase = "prefill" /\ phase' = (IF decoding = <<>> THEN "return" ELSE "decode")
      /\ prefilling' = <<>> /\ decoding' = decoding
      /\ window' = window /\ flush' = flush
      /\ UNCHANGED <<ids, deferrable, waiting, stash, sent>>
  BY DEF Prefill
<1>2. \A r \in Requests : r \in first => r \in ToSet(running) /\ length[r] = 0 /\ generated[r] = <<>>
  BY <1>1 DEF Inv, Queued
<1>3. ASSUME NEW r \in Requests
      PROVE  /\ k[r] = IF r \in first THEN 1 ELSE Len(generated[r])
             /\ len[r] = IF r \in first THEN shape[r].prompt ELSE length[r]
             /\ gen[r] = IF r \in first THEN <<1>> ELSE generated[r]
  OBVIOUS
<1> HIDE DEF gen, len, k, first
<1>4. <<1>> = Ramp(1)
  <2>1. Append(Ramp(0), 0 + 1) = Ramp(0 + 1) /\ Ramp(0) = <<>>
    BY RampAppend, RampTyped
  <2>2. Append(<<>>, 1) = <<1>>
    OBVIOUS
  <2> QED
    BY <2>1, <2>2
<1>5. ASSUME NEW r \in Requests
      PROVE  /\ k[r] \in Nat /\ gen[r] = Ramp(k[r]) /\ gen[r] \in Seq(Nat)
             /\ Len(generated[r]) <= k[r] /\ k[r] <= Stop(r)
             /\ r \notin ToSet(running) => k[r] = Len(generated[r])
             /\ len[r] \in Nat /\ (r \in ToSet(running) <=> len[r] > 0)
  <2>1. /\ Len(generated[r]) \in Nat /\ generated[r] = Ramp(Len(generated[r]))
        /\ Len(generated[r]) <= Stop(r) /\ Stop(r) \in Nat /\ Stop(r) >= 1
        /\ length[r] \in Nat /\ shape[r].prompt \in Nat /\ shape[r].prompt >= 1
    BY Numbers
  <2>2. CASE r \in first
    <3>1. /\ k[r] = 1 /\ len[r] = shape[r].prompt /\ gen[r] = Ramp(1) /\ Len(generated[r]) = 0
          /\ r \in ToSet(running)
      BY <1>2, <1>3, <1>4, <2>2
    <3>2. Ramp(1) \in Seq(Nat)
      BY RampTyped
    <3> QED
      BY <2>1, <3>1, <3>2
  <2>3. CASE r \notin first
    <3>1. k[r] = Len(generated[r]) /\ len[r] = length[r] /\ gen[r] = generated[r]
      BY <1>3, <2>3
    <3>2. r \in ToSet(running) => length[r] # 0
      BY <2>3 DEF Inv, Queued, first
    <3>3. r \notin ToSet(running) => length[r] = 0
      BY DEF Inv, Queued
    <3>4. generated[r] \in Seq(Nat)
      BY DEF Inv, Typed
    <3> QED
      BY <2>1, <3>1, <3>2, <3>3, <3>4
  <2> QED
    BY <2>2, <2>3
<1>6. Advances(gen, k)
  <2>1. gen = [r \in Requests |-> gen[r]]
    BY DEF gen
  <2>2. gen \in [Requests -> Seq(Nat)]
    BY <1>5, <2>1
  <2> QED
    BY <1>5, <2>2 DEF Advances
<1>7. Tabled(len)
  <2>1. len = [r \in Requests |-> len[r]]
    BY DEF len
  <2>2. len \in [Requests -> Nat]
    BY <1>5, <2>1
  <2> QED
    BY <1>5, <2>2 DEF Tabled
<1>8. decoding \in Seq(Requests) /\ prefilling \in Seq(Requests)
  BY DEF Inv, Typed
<1>9. ASSUME NEW r \in Requests, Running(r) PROVE r \notin first /\ k[r] = Len(generated[r]) /\ k[r] < Stop(r)
  <2>1. length[r] # 0 /\ Flight(r)
    BY <1>9 DEF Inv, Running
  <2> QED
    BY <1>2, <1>3, <2>1 DEF Flight
<1>10. ASSUME NEW r \in ToSet(decoding) PROVE r \in ToSet(running) /\ k[r] # Stop(r)
  <2>1. r \in Requests /\ r \in ToSet(running) /\ length[r] > 0
    BY <1>1, <1>8, MembersAreRequests DEF Inv, Queued
  <2>2. k[r] < Stop(r)
    BY <1>9, <2>1 DEF Running
  <2> QED
    BY <1>5, <2>1, <2>2, Numbers
<1>11. prefilling' \in Seq(Requests) /\ decoding' \in Seq(Requests) /\ phase' \in {"decode", "return"}
  <2>1. <<>> \in Seq(Requests)
    OBVIOUS
  <2> QED
    BY <1>1, <1>8, <2>1
<1>12. Typed' /\ Queued' /\ Promised' /\ Reserved' /\ Records
  BY <1>1, <1>6, <1>7, <1>10, <1>11, SettleKeeps
<1>13. Releases(gen, len, Over(gen)) /\ shape' = shape
  BY <1>1 DEF Settle, Releases, ids
<1>14. \A r \in Requests : r \in Over(gen) <=> r \in ToSet(running) /\ k[r] = Stop(r)
  BY <1>6, OverIs
<1>15. \A r \in Requests :
         /\ generated'[r] = Ramp(k[r]) /\ Len(generated'[r]) = k[r] /\ Stop(r)' = Stop(r)
         /\ r \in ToSet(running') <=> r \in ToSet(running) /\ r \notin Over(gen)
         /\ Running(r)' <=> r \in ToSet(running')
         /\ r \in ToSet(running') => k[r] < Stop(r) /\ length'[r] = len[r]
  BY <1>6, <1>7, <1>13, AfterRelease
<1>16. window.requests \in Seq(Requests) /\ flush.requests \in Seq(Requests)
  BY DEF Inv, Batched
<1>17. ASSUME NEW r \in ToSet(window.requests) PROVE r \in Requests /\ Running(r)
  <2>1. window # Closed
    BY <1>17 DEF Closed, ToSet
  <2> QED
    BY <1>16, <2>1, MembersAreRequests DEF Inv, Batched
<1>18. ASSUME NEW r \in ToSet(flush.requests)
       PROVE  r \in Requests /\ (Running(r) \/ Len(generated[r]) = Stop(r))
  BY <1>16, MembersAreRequests DEF Inv, Batched
<1>19. ASSUME NEW r \in Requests, Running(r) PROVE Running(r)'
  <2>1. r \in ToSet(running) /\ k[r] < Stop(r)
    BY <1>9, <1>19 DEF Running
  <2>2. k[r] # Stop(r)
    BY <1>5, <2>1, Numbers
  <2> QED
    BY <1>14, <1>15, <2>1, <2>2
<1>20. Batched'
  <2>1. ASSUME NEW r \in ToSet(flush'.requests) PROVE Running(r)' \/ Len(generated'[r]) = Stop(r)'
    <3>1. r \in Requests /\ (Running(r) \/ Len(generated[r]) = Stop(r))
      BY <1>1, <1>18, <2>1
    <3>2. CASE Running(r)
      BY <1>19, <3>1, <3>2
    <3>3. CASE ~Running(r)
      <4>1. Len(generated[r]) = Stop(r) /\ Stop(r) >= 1
        BY <3>1, <3>3, Numbers
      <4>2. r \notin first
        BY <1>2, <3>1, <4>1
      <4>3. k[r] = Len(generated[r])
        BY <1>3, <3>1, <4>2
      <4> QED
        BY <1>15, <3>1, <4>1, <4>3
    <3> QED
      BY <3>2, <3>3
  <2>2. \A r \in ToSet(window'.requests) : Running(r)'
    BY <1>1, <1>17, <1>19
  <2> QED
    BY <1>1, <2>1, <2>2 DEF Inv, Batched
<1>21. ASSUME NEW r \in Requests, Running(r)' PROVE Flight(r)'
  <2>1. Len(generated'[r]) = k[r] /\ Stop(r)' = Stop(r) /\ k[r] < Stop(r) /\ length'[r] = len[r]
        /\ r \in ToSet(running)
    BY <1>15, <1>21
  <2>2. Staged(r)' = Staged(r) /\ Opened(r)' = Opened(r)
    BY <1>1 DEF Staged, Opened
  <2>3. CASE r \in first
    <3>1. k[r] = 1 /\ len[r] = shape[r].prompt /\ Len(generated[r]) = 0 /\ ~Running(r)
      BY <1>2, <1>3, <2>3 DEF Running
    <3>2. r \notin ToSet(window.requests) /\ r \notin ToSet(flush.requests)
      BY <1>17, <1>18, <3>1, Numbers
    <3>3. Staged(r) = 0 /\ Opened(r) = 0
      BY <3>2 DEF Staged, Opened
    <3>4. shape[r].prompt \in Nat /\ shape[r].new \in Nat /\ Stop(r) \in Nat /\ Stop(r) >= 1
          /\ Stop(r) <= shape[r].new
      BY Numbers
    <3> QED
      BY <1>1, <1>13, <2>1, <2>2, <3>1, <3>2, <3>3, <3>4 DEF Flight
  <2>4. CASE r \notin first
    <3>1. k[r] = Len(generated[r]) /\ len[r] = length[r]
      BY <1>3, <2>4
    <3>2. length[r] # 0 /\ length[r] \in Nat
      BY <2>1, <2>4, Numbers DEF Inv, Queued, first
    <3>3. Flight(r)
      BY <2>1, <3>2 DEF Inv, Running
    <3> QED
      BY <1>1, <1>13, <2>1, <2>2, <3>1, <3>3 DEF Flight
  <2> QED
    BY <2>3, <2>4
<1> QED
  BY <1>12, <1>20, <1>21 DEF Inv

-----------------------------------------------------------------------------
(* The deferred steps *)

(* A window is as long as the caps of its members allow behind the staged rows. *)
LEMMA BudgetFits ==
  ASSUME Inv, phase = "decode", flush # Unstaged => Pipelined
  PROVE  /\ Budget \in Nat /\ 0 < Budget /\ Budget <= WindowSize
         /\ \A r \in ToSet(decoding) : Len(generated[r]) + Staged(r) + Budget <= shape[r].new
<1> DEFINE S == {WindowSize} \cup {Remaining(r) - Len(flush.rows) : r \in ToSet(decoding)}
<1>1. ASSUME NEW r \in ToSet(decoding)
      PROVE  /\ r \in Requests /\ Len(flush.rows) \in Nat /\ Staged(r) = Len(flush.rows)
             /\ Remaining(r) - Len(flush.rows) \in Nat /\ Remaining(r) - Len(flush.rows) >= 1
             /\ Remaining(r) - Len(flush.rows) = shape[r].new - Len(generated[r]) - Staged(r)
  <2>1. r \in Requests /\ Running(r)
    BY MembersAreRequests DEF Inv, Typed, Queued, Running
  <2>2. Flight(r)
    BY <2>1 DEF Inv
  <2>3. Len(generated[r]) \in Nat /\ shape[r].new \in Nat /\ Stop(r) \in Nat /\ Stop(r) <= shape[r].new
        /\ Staged(r) \in Nat
    BY <2>1, Numbers
  <2>4. Remaining(r) = shape[r].new - Len(generated[r])
    BY DEF Remaining
  <2>5. Len(generated[r]) < Stop(r)
    BY <2>2 DEF Flight
  <2>6. CASE flush = Unstaged
    <3>1. Len(flush.rows) = 0 /\ r \notin ToSet(flush.requests)
      BY <2>6 DEF Unstaged, ToSet
    <3>2. Staged(r) = 0
      BY <3>1 DEF Staged
    <3> QED
      BY <2>1, <2>3, <2>4, <2>5, <3>1, <3>2
  <2>7. CASE flush # Unstaged
    <3>1. flush.requests = decoding /\ Remaining(r) - Len(flush.rows) >= 1
      BY <2>7 DEF Pipelined
    <3>2. Staged(r) = Len(flush.rows)
      BY <3>1 DEF Staged
    <3> QED
      BY <2>1, <2>3, <2>4, <3>1, <3>2
  <2> QED
    BY <2>6, <2>7
<1>2. S \in SUBSET Nat /\ \A n \in S : n >= 1
  BY <1>1, WindowAssumption
<1>3. WindowSize \in S /\ WindowSize \in Nat
  BY WindowAssumption
<1>4. PICK b \in S : \A n \in S : b <= n
  <2>1. S # {}
    BY <1>3
  <2> HIDE DEF S
  <2> QED
    BY <1>2, <2>1, LeastOf
<1>5. Budget = b
  <2>1. S \in SUBSET Int
    BY <1>2
  <2>2. Budget = Min(S)
    BY DEF Budget
  <2> HIDE DEF S
  <2> QED
    BY <1>4, <2>1, <2>2, MinIs
<1>6. b \in Nat /\ b >= 1 /\ b <= WindowSize
  BY <1>2, <1>3, <1>4
<1>7. ASSUME NEW r \in ToSet(decoding) PROVE Len(generated[r]) + Staged(r) + Budget <= shape[r].new
  <2>1. Remaining(r) - Len(flush.rows) \in S
    OBVIOUS
  <2>2. b <= Remaining(r) - Len(flush.rows)
    BY <1>4, <2>1
  <2>3. Len(generated[r]) \in Nat /\ Staged(r) \in Nat /\ shape[r].new \in Nat
    BY <1>1, Numbers
  <2> QED
    BY <1>1, <1>5, <1>6, <2>2, <2>3
<1> QED
  BY <1>5, <1>6, <1>7

LEMMA OpenKeeps ==
  ASSUME Inv, Open
  PROVE  Inv'
<1>1. /\ shape' = shape /\ arrived' = arrived /\ gone' = gone /\ deferrable' = deferrable
      /\ waiting' = waiting /\ running' = running /\ generated' = generated /\ length' = length
      /\ flush' = flush /\ stash' = stash /\ result' = result
      /\ sent' = sent /\ prefilling' = prefilling /\ decoding' = decoding /\ phase' = phase
      /\ phase = "decode" /\ window = Closed /\ (flush # Unstaged => Pipelined)
      /\ window' = [requests |-> decoding, budget |-> Budget, rows |-> <<>>]
  BY DEF Open, ids, queues
<1>2. /\ Budget \in Nat /\ 0 < Budget /\ Budget <= WindowSize
      /\ \A r \in ToSet(decoding) : Len(generated[r]) + Staged(r) + Budget <= shape[r].new
  BY <1>1, BudgetFits
<1>3. Typed'
  BY <1>1 DEF Inv, Typed
<1>4. Queued'
  BY <1>1 DEF Inv, Queued
<1>5. Promised'
  BY <1>1 DEF Inv, Promised, Stop
<1>6. Reserved'
  BY <1>1, <1>3, ReservedKept
<1>7. decoding \in Seq(Requests)
  BY DEF Inv, Typed
<1>8. \A r \in Requests : (Running(r)' <=> Running(r)) /\ Stop(r)' = Stop(r)
  BY <1>1 DEF Running, Stop
<1>9. \A r \in ToSet(decoding) : r \in Requests /\ Running(r)
  BY <1>1, <1>7, MembersAreRequests DEF Inv, Queued, Running
<1>10. window'.requests = decoding /\ window'.budget = Budget /\ window'.rows = <<>>
  BY <1>1
<1>11. Batched'
  <2>1. window'.requests \in Seq(Requests) /\ window'.budget \in Nat
        /\ window'.rows \in Seq([DOMAIN window'.requests -> Nat])
    BY <1>2, <1>7, <1>10, EmptySeq
  <2>2. Len(window'.rows) < window'.budget /\ window'.budget <= WindowSize
    BY <1>2, <1>10, EmptySeq
  <2>3. \A r \in ToSet(window'.requests) : Running(r)'
    BY <1>8, <1>9, <1>10
  <2>4. flush # Unstaged => flush'.requests = window'.requests
    BY <1>1, <1>10 DEF Pipelined
  <2>5. flush.requests \in Seq(Requests) /\ flush.rows \in Seq([DOMAIN flush.requests -> Nat])
        /\ (flush # Unstaged => Len(flush.rows) \in 1..WindowSize)
        /\ \A r \in ToSet(flush.requests) : Running(r) \/ Len(generated[r]) = Stop(r)
    BY DEF Inv, Batched
  <2>6. \A r \in ToSet(flush.requests) : r \in Requests
    BY <2>5, MembersAreRequests
  <2>7. \A r \in ToSet(flush'.requests) : Running(r)' \/ Len(generated'[r]) = Stop(r)'
    BY <1>1, <1>8, <2>5, <2>6
  <2> QED
    BY <1>1, <2>1, <2>2, <2>3, <2>4, <2>5, <2>7 DEF Batched
<1>12. ASSUME NEW r \in Requests, Running(r)' PROVE Flight(r)'
  <2>1. Flight(r)
    BY <1>8, <1>12 DEF Inv
  <2>2. Staged(r)' = Staged(r)
    BY <1>1 DEF Staged
  <2>3. Opened(r) = 0
    BY <1>1 DEF Opened, Closed, ToSet
  <2>4. Opened(r)' = 0 /\ Len(window'.rows) = 0
    BY <1>10 DEF Opened
  <2>5. r \in ToSet(window'.requests) =>
          Len(generated'[r]) + Staged(r)' + window'.budget <= shape'[r].new
    BY <1>1, <1>2, <1>10, <2>2
  <2> QED
    BY <1>1, <1>8, <2>1, <2>2, <2>3, <2>4, <2>5 DEF Flight
<1> QED
  BY <1>3, <1>4, <1>5, <1>6, <1>11, <1>12 DEF Inv
\* The tokens a deferred step samples, one per member of the window.
SampledRow == [n \in DOMAIN window.requests |-> Sampled(window.requests[n], Feed[n])]

LEMMA RowsTyped ==
  ASSUME Inv, phase = "decode", window # Closed, window.requests = decoding
  PROVE  /\ \A n \in DOMAIN decoding : Feed[n] \in Nat
         /\ SampledRow \in [DOMAIN window.requests -> Nat]
         /\ Append(window.rows, SampledRow) \in Seq([DOMAIN window.requests -> Nat])
         /\ Len(Append(window.rows, SampledRow)) = Len(window.rows) + 1
         /\ \A n \in 1..Len(window.rows) : Append(window.rows, SampledRow)[n] = window.rows[n]
         /\ Append(window.rows, SampledRow)[Len(window.rows) + 1] = SampledRow
         /\ Len(window.rows) \in Nat /\ Len(flush.rows) \in Nat
<1> DEFINE rows == window.rows
           staged == flush.rows
           batch == window.requests
<1>1. batch \in Seq(Requests) /\ rows \in Seq([DOMAIN batch -> Nat])
      /\ flush.requests \in Seq(Requests) /\ staged \in Seq([DOMAIN flush.requests -> Nat])
      /\ (flush # Unstaged => Len(staged) \in 1..WindowSize)
  BY DEF Inv, Batched
<1>2. Len(rows) \in Nat /\ Len(staged) \in Nat
      /\ (\A n \in 1..Len(rows) : rows[n] \in [DOMAIN batch -> Nat])
      /\ (\A n \in 1..Len(staged) : staged[n] \in [DOMAIN flush.requests -> Nat])
  BY <1>1, LenProperties, ElementOfSeq
<1>3. ASSUME NEW n \in DOMAIN decoding PROVE Feed[n] \in Nat
  <2>1. CASE rows # <<>>
    <3>1. Len(rows) # 0
      BY <1>1, <2>1, EmptySeq
    <3>2. Last(rows) = rows[Len(rows)] /\ Len(rows) \in 1..Len(rows)
      BY <1>2, <3>1 DEF Last
    <3> QED
      BY <1>2, <2>1, <3>2 DEF Feed
  <2>2. CASE rows = <<>> /\ flush # Unstaged /\ flush.requests = batch
    <3>1. Last(staged) = staged[Len(staged)] /\ Len(staged) \in 1..Len(staged)
      BY <1>1, <1>2, <2>2, WindowAssumption DEF Last
    <3>2. Last(staged)[n] \in Nat
      BY <1>2, <2>2, <3>1
    <3> QED
      BY <2>2, <3>2 DEF Feed
  <2>3. CASE rows = <<>> /\ ~(flush # Unstaged /\ flush.requests = batch)
    <3>1. decoding \in Seq(Requests)
      BY DEF Inv, Typed
    <3>2. decoding[n] \in Requests /\ decoding[n] \in ToSet(decoding)
      BY <3>1, LenProperties, ElementOfSeq DEF ToSet
    <3>3. Running(decoding[n])
      BY <3>2 DEF Inv, Queued, Running
    <3>4. Flight(decoding[n])
      BY <3>2, <3>3 DEF Inv
    <3> DEFINE r == decoding[n]
    <3>5. r \in Requests /\ 1 <= Len(generated[r])
      BY <3>2, <3>4 DEF Flight
    <3>6. Feed[n] = Last(generated[r])
      BY <2>3 DEF Feed
    <3> HIDE DEF r
    <3>7. Len(generated[r]) \in Nat /\ generated[r] = Ramp(Len(generated[r]))
      BY <3>5, Numbers
    <3>8. Last(Ramp(Len(generated[r]))) = Len(generated[r])
      BY <3>5, <3>7, RampTyped
    <3> QED
      BY <3>6, <3>7, <3>8
  <2> QED
    BY <2>1, <2>2, <2>3
<1>4. SampledRow \in [DOMAIN batch -> Nat]
  <2>1. \A n \in DOMAIN batch : Sampled(batch[n], Feed[n]) \in Nat
    BY <1>3 DEF Sampled, Wrong
  <2> QED
    BY <2>1 DEF SampledRow
<1> DEFINE row == SampledRow
           Row == [DOMAIN batch -> Nat]
           longer == Append(rows, row)
<1>5. row \in Row /\ rows \in Seq(Row)
  BY <1>1, <1>4
<1> HIDE DEF row, Row, rows
<1>6. /\ longer \in Seq(Row) /\ Len(longer) = Len(rows) + 1
      /\ \A n \in 1..Len(rows) : longer[n] = rows[n]
      /\ longer[Len(rows) + 1] = row
  BY <1>5, AppendProperties
<1> QED
  BY <1>2, <1>3, <1>4, <1>6 DEF row, Row, rows

(* A member of the window is fed the last token of its answer so far, and  *)
(* samples the next.                                                       *)
LEMMA NextSampled ==
  ASSUME Inv, phase = "decode", window # Closed, window.requests = decoding,
         NEW r \in Requests, r \in ToSet(window.requests)
  PROVE  SampledRow[At(window.requests, r)] = Len(generated[r]) + Staged(r) + Len(window.rows) + 1
<1> DEFINE i == At(window.requests, r)
           g == Len(generated[r])
           last == g + Staged(r) + Len(window.rows)
<1>1. Running(r) /\ Flight(r)
  BY DEF Inv, Batched
<1>2. g \in Nat /\ Staged(r) \in Nat /\ length[r] \in Nat /\ shape[r].prompt \in Nat
      /\ generated[r] = Ramp(g)
  BY Numbers
<1>3. Len(window.rows) \in Nat /\ Len(flush.rows) \in Nat /\ Opened(r) = Len(window.rows)
  BY RowsTyped DEF Opened
<1>4. i \in DOMAIN window.requests /\ window.requests[i] = r
  BY DEF At, ToSet
<1>5. 1 <= g /\ length[r] = shape[r].prompt + g - 1 + Staged(r) + Len(window.rows)
  BY <1>1, <1>3 DEF Flight
<1>6. window.rows \in Seq([DOMAIN window.requests -> Nat])
      /\ flush.rows \in Seq([DOMAIN flush.requests -> Nat])
      /\ (flush # Unstaged => Len(flush.rows) \in 1..WindowSize /\ flush.requests = window.requests)
  BY DEF Inv, Batched
<1>7. Feed[i] = last
  <2>1. CASE window.rows # <<>>
    <3>1. Len(window.rows) # 0
      BY <1>6, <2>1, EmptySeq
    <3>2. Last(window.rows) = window.rows[Len(window.rows)]
          /\ Len(window.rows) \in 1..Len(window.rows)
      BY <1>3, <3>1 DEF Last
    <3>3. Feed[i] = window.rows[Len(window.rows)][i]
      BY <2>1, <3>2 DEF Feed
    <3>4. window.rows[Len(window.rows)][i] = g + Staged(r) + Len(window.rows)
      BY <1>1, <3>2 DEF Flight
    <3> QED
      BY <3>3, <3>4
  <2>2. CASE window.rows = <<>> /\ flush # Unstaged
    <3>1. Last(flush.rows) = flush.rows[Len(flush.rows)] /\ Len(flush.rows) \in 1..Len(flush.rows)
          /\ flush.requests = window.requests
      BY <1>3, <1>6, <2>2, WindowAssumption DEF Last
    <3>2. Feed[i] = flush.rows[Len(flush.rows)][i]
      BY <2>2, <3>1 DEF Feed
    <3>3. flush.rows[Len(flush.rows)][At(flush.requests, r)] = g + Len(flush.rows)
      BY <1>1, <3>1 DEF Flight
    <3>4. Staged(r) = Len(flush.rows)
      BY <3>1 DEF Staged
    <3>5. Len(window.rows) = 0
      BY <2>2
    <3> QED
      BY <1>2, <1>3, <3>1, <3>2, <3>3, <3>4, <3>5
  <2>3. CASE window.rows = <<>> /\ flush = Unstaged
    <3>1. Feed[i] = Last(generated[decoding[i]])
      BY <1>4, <2>3 DEF Feed
    <3>2. Last(Ramp(g)) = g
      BY <1>2, <1>5, RampTyped
    <3>3. Staged(r) = 0
      BY <2>3 DEF Staged, Unstaged, ToSet
    <3>4. Len(window.rows) = 0
      BY <2>3
    <3>5. Feed[i] = g
      BY <1>2, <1>4, <3>1, <3>2
    <3> QED
      BY <1>2, <3>3, <3>4, <3>5
  <2> QED
    BY <2>1, <2>2, <2>3
<1>8. SampledRow[i] = Sampled(r, Feed[i])
  BY <1>4 DEF SampledRow
<1>9. last \in Nat /\ last # 0 /\ length[r] = shape[r].prompt + last - 1
  <2> DEFINE p == shape[r].prompt
             u == Staged(r)
             w == Len(window.rows)
             l == length[r]
  <2>1. p \in Nat /\ g \in Nat /\ u \in Nat /\ w \in Nat /\ l \in Nat /\ 1 <= g
        /\ l = p + g - 1 + u + w /\ last = g + u + w
    BY <1>2, <1>3, <1>5
  <2> HIDE DEF p, g, u, w, l, last
  <2>2. last \in Nat /\ last # 0 /\ l = p + last - 1
    BY <2>1
  <2> QED
    BY <2>2 DEF p, l
<1>10. Sampled(r, last) = last + 1
  <2> HIDE DEF last
  <2> QED
    BY <1>9 DEF Sampled, Wrong
<1> QED
  BY <1>7, <1>8, <1>10

LEMMA StepKeeps ==
  ASSUME Inv, Step
  PROVE  Inv' /\ Records
<1> DEFINE members == ToSet(window.requests)
           rows == Append(window.rows, SampledRow)
           full == Len(rows) >= window.budget
           len == [r \in Requests |-> length[r] + IF r \in members THEN 1 ELSE 0]
           gen == IF full THEN Consumed(generated, flush.requests, flush.rows) ELSE generated
           k == IF full THEN Landings ELSE Lengths
<1>1. phase = "decode" /\ window # Closed /\ window.requests = decoding
  BY DEF Step
<1>2. CASE DonationRaises(gen, len)
  BY <1>1, <1>2, DieKeeps DEF Step, SampledRow
<1>3. CASE ~DonationRaises(gen, len)
  <2>1. /\ Settle(gen, len) /\ result' = Plus(result, gen)
        /\ window' = (IF full THEN Closed ELSE [window EXCEPT !.rows = rows])
        /\ flush' = (IF full THEN [requests |-> window.requests, rows |-> rows] ELSE flush)
        /\ phase' = (IF full \/ waiting # <<>> THEN "return" ELSE "decode")
        /\ decoding' = (IF phase' = "return" THEN <<>> ELSE decoding)
        /\ UNCHANGED <<ids, deferrable, waiting, stash, sent, prefilling>>
    BY <1>3 DEF Step, SampledRow
  <2>2. /\ rows \in Seq([DOMAIN window.requests -> Nat])
        /\ Len(rows) = Len(window.rows) + 1
        /\ \A n \in 1..Len(window.rows) : rows[n] = window.rows[n]
        /\ rows[Len(window.rows) + 1] = SampledRow
        /\ Len(window.rows) \in Nat /\ Len(flush.rows) \in Nat
    BY <1>1, RowsTyped
  <2>3. /\ window.requests \in Seq(Requests) /\ window.budget \in Nat
        /\ flush.requests \in Seq(Requests) /\ flush.rows \in Seq([DOMAIN flush.requests -> Nat])
        /\ Len(window.rows) < window.budget /\ window.budget <= WindowSize
        /\ flush # Unstaged => Len(flush.rows) \in 1..WindowSize /\ flush.requests = window.requests
        /\ \A r \in ToSet(flush.requests) : Running(r) \/ Len(generated[r]) = Stop(r)
        /\ \A r \in members : Running(r)
    BY <1>1 DEF Inv, Batched
  <2>4. (\A r \in members : r \in Requests) /\ (\A r \in ToSet(flush.requests) : r \in Requests)
    BY <2>3, MembersAreRequests
  <2>5. Advances(gen, k)
    BY DrainAdvances
  <2>6. ASSUME NEW r \in Requests
        PROVE  /\ Staged(r) = (IF r \in ToSet(flush.requests) THEN Len(flush.rows) ELSE 0)
               /\ Opened(r) = IF r \in members THEN Len(window.rows) ELSE 0
               /\ len[r] = length[r] + IF r \in members THEN 1 ELSE 0
               /\ k[r] = IF full THEN Landed(r) ELSE Len(generated[r])
    BY DEF Staged, Opened, Landings, Lengths
  <2>7. \A r \in Requests : Running(r) <=> r \in ToSet(running)
    BY <1>1, OutsidePrefill
  <2>8. ASSUME NEW r \in members
        PROVE  /\ Flight(r)
               /\ SampledRow[At(window.requests, r)]
                  = Len(generated[r]) + Staged(r) + Len(window.rows) + 1
    BY <1>1, <2>3, <2>4, NextSampled DEF Inv
  <2>9. len = [r \in Requests |-> len[r]]
    OBVIOUS
  <2> HIDE DEF rows, full, len, gen, k, members
  <2>10. Tabled(len)
    <3>1. ASSUME NEW r \in Requests
          PROVE  len[r] \in Nat /\ (r \in ToSet(running) <=> len[r] > 0)
      <4>1. length[r] \in Nat /\ (r \in ToSet(running) <=> length[r] > 0)
        BY <1>1, OutsidePrefill DEF Tabled
      <4>2. CASE r \in members
        <5>1. length[r] > 0 /\ len[r] = length[r] + 1
          BY <2>3, <2>6, <4>2 DEF Running
        <5> QED
          BY <4>1, <5>1
      <4>3. CASE r \notin members
        <5>1. len[r] = length[r]
          BY <2>6, <4>1, <4>3
        <5> QED
          BY <4>1, <5>1
      <4> QED
        BY <4>2, <4>3
    <3>2. len \in [Requests -> Nat]
      BY <2>9, <3>1
    <3> QED
      BY <3>1, <3>2 DEF Tabled
  <2>11. prefilling \in Seq(Requests) /\ decoding \in Seq(Requests)
    BY DEF Inv, Typed
  <2>12. prefilling' \in Seq(Requests) /\ decoding' \in Seq(Requests)
         /\ phase' \in {"decode", "return"} /\ UNCHANGED <<ids, deferrable, waiting, stash, sent>>
    <3>1. <<>> \in Seq(Requests)
      OBVIOUS
    <3> QED
      BY <2>1, <2>11, <3>1
  <2>13. ASSUME phase' = "decode", NEW r \in ToSet(decoding')
         PROVE  r \in ToSet(running) /\ k[r] # Stop(r)
    <3>1. ~full /\ r \in ToSet(decoding)
      BY <2>1, <2>13
    <3>2. r \in members /\ r \in Requests
      BY <1>1, <2>4, <3>1 DEF members
    <3>3. Len(generated[r]) < Stop(r) /\ r \in ToSet(running)
      BY <2>3, <2>8, <3>2 DEF Flight, Running
    <3>4. k[r] = Len(generated[r]) /\ Stop(r) \in Nat /\ Len(generated[r]) \in Nat
      BY <2>6, <3>1, <3>2, Numbers
    <3> QED
      BY <3>3, <3>4
  <2>14. Typed' /\ Queued' /\ Promised' /\ Reserved' /\ Records
    BY <1>1, <2>1, <2>5, <2>10, <2>12, <2>13, SettleKeeps
  <2>15. Releases(gen, len, Over(gen)) /\ shape' = shape
    BY <2>1 DEF Settle, Releases, ids
  <2>16. \A r \in Requests : r \in Over(gen) <=> r \in ToSet(running) /\ k[r] = Stop(r)
    BY <2>5, OverIs
  <2>17. \A r \in Requests :
           /\ generated'[r] = Ramp(k[r]) /\ Len(generated'[r]) = k[r] /\ Stop(r)' = Stop(r)
           /\ k[r] \in Nat
           /\ r \in ToSet(running') <=> r \in ToSet(running) /\ r \notin Over(gen)
           /\ Running(r)' <=> r \in ToSet(running')
           /\ r \in ToSet(running') => k[r] < Stop(r) /\ length'[r] = len[r]
           /\ r \notin ToSet(running) => k[r] = Len(generated[r])
    BY <2>5, <2>10, <2>15, AfterRelease
  <2>18. ASSUME NEW r \in Requests, Running(r) PROVE Running(r)' \/ Len(generated'[r]) = Stop(r)'
    BY <2>7, <2>16, <2>17, <2>18
  <2>19. ASSUME NEW r \in Requests, Running(r)'
         PROVE  /\ Running(r) /\ Flight(r)
                /\ k[r] = (IF full THEN Len(generated[r]) + Staged(r) ELSE Len(generated[r]))
                /\ Len(generated[r]) \in Nat /\ Staged(r) \in Nat /\ shape[r].prompt \in Nat
                /\ shape[r].new \in Nat /\ length[r] \in Nat /\ k[r] \in Nat /\ 1 <= k[r]
                /\ k[r] < Stop(r) /\ Stop(r) <= shape[r].new /\ Stop(r) \in Nat
                /\ length'[r] = length[r] + IF r \in members THEN 1 ELSE 0
                /\ Len(generated'[r]) = k[r] /\ Stop(r)' = Stop(r) /\ shape'[r] = shape[r]
    <3>1. /\ Running(r) /\ k[r] < Stop(r) /\ length'[r] = len[r] /\ Len(generated'[r]) = k[r]
          /\ Stop(r)' = Stop(r) /\ k[r] \in Nat
      BY <2>7, <2>17, <2>19
    <3>2. Flight(r) /\ 1 <= Len(generated[r])
      BY <3>1 DEF Inv, Flight
    <3>3. /\ Len(generated[r]) \in Nat /\ Staged(r) \in Nat /\ shape[r].prompt \in Nat
          /\ shape[r].new \in Nat /\ length[r] \in Nat /\ Stop(r) <= shape[r].new /\ Stop(r) \in Nat
      BY Numbers
    <3>4. k[r] = IF full THEN Len(generated[r]) + Staged(r) ELSE Len(generated[r])
      <4>1. CASE full
        <5>1. k[r] = Landed(r) /\ Landed(r) # Stop(r)
          BY <2>6, <3>1, <3>3, <4>1
        <5>2. Landed(r) = Len(generated[r]) + Staged(r)
          BY <3>1, <5>1, TargetsTyped
        <5> QED
          BY <4>1, <5>1, <5>2
      <4>2. CASE ~full
        BY <2>6, <4>2
      <4> QED
        BY <4>1, <4>2
    <3>5. 1 <= k[r]
      BY <3>2, <3>3, <3>4
    <3>6. length'[r] = length[r] + IF r \in members THEN 1 ELSE 0
      BY <2>6, <3>1
    <3> QED
      BY <2>15, <3>1, <3>2, <3>3, <3>4, <3>5, <3>6
  <2>20. CASE full
    <3>1. /\ window' = Closed /\ flush'.requests = window.requests /\ flush'.rows = rows
          /\ window'.requests = <<>> /\ window'.rows = <<>> /\ window'.budget = 0
      BY <2>1, <2>20 DEF Closed
    <3>2. Batched'
      <4>1. window'.requests \in Seq(Requests) /\ window'.budget \in Nat
            /\ window'.rows \in Seq([DOMAIN window'.requests -> Nat])
        BY <3>1, EmptySeq
      <4>2. flush'.requests \in Seq(Requests) /\ flush'.rows \in Seq([DOMAIN flush'.requests -> Nat])
        BY <2>2, <2>3, <3>1
      <4>3. Len(flush'.rows) \in 1..WindowSize
        <5>1. WindowSize \in Nat
          BY WindowAssumption
        <5> QED
          BY <2>2, <2>3, <3>1, <5>1
      <4>4. \A r \in ToSet(flush'.requests) : Running(r)' \/ Len(generated'[r]) = Stop(r)'
        BY <2>3, <2>4, <2>18, <3>1 DEF members
      <4> QED
        BY <3>1, <4>1, <4>2, <4>3, <4>4 DEF Batched
    <3>3. ASSUME NEW r \in Requests, Running(r)' PROVE Flight(r)'
      <4>1. k[r] = Len(generated[r]) + Staged(r)
        BY <2>19, <2>20, <3>3
      <4>2. Opened(r)' = 0 /\ r \notin ToSet(window'.requests)
        BY <3>1 DEF Opened, ToSet
      <4>3. CASE r \in members
        <5>1. Staged(r)' = Len(window.rows) + 1
          BY <2>2, <3>1, <4>3 DEF Staged, members
        <5>2. /\ length[r] = shape[r].prompt + Len(generated[r]) - 1 + Staged(r) + Len(window.rows)
              /\ \A n \in 1..Len(window.rows) :
                   window.rows[n][At(window.requests, r)] = Len(generated[r]) + Staged(r) + n
              /\ Len(generated[r]) + Staged(r) + window.budget <= shape[r].new
          <6>1. Flight(r) /\ Opened(r) = Len(window.rows)
            BY <2>6, <2>8, <4>3
          <6> QED
            BY <4>3, <6>1 DEF Flight, members
        <5>3. length'[r] = length[r] + 1
          BY <2>19, <3>3, <4>3
        <5>4. length'[r] = shape'[r].prompt + Len(generated'[r]) - 1 + Staged(r)' + Opened(r)'
          <6>1. /\ Len(generated'[r]) = Len(generated[r]) + Staged(r) /\ shape'[r] = shape[r]
                /\ Staged(r)' = Len(window.rows) + 1 /\ Opened(r)' = 0 /\ length'[r] = length[r] + 1
            BY <2>19, <3>3, <4>1, <4>2, <5>1, <5>3
          <6> DEFINE p == shape[r].prompt
                     g == Len(generated[r])
                     u == Staged(r)
                     w == Len(window.rows)
                     l == length[r]
          <6>2. p \in Nat /\ g \in Nat /\ u \in Nat /\ w \in Nat /\ l \in Nat
                /\ l = p + g - 1 + u + w
            BY <2>2, <2>19, <3>3, <5>2
          <6> HIDE DEF p, g, u, w, l
          <6>3. l + 1 = p + (g + u) - 1 + (w + 1) + 0
            BY <6>2
          <6> QED
            BY <6>1, <6>3 DEF p, g, u, w, l
        <5>5. Len(generated'[r]) + Staged(r)' + Opened(r)' <= shape'[r].new
          <6>1. /\ Len(generated'[r]) = Len(generated[r]) + Staged(r) /\ shape'[r] = shape[r]
                /\ Staged(r)' = Len(window.rows) + 1 /\ Opened(r)' = 0
            BY <2>19, <3>3, <4>1, <4>2, <5>1
          <6> DEFINE m == shape[r].new
                     g == Len(generated[r])
                     u == Staged(r)
                     w == Len(window.rows)
                     b == window.budget
          <6>2. m \in Nat /\ g \in Nat /\ u \in Nat /\ w \in Nat /\ b \in Nat
                /\ g + u + b <= m /\ w < b
            BY <2>2, <2>3, <2>19, <3>3, <5>2
          <6> HIDE DEF m, g, u, w, b
          <6>3. (g + u) + (w + 1) + 0 <= m
            BY <6>2
          <6> QED
            BY <6>1, <6>3 DEF m, g, u, w
        <5>6. ASSUME NEW n \in 1..Len(flush'.rows)
              PROVE  flush'.rows[n][At(flush'.requests, r)] = Len(generated'[r]) + n
          <6>1. Len(generated'[r]) = Len(generated[r]) + Staged(r)
            BY <2>19, <3>3, <4>1
          <6>2. CASE n \in 1..Len(window.rows)
            BY <2>2, <3>1, <5>2, <6>1, <6>2
          <6>3. CASE n = Len(window.rows) + 1
            <7>1. flush'.rows[n][At(flush'.requests, r)] = SampledRow[At(window.requests, r)]
              BY <2>2, <3>1, <6>3
            <7>2. SampledRow[At(window.requests, r)]
                  = Len(generated[r]) + Staged(r) + Len(window.rows) + 1
              BY <2>8, <4>3
            <7>3. Len(generated[r]) \in Nat /\ Staged(r) \in Nat
              BY <2>19, <3>3
            <7>4. Len(generated[r]) + Staged(r) + Len(window.rows) + 1
                  = (Len(generated[r]) + Staged(r)) + (Len(window.rows) + 1)
              BY <2>2, <7>3
            <7> QED
              BY <6>1, <6>3, <7>1, <7>2, <7>4
          <6> QED
            BY <2>2, <3>1, <6>2, <6>3
        <5> QED
          BY <2>19, <3>3, <4>2, <5>4, <5>5, <5>6 DEF Flight
      <4>4. CASE r \notin members
        <5>1. Staged(r)' = 0 /\ r \notin ToSet(flush'.requests) /\ Opened(r) = 0
          BY <2>6, <3>1, <4>4 DEF Staged, members
        <5>2. length[r] = shape[r].prompt + Len(generated[r]) - 1 + Staged(r)
          <6>1. Flight(r)
            BY <2>19, <3>3
          <6>2. length[r] = shape[r].prompt + Len(generated[r]) - 1 + Staged(r) + 0
            BY <5>1, <6>1 DEF Flight
          <6> QED
            BY <2>19, <3>3, <6>2
        <5>3. length'[r] = length[r]
          BY <2>19, <3>3, <4>4
        <5>4. length'[r] = shape'[r].prompt + Len(generated'[r]) - 1 + Staged(r)' + Opened(r)'
          <6>1. /\ Len(generated'[r]) = Len(generated[r]) + Staged(r) /\ shape'[r] = shape[r]
                /\ Staged(r)' = 0 /\ Opened(r)' = 0 /\ length'[r] = length[r]
            BY <2>19, <3>3, <4>1, <4>2, <5>1, <5>3
          <6> DEFINE p == shape[r].prompt
                     g == Len(generated[r])
                     u == Staged(r)
                     w == Len(window.rows)
                     l == length[r]
          <6>2. p \in Nat /\ g \in Nat /\ u \in Nat /\ w \in Nat /\ l \in Nat
                /\ l = p + g - 1 + u
            BY <2>2, <2>19, <3>3, <5>2
          <6> HIDE DEF p, g, u, w, l
          <6>3. l = p + (g + u) - 1 + 0 + 0
            BY <6>2
          <6> QED
            BY <6>1, <6>3 DEF p, g, u, w, l
        <5>5. Len(generated'[r]) + Staged(r)' + Opened(r)' <= shape'[r].new
          BY <2>19, <3>3, <4>2, <5>1
        <5> QED
          BY <2>19, <3>3, <4>2, <5>1, <5>4, <5>5 DEF Flight
      <4> QED
        BY <4>3, <4>4
    <3> QED
      BY <2>14, <3>2, <3>3 DEF Inv
  <2>21. CASE ~full
    <3>1. /\ window'.requests = window.requests /\ window'.rows = rows
          /\ window'.budget = window.budget /\ flush' = flush
      BY <2>1, <2>21
    <3>2. Len(window.rows) + 1 < window.budget
      BY <2>2, <2>3, <2>21 DEF full
    <3>3. ASSUME NEW r \in members PROVE Running(r)'
      <4>1. r \in Requests /\ Running(r) /\ Flight(r) /\ k[r] = Len(generated[r])
        BY <2>3, <2>4, <2>6, <2>8, <2>21
      <4>2. k[r] # Stop(r)
        BY <4>1, Numbers DEF Flight
      <4> QED
        BY <2>7, <2>16, <2>17, <4>1, <4>2
    <3>4. Batched'
      <4>1. window'.requests \in Seq(Requests) /\ window'.budget \in Nat
            /\ window'.rows \in Seq([DOMAIN window'.requests -> Nat])
        BY <2>2, <2>3, <3>1
      <4>2. Len(window'.rows) < window'.budget /\ window'.budget <= WindowSize
        BY <2>2, <2>3, <3>1, <3>2
      <4>3. \A r \in ToSet(window'.requests) : Running(r)'
        BY <3>1, <3>3 DEF members
      <4>4. ASSUME NEW r \in ToSet(flush'.requests) PROVE Running(r)' \/ Len(generated'[r]) = Stop(r)'
        <5>1. r \in Requests /\ (Running(r) \/ Len(generated[r]) = Stop(r))
          BY <2>3, <2>4, <3>1, <4>4
        <5>2. CASE Running(r)
          BY <2>18, <5>1, <5>2
        <5>3. CASE ~Running(r)
          BY <2>6, <2>17, <2>21, <5>1, <5>3
        <5> QED
          BY <5>2, <5>3
      <4> QED
        BY <2>3, <3>1, <4>1, <4>2, <4>3, <4>4 DEF Batched
    <3>5. ASSUME NEW r \in Requests, Running(r)' PROVE Flight(r)'
      <4>1. k[r] = Len(generated[r]) /\ Flight(r)
        BY <2>19, <2>21, <3>5
      <4>2. Staged(r)' = Staged(r)
        BY <3>1 DEF Staged
      <4>3. r \in ToSet(flush'.requests) =>
              \A n \in 1..Len(flush'.rows) :
                flush'.rows[n][At(flush'.requests, r)] = Len(generated'[r]) + n
        <5>1. r \in ToSet(flush.requests) =>
                \A n \in 1..Len(flush.rows) :
                  flush.rows[n][At(flush.requests, r)] = Len(generated[r]) + n
          BY <4>1 DEF Flight
        <5>2. Len(generated'[r]) = Len(generated[r])
          BY <2>19, <3>5, <4>1
        <5> QED
          BY <3>1, <5>1, <5>2
      <4>4. CASE r \in members
        <5>1. Opened(r)' = Len(window.rows) + 1
          BY <2>2, <3>1, <4>4 DEF Opened, members
        <5>2. /\ length[r] = shape[r].prompt + Len(generated[r]) - 1 + Staged(r) + Len(window.rows)
              /\ \A n \in 1..Len(window.rows) :
                   window.rows[n][At(window.requests, r)] = Len(generated[r]) + Staged(r) + n
              /\ Len(generated[r]) + Staged(r) + window.budget <= shape[r].new
          <6>1. Flight(r) /\ Opened(r) = Len(window.rows)
            BY <2>6, <2>8, <4>4
          <6> QED
            BY <4>4, <6>1 DEF Flight, members
        <5>3. length'[r] = length[r] + 1
          BY <2>19, <3>5, <4>4
        <5>4. length'[r] = shape'[r].prompt + Len(generated'[r]) - 1 + Staged(r)' + Opened(r)'
          <6>1. /\ Len(generated'[r]) = Len(generated[r]) /\ shape'[r] = shape[r]
                /\ Staged(r)' = Staged(r) /\ Opened(r)' = Len(window.rows) + 1 /\ length'[r] = length[r] + 1
            BY <2>19, <3>5, <4>1, <4>2, <5>1, <5>3
          <6> DEFINE p == shape[r].prompt
                     g == Len(generated[r])
                     u == Staged(r)
                     w == Len(window.rows)
                     l == length[r]
          <6>2. p \in Nat /\ g \in Nat /\ u \in Nat /\ w \in Nat /\ l \in Nat
                /\ l = p + g - 1 + u + w
            BY <2>2, <2>19, <3>5, <5>2
          <6> HIDE DEF p, g, u, w, l
          <6>3. l + 1 = p + g - 1 + u + (w + 1)
            BY <6>2
          <6> QED
            BY <6>1, <6>3 DEF p, g, u, w, l
        <5>5. Len(generated'[r]) + Staged(r)' + Opened(r)' <= shape'[r].new
          <6>1. /\ Len(generated'[r]) = Len(generated[r]) /\ shape'[r] = shape[r]
                /\ Staged(r)' = Staged(r) /\ Opened(r)' = Len(window.rows) + 1
            BY <2>19, <3>5, <4>1, <4>2, <5>1
          <6> DEFINE m == shape[r].new
                     g == Len(generated[r])
                     u == Staged(r)
                     w == Len(window.rows)
                     b == window.budget
          <6>2. m \in Nat /\ g \in Nat /\ u \in Nat /\ w \in Nat /\ b \in Nat
                /\ g + u + b <= m /\ w < b
            BY <2>2, <2>3, <2>19, <3>5, <5>2
          <6> HIDE DEF m, g, u, w, b
          <6>3. g + u + (w + 1) <= m
            BY <6>2
          <6> QED
            BY <6>1, <6>3 DEF m, g, u, w
        <5>6. ASSUME NEW n \in 1..Len(window'.rows)
              PROVE  window'.rows[n][At(window'.requests, r)]
                     = Len(generated'[r]) + Staged(r)' + n
          <6>1. Len(generated'[r]) = Len(generated[r])
            BY <2>19, <3>5, <4>1
          <6>2. CASE n \in 1..Len(window.rows)
            BY <2>2, <3>1, <4>2, <5>2, <6>1, <6>2
          <6>3. CASE n = Len(window.rows) + 1
            <7>1. window'.rows[n][At(window'.requests, r)] = SampledRow[At(window.requests, r)]
              BY <2>2, <3>1, <6>3
            <7>2. SampledRow[At(window.requests, r)]
                  = Len(generated[r]) + Staged(r) + Len(window.rows) + 1
              BY <2>8, <4>4
            <7>3. Len(generated[r]) \in Nat /\ Staged(r) \in Nat
              BY <2>19, <3>5
            <7>4. Len(generated[r]) + Staged(r) + Len(window.rows) + 1
                  = Len(generated[r]) + Staged(r) + (Len(window.rows) + 1)
              BY <2>2, <7>3
            <7> QED
              BY <4>2, <6>1, <6>3, <7>1, <7>2, <7>4
          <6> QED
            BY <2>2, <3>1, <6>2, <6>3
        <5>7. Len(generated'[r]) + Staged(r)' + window'.budget <= shape'[r].new
          BY <2>19, <3>1, <3>5, <4>1, <4>2, <5>2
        <5> QED
          BY <2>19, <3>5, <4>3, <5>4, <5>5, <5>6, <5>7 DEF Flight
      <4>5. CASE r \notin members
        <5>1. Opened(r)' = 0 /\ r \notin ToSet(window'.requests) /\ Opened(r) = 0
          BY <2>6, <3>1, <4>5 DEF Opened, members
        <5>2. /\ length[r] = shape[r].prompt + Len(generated[r]) - 1 + Staged(r) + 0
              /\ Len(generated[r]) + Staged(r) + 0 <= shape[r].new
          BY <4>1, <5>1 DEF Flight
        <5>3. length'[r] = length[r]
          BY <2>19, <3>5, <4>5
        <5>4. length'[r] = shape'[r].prompt + Len(generated'[r]) - 1 + Staged(r)' + Opened(r)'
          BY <2>19, <3>5, <4>1, <4>2, <5>1, <5>2, <5>3
        <5>5. Len(generated'[r]) + Staged(r)' + Opened(r)' <= shape'[r].new
          BY <2>19, <3>5, <4>1, <4>2, <5>1, <5>2
        <5> QED
          BY <2>19, <3>5, <4>3, <5>1, <5>4, <5>5 DEF Flight
      <4> QED
        BY <4>4, <4>5
    <3> QED
      BY <2>14, <3>4, <3>5 DEF Inv
  <2> QED
    BY <2>20, <2>21
<1> QED
  BY <1>2, <1>3
-----------------------------------------------------------------------------
(* The invariant *)

LEMMA InitHolds ==
  ASSUME Init
  PROVE  Inv
<1>1. /\ shape \in [Requests -> Shapes] /\ deferrable \in [Requests -> BOOLEAN]
      /\ arrived = {} /\ gone = {} /\ waiting = <<>> /\ running = <<>>
      /\ generated = Nothing /\ length = [r \in Requests |-> 0]
      /\ window = Closed /\ flush = Unstaged
      /\ stash = Nothing /\ result = Nothing /\ sent = Nothing
      /\ phase = "between" /\ prefilling = <<>> /\ decoding = <<>>
  BY DEF Init
<1>2. Nothing \in [Requests -> Seq(Nat)] /\ \A r \in Requests : Nothing[r] = <<>>
  BY EmptySeq DEF Nothing
<1>3. Typed
  BY <1>1, <1>2 DEF Typed, Phases
<1>4. \A r : r \notin ToSet(waiting) /\ r \notin ToSet(running)
             /\ r \notin ToSet(prefilling) /\ r \notin ToSet(decoding)
  BY <1>1 DEF ToSet
<1>5. Queued
  <2>1. IsInjective(waiting)
    BY <1>1 DEF IsInjective
  <2> QED
    BY <1>1, <1>2, <1>4, <2>1 DEF Queued
<1>6. Promised
  <2>1. ASSUME NEW r \in Requests
        PROVE  /\ generated[r] = Ramp(Len(generated[r])) /\ Len(generated[r]) <= Stop(r)
               /\ sent[r] \o result[r] \o stash[r] = generated[r]
    <3>1. generated[r] = <<>> /\ sent[r] = <<>> /\ result[r] = <<>> /\ stash[r] = <<>>
      BY <1>1, <1>2
    <3>2. Len(generated[r]) = 0 /\ Ramp(0) = <<>>
      BY <3>1, RampTyped
    <3>3. Stop(r) \in Nat
      BY <1>3, StopTyped
    <3>4. <<>> \o <<>> = <<>>
      OBVIOUS
    <3> QED
      BY <3>1, <3>2, <3>3, <3>4
  <2> QED
    BY <1>1, <2>1 DEF Promised
<1>7. \A r : r \notin ToSet(window.requests) /\ r \notin ToSet(flush.requests)
  BY <1>1 DEF Closed, Unstaged, ToSet
<1>8. Batched
  <2>1. /\ window.requests = <<>> /\ window.budget = 0 /\ window.rows = <<>>
        /\ flush.requests = <<>> /\ flush.rows = <<>>
    BY <1>1 DEF Closed, Unstaged
  <2> QED
    BY <1>1, <1>7, <2>1, EmptySeq DEF Batched
<1>9. Reserved
  <2>1. ToSet(running) = {}
    BY <1>4
  <2>2. Committed = Needed(shape, {}) /\ Needed(shape, {}) = 0
    BY <1>3, <2>1, CommittedIs, SumEmpty DEF Needed
  <2> QED
    BY <2>2, WindowAssumption DEF Reserved
<1>10. \A r \in Requests : ~Running(r)
  BY <1>4 DEF Running
<1> QED
  BY <1>3, <1>5, <1>6, <1>8, <1>9, <1>10 DEF Inv

LEMMA NextKeeps ==
  ASSUME Inv, [Next]_vars
  PROVE  Inv'
<1>1. CASE UNCHANGED vars
  BY <1>1, StutterKeeps
<1>2. CASE Pass
  BY <1>2, BeginKeeps, PrefillKeeps, DecodeNormalKeeps, RecomposeKeeps, OpenKeeps, StepKeeps,
     ReturnKeeps DEF Pass
<1>3. ASSUME NEW r \in Requests, Add(r) \/ Abort(r) \/ BecomePrivate(r) PROVE Inv'
  BY <1>3, AddKeeps, AbortKeeps, BecomePrivateKeeps
<1> QED
  BY <1>1, <1>2, <1>3 DEF Next

(* engine_decode.py: in every state of the pass, what a running request has *)
(* recorded, staged and begun in the open window add up to the length of   *)
(* its table, the batch of a window is part of the running set, and the    *)
(* blocks promised by admission are those of the running set.              *)
THEOREM WindowInvariant == Spec => []Inv
<1>1. Init => Inv
  BY InitHolds
<1>2. Inv /\ [Next]_vars => Inv'
  BY NextKeeps
<1> QED
  BY <1>1, <1>2, PTL DEF Spec

LEMMA InFlight ==
  ASSUME Inv
  PROVE  InFlightExact
<1> SUFFICES ASSUME NEW r \in ToSet(running), length[r] > 0
             PROVE  /\ length[r] = shape[r].prompt + Len(generated[r]) - 1 + (Opened(r) + Staged(r))
                    /\ Opened(r) + Staged(r) < 2 * WindowSize
                    /\ length[r] <= shape[r].prompt + shape[r].new - 1
  BY DEF InFlightExact, Opened, Staged
<1>1. r \in Requests /\ Running(r)
  BY MembersAreRequests DEF Inv, Typed, Running
<1>2. Flight(r)
  BY <1>1 DEF Inv
<1>3. WindowSize \in Nat /\ WindowSize > 1
  BY WindowAssumption
<1>4. Len(generated[r]) \in Nat /\ Staged(r) \in Nat /\ Opened(r) \in Nat
      /\ shape[r].prompt \in Nat /\ shape[r].new \in Nat /\ length[r] \in Nat
  BY <1>1, Numbers
<1>5. Opened(r) < WindowSize
  <2>1. CASE window = Closed
    <3>1. Opened(r) = 0
      BY <2>1 DEF Opened, Closed, ToSet
    <3> QED
      BY <1>3, <3>1
  <2>2. CASE window # Closed
    <3>1. Len(window.rows) < window.budget /\ window.budget <= WindowSize /\ window.budget \in Nat
          /\ Len(window.rows) \in Nat
      BY <2>2, LenProperties DEF Inv, Batched
    <3> QED
      BY <1>3, <3>1 DEF Opened
  <2> QED
    BY <2>1, <2>2
<1>6. Staged(r) <= WindowSize
  <2>1. CASE flush = Unstaged
    <3>1. Staged(r) = 0
      BY <2>1 DEF Staged, Unstaged, ToSet
    <3> QED
      BY <1>3, <3>1
  <2>2. CASE flush # Unstaged
    <3>1. Len(flush.rows) \in 1..WindowSize
      BY <2>2 DEF Inv, Batched
    <3> QED
      BY <1>3, <3>1 DEF Staged
  <2> QED
    BY <2>1, <2>2
<1> DEFINE p == shape[r].prompt
           m == shape[r].new
           g == Len(generated[r])
           u == Staged(r)
           w == Opened(r)
           l == length[r]
<1>7. /\ p \in Nat /\ m \in Nat /\ g \in Nat /\ u \in Nat /\ w \in Nat /\ l \in Nat
      /\ l = p + g - 1 + u + w /\ g + u + w <= m /\ w < WindowSize /\ u <= WindowSize
  BY <1>2, <1>4, <1>5, <1>6 DEF Flight
<1> HIDE DEF p, m, g, u, w, l
<1>8. l = p + g - 1 + (w + u) /\ w + u < 2 * WindowSize /\ l <= p + m - 1
  BY <1>3, <1>7
<1> QED
  BY <1>8 DEF p, m, g, u, w, l

(* Behind the recorded tokens of a running request are exactly the rows of *)
(* the staged flush and of the open window, fewer than two windows of      *)
(* them, and no table runs past the cap that admission reserved blocks     *)
(* for: engine_decode.py counts on it when it bounds a window's budget.    *)
THEOREM RowsInFlightAreExact == Spec => []InFlightExact
<1>1. Inv => InFlightExact
  BY InFlight
<1> QED
  BY <1>1, WindowInvariant, PTL

-----------------------------------------------------------------------------
(* The engine implements the reference loop *)

LEMMA DeliveredIs == Inv => Delivered = generated
<1> SUFFICES ASSUME Inv PROVE Delivered = generated
  OBVIOUS
<1>1. generated = [r \in Requests |-> generated[r]]
  BY DEF Inv, Typed
<1>2. \A r \in Requests : sent[r] \o result[r] \o stash[r] = generated[r]
  BY DEF Inv, Promised
<1> QED
  BY <1>1, <1>2 DEF Delivered

(* What a step records are iterations of the reference loops of running requests. *)
LEMMA Iterates ==
  ASSUME Inv, Inv', Records, shape' = shape
  PROVE  \E S \in SUBSET (arrived \ gone) :
           Greedy!Iterate(S) /\ (S = {} => Delivered' = Delivered)
<1> DEFINE S == {r \in Requests : Len(generated[r]) # Len(generated'[r])}
           more == [r \in S |-> Len(generated'[r])]
<1>1. Delivered = generated /\ (Delivered = generated)'
  BY DeliveredIs, PTL
<1>2. ASSUME NEW r \in Requests
      PROVE  /\ Len(generated[r]) \in Nat /\ Len(generated'[r]) \in Nat /\ Stop(r) \in Nat
             /\ Len(generated'[r]) <= Stop(r) /\ generated'[r] = Ramp(Len(generated'[r]))
             /\ generated[r] = Ramp(Len(generated[r]))
             /\ Len(generated[r]) <= Len(generated'[r])
             /\ r \notin ToSet(running) => Len(generated'[r]) = Len(generated[r])
  <2>1. Len(generated'[r]) \in Nat
    BY LenProperties DEF Inv, Typed
  <2>2. Len(generated'[r]) <= Stop(r)' /\ generated'[r] = Ramp(Len(generated'[r]))
    BY DEF Inv, Promised
  <2>3. Stop(r)' = Stop(r)
    BY DEF Stop
  <2> QED
    BY <2>1, <2>2, <2>3, Numbers DEF Records
<1>3. S \in SUBSET (arrived \ gone)
  <2>1. ASSUME NEW r \in S PROVE r \in arrived \ gone
    <3>1. r \in ToSet(running)
      BY <1>2
    <3> QED
      BY <3>1 DEF Inv, Queued
  <2> QED
    BY <2>1
<1>4. ASSUME NEW r \in S
      PROVE  /\ Len(generated[r]) < more[r] /\ more[r] <= Stop(r) /\ Len(generated[r]) < Stop(r)
             /\ more[r] \in 1..Stop(r)
  BY <1>2
<1>5. generated' = [r \in Requests |->
                      IF r \in S THEN SubSeq(Ramp(Stop(r)), 1, more[r]) ELSE generated[r]]
  <2>1. ASSUME NEW r \in Requests
        PROVE  generated'[r] = IF r \in S THEN SubSeq(Ramp(Stop(r)), 1, more[r]) ELSE generated[r]
    <3>1. CASE r \in S
      <4>1. more[r] = Len(generated'[r])
        BY <3>1
      <4>2. SubSeq(Ramp(Stop(r)), 1, Len(generated'[r])) = Ramp(Len(generated'[r]))
        BY <1>2, RampSub
      <4> QED
        BY <1>2, <3>1, <4>1, <4>2
    <3>2. CASE r \notin S
      BY <1>2, <3>2
    <3> QED
      BY <3>1, <3>2
  <2>2. generated' = [r \in Requests |-> generated'[r]]
    BY DEF Inv, Typed
  <2> HIDE DEF S, more
  <2> QED
    BY <2>1, <2>2
<1>6. more \in [S -> UNION {1..Stop(q) : q \in S}]
  BY <1>4
<1>7. S = {} => generated' = generated
  <2>1. S = {} => \A r \in Requests : generated'[r] = generated[r]
    BY <1>2
  <2>2. generated' = [r \in Requests |-> generated'[r]] /\ generated = [r \in Requests |-> generated[r]]
    BY DEF Inv, Typed
  <2> HIDE DEF S
  <2> QED
    BY <2>1, <2>2
<1> HIDE DEF S, more
<1>8. \A r \in Requests : Greedy!Answer(r) = Ramp(Stop(r))
  BY DEF Greedy!Answer, Ramp, Stop
<1>9. S \subseteq Requests
  BY DEF S
<1>10. Greedy!Iterate(S)
  <2>1. \A q \in S : Len(Delivered[q]) < Greedy!Stop(shape[q])
    BY <1>1, <1>4 DEF Stop
  <2>2. more \in [S -> UNION {1..Greedy!Stop(shape[q]) : q \in S}]
    BY <1>6 DEF Stop
  <2>3. \A q \in S : Len(Delivered[q]) < more[q] /\ more[q] <= Greedy!Stop(shape[q])
    BY <1>1, <1>4 DEF Stop
  <2>4. Delivered' = [q \in Requests |->
          IF q \in S THEN SubSeq(Greedy!Answer(q), 1, more[q]) ELSE Delivered[q]]
    BY <1>1, <1>5, <1>8
  <2> QED
    BY <1>3, <2>1, <2>2, <2>3, <2>4 DEF Greedy!Iterate
<1> QED
  BY <1>1, <1>3, <1>7, <1>10

LEMMA Recorders ==
  ASSUME Inv, Inv', Records, UNCHANGED <<shape, arrived, gone>>
  PROVE  [Greedy!Next]_(Greedy!vars)
<1>1. PICK S \in SUBSET (arrived \ gone) :
        Greedy!Iterate(S) /\ (S = {} => Delivered' = Delivered)
  BY Iterates
<1>2. CASE S = {}
  BY <1>1, <1>2 DEF Greedy!vars
<1>3. CASE S # {}
  <2>1. PICK r \in S : TRUE
    BY <1>3
  <2>2. r \in Requests
    BY DEF Inv, Typed
  <2>3. Greedy!Produce(r)
    BY <1>1 DEF Greedy!Produce
  <2> QED
    BY <2>2, <2>3 DEF Greedy!Next
<1> QED
  BY <1>2, <1>3

(* A step that records nothing and admits nobody new is none of the reference loop's. *)
LEMMA Silent ==
  ASSUME Inv, Inv', UNCHANGED <<shape, arrived, gone, generated>>
  PROVE  [Greedy!Next]_(Greedy!vars)
<1>1. Delivered = generated /\ (Delivered = generated)'
  BY DeliveredIs, PTL
<1> QED
  BY <1>1 DEF Greedy!vars

LEMMA StepsRefine ==
  ASSUME Inv, [Next]_vars
  PROVE  [Greedy!Next]_(Greedy!vars)
<1>1. Inv'
  BY NextKeeps
<1>2. Delivered = generated /\ (Delivered = generated)'
  BY <1>1, DeliveredIs, PTL
<1>3. CASE UNCHANGED vars
  BY <1>1, <1>3, Silent DEF vars, ids
<1>4. CASE Begin
  BY <1>1, <1>4, Silent DEF Begin, ids
<1>5. CASE Open
  BY <1>1, <1>5, Silent DEF Open, ids
<1>6. CASE Return
  BY <1>1, <1>6, Silent DEF Return, ids
<1>7. CASE Prefill
  <2>1. Records /\ UNCHANGED <<shape, arrived, gone>>
    BY <1>7, PrefillKeeps DEF Prefill, ids
  <2> QED
    BY <1>1, <2>1, Recorders
<1>8. CASE DecodeNormal
  <2>1. Records /\ UNCHANGED <<shape, arrived, gone>>
    BY <1>8, DecodeNormalKeeps DEF DecodeNormal, Die, ids
  <2> QED
    BY <1>1, <2>1, Recorders
<1>9. CASE Recompose
  <2>1. Records /\ UNCHANGED <<shape, arrived, gone>>
    BY <1>9, RecomposeKeeps DEF Recompose, Die, ids
  <2> QED
    BY <1>1, <2>1, Recorders
<1>10. CASE Step
  <2>1. Records /\ UNCHANGED <<shape, arrived, gone>>
    BY <1>10, StepKeeps DEF Step, Die, ids
  <2> QED
    BY <1>1, <2>1, Recorders
<1>11. ASSUME NEW r \in Requests, Add(r) PROVE Greedy!Next
  <2>1. r \notin arrived /\ arrived' = arrived \cup {r}
        /\ shape' = shape /\ gone' = gone /\ generated' = generated
    BY <1>11 DEF Add
  <2>2. Greedy!Ask(r)
    BY <1>2, <2>1 DEF Greedy!Ask
  <2> QED
    BY <2>2 DEF Greedy!Next
<1>12. ASSUME NEW r \in Requests, BecomePrivate(r) PROVE [Greedy!Next]_(Greedy!vars)
  BY <1>1, <1>12, Silent DEF BecomePrivate, ids
<1>13. ASSUME NEW r \in Requests, Abort(r) PROVE [Greedy!Next]_(Greedy!vars)
  <2>1. Records
    BY <1>13, AbortKeeps
  <2>2. /\ shape' = shape /\ arrived' = arrived
        /\ gone' = gone \/ gone' = gone \cup {r}
        /\ r \in (ToSet(waiting) \cup ToSet(running))
    BY <1>13 DEF Abort, Die, ids
  <2>3. CASE gone' = gone
    BY <1>1, <2>1, <2>2, <2>3, Recorders
  <2>4. CASE gone' = gone \cup {r}
    <3>1. PICK S \in SUBSET (arrived \ gone) : Greedy!Iterate(S)
      BY <1>1, <2>1, <2>2, Iterates
    <3>2. r \in arrived \ gone
      BY <2>2 DEF Inv, Queued
    <3>3. Greedy!GiveUp(r)
      BY <2>2, <2>4, <3>1, <3>2 DEF Greedy!GiveUp
    <3> QED
      BY <3>3 DEF Greedy!Next
  <2> QED
    BY <2>2, <2>3, <2>4
<1> QED
  BY <1>3, <1>4, <1>5, <1>6, <1>7, <1>8, <1>9, <1>10, <1>11, <1>12, <1>13 DEF Next, Pass

LEMMA StartRefines ==
  ASSUME Init
  PROVE  Greedy!Init
<1>1. shape \in [Requests -> [prompt : Nat \ {0}, new : Nat \ {0}, eos : Nat]]
  BY WindowAssumption DEF Init
<1>2. Delivered = [r \in Requests |-> <<>>]
  <2>1. Inv /\ generated = [r \in Requests |-> <<>>]
    BY InitHolds DEF Init, Nothing
  <2> QED
    BY <2>1, DeliveredIs
<1> QED
  BY <1>1, <1>2 DEF Init, Greedy!Init

(* "Waste, not a correctness change": whatever windows, drains, aborts and *)
(* compositions a batch goes through, what is on its way to the clients    *)
(* starts empty and only ever changes by iterations of greedy_decode's     *)
(* loop for requests accepted and not given up.                            *)
THEOREM DeferralRefinesGreedyDecode ==
  Spec => Greedy!Init /\ [][Greedy!Next]_(Greedy!vars)
<1>1. Init => Greedy!Init
  BY StartRefines
<1>2. Inv /\ [Next]_vars => [Greedy!Next]_(Greedy!vars)
  BY StepsRefine
<1> QED
  BY <1>1, <1>2, WindowInvariant, PTL DEF Spec
=============================================================================
