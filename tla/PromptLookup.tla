---------------------------- MODULE PromptLookup ----------------------------
(***************************************************************************)
(* The draft of prompt-lookup speculation: the tokens that followed the    *)
(* latest earlier occurrence of the longest suffix that occurs earlier.    *)
(***************************************************************************)
EXTENDS Integers, Sequences, SequencesExt

Lesser(a, b) == IF a < b THEN a ELSE b

\* The suffix of n tokens occurs at start (from 0).
Recurs(context, n, start) ==
  SubSeq(context, start + 1, start + n) = SubSeq(context, Len(context) - n + 1, Len(context))

Continuation(context, end, limit) ==
  SubSeq(context, end + 1, Lesser(Len(context), end + limit))

\* Mutant: the search goes forward, to the earliest occurrence.
ScanForward(context, n, limit) ==
  LET from[start \in 0..Len(context) - n] ==
        IF start = Len(context) - n THEN <<>>
        ELSE IF Recurs(context, n, start) THEN Continuation(context, start + n, limit)
        ELSE from[start + 1]
  IN from[0]

\* The inner loop: starts from the latest before the suffix itself down to 0.
Scan(context, n, limit) ==
  LET back[start \in -1..Len(context)] ==
        IF start = -1 THEN <<>>
        ELSE IF Recurs(context, n, start) THEN Continuation(context, start + n, limit)
        ELSE back[start - 1]
  IN back[Len(context) - n - 1]

\* The outer loop: suffix sizes from the largest down to 1.
Draft(context, asked, maxDraft, maxNgram) ==
  LET limit == Lesser(asked, maxDraft)
      shrink[n \in 0..Len(context)] ==
        IF n = 0 THEN <<>>
        ELSE LET draft == Scan(context, n, limit) IN IF draft # <<>> THEN draft ELSE shrink[n - 1]
  IN IF limit < 1 \/ Len(context) < 2 THEN <<>>
     ELSE shrink[Lesser(maxNgram, Len(context) - 1)]

\* What the draft should be, said without the loops.
Occurrences(context, maxNgram) ==
  {<<n, start>> \in (1..Lesser(maxNgram, Len(context) - 1)) \X (0..Len(context) - 2) :
     start + n < Len(context) /\ Recurs(context, n, start)}
Best(found) == CHOOSE x \in found : \A y \in found : y[1] < x[1] \/ (y[1] = x[1] /\ y[2] <= x[2])
LongestLatest(context, limit, maxNgram) ==
  LET found == Occurrences(context, maxNgram)
  IN IF found = {} \/ limit < 1 THEN <<>>
     ELSE Continuation(context, Best(found)[1] + Best(found)[2], limit)
=============================================================================
