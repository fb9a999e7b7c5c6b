------------------------------ MODULE Sampler ------------------------------
(***************************************************************************)
(* How a request's next token is drawn: penalties, temperature, top-k,     *)
(* top-p and one draw of its own generator, for a row alone (sample_row)   *)
(* or for the rows of a batch at once (sample_rows), in prefill, decode    *)
(* steps and deferred windows, and across a preemption.                    *)
(*                                                                         *)
(* Scores are integers and the softmax weighs a score s by 2^s, so that    *)
(* probabilities are ratios of integers; a masked score is Low.  The       *)
(* temperature divides by 1/heat.  Ties are sorted in token order.  The    *)
(* logits of a request's position do not depend on its batch.              *)
(***************************************************************************)
EXTENDS PromptLookup, FiniteSets, FiniteSetsExt

CONSTANTS
  Requests,
  Surfaces,   \* sampling parameters: [greedy, heat, topK, topP, presence, frequency]
  Prompt,     \* request -> prompt_ids
  Logits,     \* request -> position -> score of each token
  Stream,     \* request -> draw -> a number below Grain, its generator's output
  Grain,      \* a draw n picks the point n / Grain of the cumulative mass
  Eos,        \* the stop token
  MaxTokens,  \* max_new_tokens
  MaxDraft,   \* SpeculativeDecodingConfig.max_draft_tokens
  MaxNgram,   \* SpeculativeDecodingConfig.max_ngram_size
  MaxWindow,  \* steps a window may defer
  MaxPreempts \* bound: preemptions

Vocab == 0..2
Low == -100
Shift == 10   \* keeps the powers integers

ASSUME SamplerAssumption ==
  /\ \A r \in Requests : \A n \in DOMAIN Stream[r] : Stream[r][n] \in 0..Grain - 1
  /\ \A s \in Surfaces : s.heat >= 1 /\ s.topP \in 1..100 /\ s.topK >= 0

VARIABLES
  params,     \* SamplingParams of each request
  generated,  \* recorded tokens
  drawn,      \* draws each request's generator has made
  ready,      \* prefilled: the request's KV is in place
  preemption, \* the engine may preempt; then it opens no window
  window,     \* members of the open or staged window, <<>> when none
  staged,     \* steps of a closed window whose copy to the host is in flight
  pending,    \* steps of the open window: a token per member
  preempts

deferred == <<window, staged, pending>>
vars == <<params, generated, drawn, ready, preemption, deferred, preempts>>

Weight(score) == IF score = Low THEN 0 ELSE 2^(score + Shift)
Total(weights) == FoldFunction(LAMBDA x, y : x + y, 0, weights)

\* Best scores first, the lower token first among equals.
Ranked(scores) ==
  SetToSortSeq(Vocab, LAMBDA a, b : scores[a] > scores[b] \/ (scores[a] = scores[b] /\ a < b))

ArgMax(scores) == Ranked(scores)[1]

Penalised(p) == p.presence # 0 \/ p.frequency # 0

Penalties(scores, p, history) ==
  [t \in Vocab |->
     LET count == Cardinality({i \in DOMAIN history : history[i] = t})
     IN scores[t] - p.frequency * count - IF count > 0 THEN p.presence ELSE 0]

Heated(scores, heat) == [t \in Vocab |-> scores[t] * heat]

-----------------------------------------------------------------------------
\* One row alone.

TopK(scores, k) ==
  IF k <= 0 \/ k >= Cardinality(Vocab) THEN scores
  ELSE LET kth == scores[Ranked(scores)[k]]
       IN [t \in Vocab |-> IF scores[t] < kth THEN Low ELSE scores[t]]

\* The mass of the tokens ranked before position i.
Before(weights, i) ==
  LET order == Ranked(weights) IN Total([j \in 1..i - 1 |-> weights[order[j]]])

TopP(weights, p) ==
  IF p >= 100 THEN weights
  ELSE LET order == Ranked(weights)
           kept == {order[i] : i \in {i \in 1..Len(order) : 100 * Before(weights, i) < p * Total(weights)}}
       IN [t \in Vocab |-> IF t \in kept THEN weights[t] ELSE 0]

\* The token at a point of the cumulative mass, in token order.
Multinomial(weights, point) ==
  Min({t \in Vocab : point * Total(weights) < Grain * Total([u \in 0..t |-> weights[u]])})

Softmax(scores) == [t \in Vocab |-> Weight(scores[t])]

Probabilities(scores, p, history) ==
  TopP(Softmax(TopK(Heated(Penalties(scores, p, history), p.heat), p.topK)), p.topP)

SampleRow(scores, p, history, point) ==
  IF p.greedy THEN ArgMax(scores) ELSE Multinomial(Probabilities(scores, p, history), point)

-----------------------------------------------------------------------------
\* The rows of a batch at once; each stage works on the sequence of sampled rows.

Enabled(k) == 0 < k /\ k < Cardinality(Vocab)

TopKRows(rows, ks) ==
  IF \A i \in DOMAIN ks : ~Enabled(ks[i]) THEN rows
  ELSE [i \in DOMAIN rows |->
          LET position == IF Enabled(ks[i]) THEN ks[i] ELSE Cardinality(Vocab)
              kth == rows[i][Ranked(rows[i])[position]]
              threshold == IF Enabled(ks[i]) THEN kth ELSE Low
          IN [t \in Vocab |-> IF rows[i][t] < threshold THEN Low ELSE rows[i][t]]]

\* Mutant: every row is cut at the smallest mass any row asks for.
TopPShared(rows, ps) ==
  [i \in DOMAIN rows |-> TopP(rows[i], Min(Range(ps)))]

TopPRows(rows, ps) ==
  IF \A i \in DOMAIN ps : ps[i] >= 100 THEN rows
  ELSE [i \in DOMAIN rows |->
          LET order == Ranked(rows[i])
              drop == {order[j] : j \in {j \in 1..Len(order) :
                                           100 * Before(rows[i], j) >= ps[i] * Total(rows[i])}}
          IN IF ps[i] < 100 THEN [t \in Vocab |-> IF t \in drop THEN 0 ELSE rows[i][t]] ELSE rows[i]]

Sampled(batch) == SelectSeq(batch, LAMBDA r : ~params[r].greedy)

Deferred(r) == IF r \in Range(window) THEN Len(staged) + Len(pending) ELSE 0
Scores(r) == Logits[r][Len(generated[r]) + Deferred(r)]

\* One draw per sampled row, from the row's own generator at its own position.
SampleRows(batch) ==
  LET rows == Sampled(batch)
      penalised == [i \in DOMAIN rows |->
                      IF Penalised(params[rows[i]])
                      THEN Penalties(Scores(rows[i]), params[rows[i]], generated[rows[i]])
                      ELSE Scores(rows[i])]
      heated == [i \in DOMAIN rows |-> Heated(penalised[i], params[rows[i]].heat)]
      cut == TopKRows(heated, [i \in DOMAIN rows |-> params[rows[i]].topK])
      probs == TopPRows([i \in DOMAIN rows |-> Softmax(cut[i])],
                        [i \in DOMAIN rows |-> params[rows[i]].topP])
  IN [r \in Range(batch) |->
        IF params[r].greedy THEN ArgMax(Scores(r))
        ELSE Multinomial(probs[CHOOSE i \in DOMAIN rows : rows[i] = r], Stream[r][drawn[r]])]

Drawn(batch) == [r \in Requests |-> IF r \in Range(Sampled(batch)) THEN drawn[r] + 1 ELSE drawn[r]]

-----------------------------------------------------------------------------
Init ==
  /\ params \in [Requests -> Surfaces]
  /\ generated = [r \in Requests |-> <<>>] /\ drawn = [r \in Requests |-> 0]
  /\ ready = {} /\ preemption \in BOOLEAN /\ preempts = 0
  /\ window = <<>> /\ staged = <<>> /\ pending = <<>>

Finished(tokens) == Len(tokens) >= MaxTokens \/ (tokens # <<>> /\ Last(tokens) = Eos)
Live(r) == ~Finished(generated[r])
Batches(S) == {SetToSeq(B) : B \in SUBSET S \ {{}}}

\* A prefill samples its request's first token: alone, or packed with others.
PrefillOne(r) ==
  /\ generated[r] = <<>> /\ r \notin ready
  /\ generated' = [generated EXCEPT ![r] =
                     <<SampleRow(Logits[r][0], params[r], <<>>, Stream[r][drawn[r]])>>]
  /\ drawn' = Drawn(<<r>>)
  /\ ready' = ready \cup {r}
  /\ UNCHANGED <<params, preemption, deferred, preempts>>

Record(batch, tokens) ==
  [r \in Requests |-> IF r \in Range(batch) THEN Append(generated[r], tokens[r]) ELSE generated[r]]

PrefillMany(batch) ==
  /\ Len(batch) > 1
  /\ \A r \in Range(batch) : generated[r] = <<>> /\ r \notin ready
  /\ generated' = Record(batch, SampleRows(batch))
  /\ drawn' = Drawn(batch)
  /\ ready' = ready \cup Range(batch)
  /\ UNCHANGED <<params, preemption, deferred, preempts>>

DecodeStep(batch) ==
  /\ window = <<>>
  /\ \A r \in Range(batch) : r \in ready /\ Live(r)
  /\ generated' = Record(batch, SampleRows(batch))
  /\ drawn' = Drawn(batch)
  /\ UNCHANGED <<params, ready, preemption, deferred, preempts>>

\* A row with penalties reads its recorded history every step and stays out of windows.
WindowEligible(r) == params[r].greedy \/ ~Penalised(params[r])

\* A window follows a staged one only for the same members, none of which could pass its cap.
WindowStep(batch) ==
  /\ ~preemption /\ window \in {<<>>, batch}
  /\ Len(pending) < MaxWindow
  /\ \A r \in Range(batch) : /\ r \in ready /\ Live(r) /\ WindowEligible(r)
                             /\ Len(generated[r]) + Deferred(r) < MaxTokens
  /\ window' = batch
  /\ pending' = Append(pending, SampleRows(batch))
  /\ drawn' = Drawn(batch)
  /\ UNCHANGED <<params, generated, ready, preemption, staged, preempts>>

\* Deferred tokens are recorded in order; what follows a stop token is thrown away.
Consumed(steps) ==
  [r \in Requests |->
     IF r \notin Range(window) THEN generated[r]
     ELSE LET tokens == [n \in DOMAIN steps |-> steps[n][r]]
              stops == {n \in DOMAIN tokens : tokens[n] = Eos}
          IN generated[r] \o IF stops = {} THEN tokens ELSE SubSeq(tokens, 1, Min(stops))]

\* Closing a window stages it and records the one staged before.
FlushWindow ==
  /\ pending # <<>>
  /\ generated' = Consumed(staged)
  /\ staged' = pending /\ pending' = <<>>
  /\ UNCHANGED <<params, drawn, ready, preemption, window, preempts>>

DrainWindow ==
  /\ window # <<>>
  /\ generated' = Consumed(staged \o pending)
  /\ window' = <<>> /\ staged' = <<>> /\ pending' = <<>>
  /\ UNCHANGED <<params, drawn, ready, preemption, preempts>>

\* A victim keeps its tokens and its generator; the rebuild samples nothing.
Preempt(r) ==
  /\ preemption /\ r \in ready /\ Live(r) /\ preempts < MaxPreempts
  /\ ready' = ready \ {r} /\ preempts' = preempts + 1
  /\ UNCHANGED <<params, generated, drawn, preemption, deferred>>

\* Mutant: the resumed request samples the rebuilt prompt's last row again.
Redrawn(r) == Drawn(<<r>>)
Resumed(r) == drawn

Resume(r) ==
  /\ r \notin ready /\ generated[r] # <<>> /\ Live(r)
  /\ ready' = ready \cup {r} /\ drawn' = Resumed(r)
  /\ UNCHANGED <<params, generated, preemption, deferred, preempts>>

Next ==
  \/ \E r \in Requests : PrefillOne(r) \/ Preempt(r) \/ Resume(r)
  \/ \E batch \in Batches(Requests) : PrefillMany(batch) \/ DecodeStep(batch) \/ WindowStep(batch)
  \/ FlushWindow \/ DrainWindow

Spec == Init /\ [][Next]_vars

-----------------------------------------------------------------------------
\* What the request would record decoded alone, one step at a time.
Alone(r) ==
  LET token[n \in 0..MaxTokens] ==
        IF n = 0 THEN <<>>
        ELSE LET before == token[n - 1]
             IN Append(before, SampleRow(Logits[r][n - 1], params[r], before, Stream[r][n - 1]))
  IN token[MaxTokens]

\* Batchmates, deferred steps, throw-away draws and a recompute never change a
\* request's draws: it records a prefix of what it records alone (sampler.py:120).
DrawsAlone == \A r \in Requests : IsPrefix(generated[r], Alone(r))

\* The kept tokens are the smallest nucleus of the top k: each outweighs every
\* dropped one, they reach top_p, and without the lightest they do not (sampler.py:244).
NucleusMinimal ==
  \A r \in Requests : ~params[r].greedy =>
    \A n \in 0..MaxTokens - 1 :
      LET p == params[r]
          all == Softmax(TopK(Heated(Logits[r][n], p.heat), p.topK))
          cut == TopPRows(<<all, all>>, <<p.topP, 50>>)[1]
          kept == {t \in Vocab : cut[t] > 0}
          lightest == CHOOSE t \in kept : \A u \in kept : cut[t] <= cut[u]
      IN /\ \A t \in kept, u \in Vocab \ kept : all[t] >= all[u]
         /\ 100 * Total(cut) >= p.topP * Total(all)
         /\ 100 * (Total(cut) - cut[lightest]) < p.topP * Total(all)

\* The two loops find the longest earlier suffix and its latest occurrence (speculative.py:40).
DraftExact ==
  \A r \in Requests :
    LET context == Prompt[r] \o generated[r]
        asked == MaxTokens - Len(generated[r]) - 1
    IN Draft(context, asked, MaxDraft, MaxNgram) = LongestLatest(context, Lesser(asked, MaxDraft), MaxNgram)
=============================================================================
