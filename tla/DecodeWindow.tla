---------------------------- MODULE DecodeWindow ----------------------------
(***************************************************************************)
(* The deferred decode window.  While one batch of requests stays the      *)
(* same, its sampled tokens stay on the device; a full window is staged,   *)
(* and recorded only when the next one is full, one window behind.  A      *)
(* request that met its end-of-sequence token meanwhile decodes throwaway  *)
(* tokens.  Anything that needs current state drains: a change of batch, a *)
(* request that may not be deferred, an abort.                             *)
(*                                                                         *)
(* The n-th token of a request is its index n; a forward fed with the      *)
(* wrong token, or at the wrong position, gives the token Wrong.           *)
(***************************************************************************)
EXTENDS Integers, Sequences, FiniteSets, Lists, SequencesExt, FiniteSetsExt

CONSTANTS
  Requests,     \* Request objects, each with a request_id of its own
  Shapes,       \* records [prompt, new, eos]: prompt length, cap, index of the first EOS (0: none)
  WindowSize,   \* decode_window_size
  NumBlocks,    \* blocks of the pool
  BlockSize,    \* positions per block
  PrefixCache,  \* TRUE: finished requests donate their blocks
  Aborts        \* TRUE: clients may disconnect

ASSUME WindowAssumption ==
  /\ IsFiniteSet(Requests)
  /\ WindowSize \in Nat /\ WindowSize > 1
  /\ NumBlocks \in Nat \ {0} /\ BlockSize \in Nat \ {0}
  /\ PrefixCache \in BOOLEAN /\ Aborts \in BOOLEAN
  /\ Shapes \subseteq [prompt : Nat \ {0}, new : Nat \ {0}, eos : Nat]

VARIABLES
  shape,       \* what each request asks for, and where the model ends it
  deferrable,  \* no penalty and a private table: the request may be in a window
  arrived,     \* requests added
  gone,        \* requests aborted
  waiting,     \* Scheduler.waiting
  running,     \* Scheduler.running
  generated,   \* Request.generated: the recorded tokens
  length,      \* BlockTable.length, 0 without a table
  window,      \* _decode_window: its requests, budget and pending rows
  flush,       \* _pending_flush: its requests and rows
  stash,       \* _stashed_flush: tokens an abort's drain recorded
  result,      \* StepResult of the pass that runs
  sent,        \* tokens step() has returned so far
  phase,       \* where the pass stands
  prefilling,  \* requests the pass prefills
  decoding     \* requests the pass decodes

queues  == <<waiting, running>>
ids     == <<shape, arrived, gone>>
vars    == <<ids, deferrable, queues, generated, length, window, flush, stash, result, sent,
             phase, prefilling, decoding>>

Wrong == 0

Nothing == [r \in Requests |-> <<>>]
Closed  == [requests |-> <<>>, budget |-> 0, rows |-> <<>>]
Unstaged == [requests |-> <<>>, rows |-> <<>>]

Positions(n)    == (n + BlockSize - 1) \div BlockSize
MaxBlocksFor(r) == Positions(shape[r].prompt + shape[r].new - 1)
Committed       == MapThenSumSet(MaxBlocksFor, ToSet(running))

Done(r, tokens) ==
  tokens # <<>> /\ (Last(tokens) = shape[r].eos \/ Len(tokens) >= shape[r].new)

Remaining(r) == shape[r].new - Len(generated[r])

\* The model: what it samples for r after the token t, at the end of r's table.
Sampled(r, t) ==
  IF t # Wrong /\ length[r] = shape[r].prompt + t - 1 THEN t + 1 ELSE Wrong

-----------------------------------------------------------------------------
(* Recording rows of sampled tokens, and releasing the finishers *)

\* What r, a member of the batch, sampled in the rows: a row has one token per member.
Column(batch, rows, r) ==
  [n \in DOMAIN rows |-> rows[n][CHOOSE i \in DOMAIN batch : batch[i] = r]]

\* Tokens are recorded one by one until the request is finished.
Recorded(r, tokens, column) ==
  LET all  == tokens \o column
      ends == {n \in Len(tokens)..Len(all) : Done(r, SubSeq(all, 1, n))}
  IN  IF ends = {} THEN all ELSE SubSeq(all, 1, Min(ends))

\* _consume_window_flush of a batch's rows, on top of the tokens in gen.
Consumed(gen, batch, rows) ==
  [r \in Requests |->
     IF r \in ToSet(batch) THEN Recorded(r, gen[r], Column(batch, rows, r)) ELSE gen[r]]

\* _drain_decode_window: the staged flush, then what the open window holds.
Drained(gen) ==
  Consumed(Consumed(gen, flush.requests, flush.rows), window.requests, window.rows)

Over(gen) == {r \in ToSet(running) : Done(r, gen[r])}

(* _donate_to_prefix_cache slices the tokens to the whole blocks of the    *)
(* table; donate() raises when there are fewer tokens than that.           *)
DonationRaises(gen, len) ==
  PrefixCache /\ \E r \in Over(gen) :
    (len[r] \div BlockSize) * BlockSize > shape[r].prompt + Len(gen[r])

New(gen) == [r \in Requests |-> SubSeq(gen[r], Len(generated[r]) + 1, Len(gen[r]))]

Plus(res, gen) == [r \in Requests |-> res[r] \o New(gen)[r]]

\* Record gen, tables at len; then free and release the finishers.
Settle(gen, len) ==
  /\ generated' = gen
  /\ running' = Without(running, Over(gen))
  /\ length' = [r \in Requests |-> IF r \in Over(gen) THEN 0 ELSE len[r]]

\* The error leaves step() or abort(): the serving loop ends.
Die ==
  /\ phase' = "dead"
  /\ UNCHANGED <<ids, deferrable, queues, generated, length, window, flush, stash, result,
                 sent, prefilling, decoding>>

-----------------------------------------------------------------------------
Init ==
  /\ shape \in [Requests -> Shapes]
  /\ deferrable \in [Requests -> BOOLEAN]
  /\ arrived = {} /\ gone = {}
  /\ waiting = <<>> /\ running = <<>>
  /\ generated = Nothing /\ length = [r \in Requests |-> 0]
  /\ window = Closed /\ flush = Unstaged
  /\ stash = Nothing /\ result = Nothing /\ sent = Nothing
  /\ phase = "between" /\ prefilling = <<>> /\ decoding = <<>>

Add(r) ==
  /\ phase = "between" /\ r \notin arrived
  /\ MaxBlocksFor(r) <= NumBlocks
  /\ arrived' = arrived \cup {r}
  /\ waiting' = Append(waiting, r)
  /\ UNCHANGED <<shape, gone, deferrable, running, generated, length, window, flush, stash,
                 result, sent, phase, prefilling, decoding>>

\* The siblings that shared r's prompt blocks have finished.
BecomePrivate(r) ==
  /\ phase = "between" /\ ~deferrable[r] /\ r \in ToSet(running)
  /\ deferrable' = [deferrable EXCEPT ![r] = TRUE]
  /\ UNCHANGED <<ids, queues, generated, length, window, flush, stash, result, sent,
                 phase, prefilling, decoding>>

\* What an abort's drain records is kept for the next pass, behind what is kept already.
Stashed(gen) == Plus(stash, gen)

Abort(r) ==
  LET gen  == Drained(generated)
      left == Over(gen) \cup {r}
  IN
  /\ Aborts /\ phase = "between" /\ r \in (ToSet(waiting) \cup ToSet(running))
  /\ IF DonationRaises(gen, length) THEN Die
     ELSE /\ generated' = gen /\ stash' = Stashed(gen)
          /\ window' = Closed /\ flush' = Unstaged
          /\ waiting' = Without(waiting, {r})
          /\ running' = Without(running, left)
          /\ length' = [q \in Requests |-> IF q \in left THEN 0 ELSE length[q]]
          /\ gone' = IF r \in Over(gen) THEN gone ELSE gone \cup {r}
          /\ UNCHANGED <<shape, arrived, deferrable, result, sent, phase, prefilling, decoding>>

-----------------------------------------------------------------------------
(* The pass *)

\* How many waiting requests the block budget admits: first come, first served.
Admitted ==
  Max({n \in 0..Len(waiting) :
         Committed + MapThenSumSet(MaxBlocksFor, ToSet(SubSeq(waiting, 1, n))) <= NumBlocks})

Begin ==
  /\ phase = "between"
  /\ waiting # <<>> \/ running # <<>>
  /\ running' = running \o SubSeq(waiting, 1, Admitted)
  /\ waiting' = SubSeq(waiting, Admitted + 1, Len(waiting))
  /\ result' = stash /\ stash' = Nothing
  /\ prefilling' = Without(running', {r \in Requests : length[r] > 0})
  /\ decoding' = Without(running', {r \in Requests : length[r] = 0})
  /\ phase' = "prefill"
  /\ UNCHANGED <<ids, deferrable, generated, length, window, flush, sent>>

\* Whole prompts are prefilled, and each request samples its first token.
Prefill ==
  LET first(r) == r \in ToSet(prefilling)
  IN
  /\ phase = "prefill"
  /\ LET gen == [r \in Requests |-> IF first(r) THEN <<1>> ELSE generated[r]]
     IN  /\ Settle(gen, [r \in Requests |-> IF first(r) THEN shape[r].prompt ELSE length[r]])
         /\ result' = Plus(result, gen)
  /\ phase' = IF decoding = <<>> THEN "return" ELSE "decode"
  /\ prefilling' = <<>>
  /\ UNCHANGED <<ids, deferrable, waiting, window, flush, stash, sent, decoding>>

Eligible == \A r \in ToSet(decoding) : deferrable[r]

\* Requests of the batch that the drain did not finish.
Unfinished(gen) == Without(decoding, {r \in Requests : Done(r, gen[r])})

(* A request that may not be deferred is in the batch: drain, then decode  *)
(* one token for each survivor and record it at once.                      *)
DecodeNormal ==
  LET drained == Drained(generated)
      batch   == ToSet(Unfinished(drained))
      gen     == [r \in Requests |-> IF r \in batch
                    THEN Append(drained[r], Sampled(r, Last(drained[r]))) ELSE drained[r]]
  IN
  /\ phase = "decode" /\ ~Eligible
  /\ IF DonationRaises(drained, length) THEN Die
     ELSE /\ Settle(gen, [r \in Requests |-> length[r] + IF r \in batch THEN 1 ELSE 0])
          /\ result' = Plus(result, gen)
          /\ window' = Closed /\ flush' = Unstaged
          /\ decoding' = <<>> /\ phase' = "return"
          /\ UNCHANGED <<ids, deferrable, waiting, stash, sent, prefilling>>

\* The next window may run behind the staged one.
Pipelined ==
  /\ flush.requests = decoding
  /\ \A r \in ToSet(decoding) : Remaining(r) - Len(flush.rows) >= 1

(* The batch is not the window's, or the staged flush cannot be followed:  *)
(* drain, and go on with the requests that are left.                       *)
Recompose ==
  LET gen == Drained(generated)
  IN
  /\ phase = "decode" /\ Eligible
  /\ \/ window # Closed /\ window.requests # decoding
     \/ window = Closed /\ flush # Unstaged /\ ~Pipelined
  /\ IF DonationRaises(gen, length) THEN Die
     ELSE /\ Settle(gen, length)
          /\ result' = Plus(result, gen)
          /\ window' = Closed /\ flush' = Unstaged
          /\ decoding' = Unfinished(gen)
          /\ phase' = IF decoding' = <<>> THEN "return" ELSE "decode"
          /\ UNCHANGED <<ids, deferrable, waiting, stash, sent, prefilling>>

\* mutant: the staged steps are not counted
BudgetIgnoringStaged ==
  Min({WindowSize} \cup {Remaining(r) : r \in ToSet(decoding)})

Budget ==
  Min({WindowSize} \cup {Remaining(r) - Len(flush.rows) : r \in ToSet(decoding)})

Open ==
  /\ phase = "decode" /\ Eligible
  /\ window = Closed /\ (flush # Unstaged => Pipelined)
  /\ window' = [requests |-> decoding, budget |-> Budget, rows |-> <<>>]
  /\ UNCHANGED <<ids, deferrable, queues, generated, length, flush, stash, result, sent,
                 phase, prefilling, decoding>>

\* mutant: a new window starts from the last recorded tokens
FeedRecorded ==
  IF window.rows # <<>> THEN Last(window.rows)
  ELSE [n \in DOMAIN decoding |-> Last(generated[decoding[n]])]

\* The tokens fed to the batch: the last ones sampled, wherever they are kept.
Feed ==
  IF window.rows # <<>> THEN Last(window.rows)
  ELSE IF flush # Unstaged /\ flush.requests = window.requests THEN Last(flush.rows)
  ELSE [n \in DOMAIN decoding |-> Last(generated[decoding[n]])]

(* One deferred step.  A full window is staged, and the one staged before  *)
(* is consumed.  With nobody waiting the pass goes on to the window's next *)
(* step, else it returns.                                                  *)
Step ==
  LET members == ToSet(window.requests)
      row     == [n \in DOMAIN window.requests |-> Sampled(window.requests[n], Feed[n])]
      rows    == Append(window.rows, row)
      full    == Len(rows) >= window.budget
      len     == [r \in Requests |-> length[r] + IF r \in members THEN 1 ELSE 0]
      gen     == IF full THEN Consumed(generated, flush.requests, flush.rows) ELSE generated
  IN
  /\ phase = "decode" /\ Eligible
  /\ window # Closed /\ window.requests = decoding
  /\ IF DonationRaises(gen, len) THEN Die
     ELSE /\ Settle(gen, len)
          /\ result' = Plus(result, gen)
          /\ window' = IF full THEN Closed ELSE [window EXCEPT !.rows = rows]
          /\ flush' = IF full THEN [requests |-> window.requests, rows |-> rows] ELSE flush
          /\ phase' = IF full \/ waiting # <<>> THEN "return" ELSE "decode"
          /\ decoding' = IF phase' = "return" THEN <<>> ELSE decoding
          /\ UNCHANGED <<ids, deferrable, waiting, stash, sent, prefilling>>

Return ==
  /\ phase = "return"
  /\ sent' = [r \in Requests |-> sent[r] \o result[r]]
  /\ result' = Nothing
  /\ phase' = "between" /\ decoding' = <<>>
  /\ UNCHANGED <<ids, deferrable, queues, generated, length, window, flush, stash, prefilling>>

Pass == Begin \/ Prefill \/ DecodeNormal \/ Recompose \/ Open \/ Step \/ Return

Next ==
  \/ Pass
  \/ \E r \in Requests : Add(r) \/ Abort(r) \/ BecomePrivate(r)

(* The loop that owns the engine calls step() as long as there is work.    *)
Spec == Init /\ [][Next]_vars /\ WF_vars(Pass)

-----------------------------------------------------------------------------
(* Properties *)

\* What is on its way to a client: returned, in the result of the pass, or stashed by an abort.
Delivered == [r \in Requests |-> sent[r] \o result[r] \o stash[r]]

Greedy == INSTANCE GreedyDecode WITH asked <- arrived, produced <- Delivered

(* Deferring is "waste, not a correctness change": what is on its way to a *)
(* client is at all times a prefix of what greedy_decode returns, each     *)
(* token once and in order whatever windows, drains and aborts of others   *)
(* it passed through, and it is completed unless the client gave up.       *)
DecodesGreedily == Greedy!Spec

(* Behind the recorded tokens of a request are exactly the rows in flight, *)
(* and they fit "the current window's remainder plus one whole follow-up   *)
(* window": nothing sampled is dropped, nothing is recorded twice.  And no *)
(* forward runs past the cap, for which blocks were reserved at admission. *)
InFlightExact ==
  \A r \in ToSet(running) : length[r] > 0 =>
    LET inFlight == (IF r \in ToSet(window.requests) THEN Len(window.rows) ELSE 0)
                    + (IF r \in ToSet(flush.requests) THEN Len(flush.rows) ELSE 0)
    IN  /\ length[r] = shape[r].prompt + Len(generated[r]) - 1 + inFlight
        /\ inFlight < 2 * WindowSize
        /\ length[r] <= shape[r].prompt + shape[r].new - 1

(* "That is waste, not a correctness change" with the prefix cache on: no  *)
(* finisher's donation ever raises.                                        *)
NeverDies == phase # "dead"
=============================================================================
