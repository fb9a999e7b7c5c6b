----------------------------- MODULE TextStream -----------------------------
(***************************************************************************)
(* One HTTP request from its body to the last byte of its answer: tokens   *)
(* come out of the serving loop one by one, are decoded incrementally,     *)
(* searched for stop strings, and put on the wire; a stop string aborts    *)
(* the request, and clients may leave at any await.                        *)
(*                                                                         *)
(* A token is a sequence of bytes.  A plain byte is its own character; "(" *)
(* followed by ")" stands for a character of two bytes, and any other of   *)
(* them decodes to the replacement character "?", as a byte-level          *)
(* tokenizer does.                                                         *)
(***************************************************************************)
EXTENDS HttpApi

CONSTANTS
  Asks,        \* the requests a client may send
  Chars,       \* bytes and characters
  Vocabulary,  \* tokens: sequences of bytes
  Eos          \* the end-of-sequence token, skipped by decode

ASSUME StreamAssumption ==
  /\ {"()", "?"} \subseteq Chars
  /\ Vocabulary \subseteq Seq(Chars) /\ Eos \notin Vocabulary
  /\ \A a \in Asks : a.endpoint \in {"chat", "text", "responses"} /\ a.stops \in Seq(Seq(Chars))

VARIABLES
  ask,      \* the request body
  phase,    \* where the handler stands
  fatal,    \* AsyncInferenceEngine._fatal
  queue,    \* stream.queue, its bursts flattened
  made,     \* number of tokens the engine produced
  ids,      \* IncrementalDetokenizer._token_ids
  offsets,  \* _prefix_offset and _read_offset
  pending,  \* StopSequenceDetokenizer._pending
  stopped,  \* StopSequenceDetokenizer._stopped
  finish,   \* finish_reason
  emitted,  \* the text yielded so far
  wire,     \* the events sent
  metrics   \* ServerMetrics, this request's share of it

detok == <<ids, offsets, pending, stopped, finish, emitted>>
vars == <<ask, phase, fatal, queue, made, detok, wire, metrics>>

-----------------------------------------------------------------------------
(* Decoding *)

Bytes(tokens) == FlattenSeq([n \in DOMAIN tokens |-> IF tokens[n] = Eos THEN <<>> ELSE tokens[n]])

\* What byte n adds to the text: the character it completes, if any.
Character(bytes, n) ==
  CASE bytes[n] = "(" -> IF n < Len(bytes) /\ bytes[n + 1] = ")" THEN <<>> ELSE <<"?">>
    [] bytes[n] = ")" -> IF n > 1 /\ bytes[n - 1] = "(" THEN <<"()">> ELSE <<"?">>
    [] OTHER          -> <<bytes[n]>>

Characters(bytes) == FlattenSeq([n \in DOMAIN bytes |-> Character(bytes, n)])

Decode(tokens) == Characters(Bytes(tokens))

EndsBroken(text) == text # <<>> /\ Last(text) = "?"

Window(tokens) == Decode(SubSeq(tokens, offsets.prefix + 1, Len(tokens)))

\* mutant: the whole window is taken for new text
EmittedAnew(window) == window

\* _emit: what the window holds beyond the text of the ids already read.
Fresh(window) ==
  LET old == Decode(SubSeq(ids, offsets.prefix + 1, offsets.read))
  IN  SubSeq(window, Len(old) + 1, Len(window))

\* IncrementalDetokenizer.feed
Feed(tokens) ==
  IF EndsBroken(Window(tokens)) THEN [text |-> <<>>, offsets |-> offsets]
  ELSE [text |-> Fresh(Window(tokens)), offsets |-> [prefix |-> offsets.read, read |-> Len(tokens)]]

-----------------------------------------------------------------------------
(* Stop strings *)

Stops == {ask.stops[n] : n \in DOMAIN ask.stops} \ {<<>>}

OccursAt(stop, text, n) ==
  n + Len(stop) - 1 <= Len(text) /\ SubSeq(text, n, n + Len(stop) - 1) = stop

Hits(text) == {n \in DOMAIN text : \E stop \in Stops : OccursAt(stop, text, n)}

HasStop(text) == Hits(text) # {}

EarliestStop(text) == Min(Hits(text))

UpToStop(text) == IF HasStop(text) THEN SubSeq(text, 1, EarliestStop(text) - 1) ELSE text

\* The stop prefixes that the text ends in, by their lengths.
Tails(text) == {n \in DOMAIN text : \E stop \in Stops :
  n < Len(stop) /\ SubSeq(stop, 1, n) = SubSeq(text, Len(text) - n + 1, Len(text))}

UnsafeTailLen(text) == Max({0} \cup Tails(text))

\* mutant: the text is cut at the last stop in it
ConsumeLatest(text) ==
  IF HasStop(text) THEN [text |-> SubSeq(text, 1, Max(Hits(text)) - 1), pending |-> <<>>, stopped |-> TRUE]
  ELSE LET safe == Len(text) - UnsafeTailLen(text)
       IN  [text |-> SubSeq(text, 1, safe), pending |-> SubSeq(text, safe + 1, Len(text)),
            stopped |-> FALSE]

\* StopSequenceDetokenizer._consume
Consume(text) ==
  IF HasStop(text) THEN [text |-> UpToStop(text), pending |-> <<>>, stopped |-> TRUE]
  ELSE LET safe == Len(text) - UnsafeTailLen(text)
       IN  [text |-> SubSeq(text, 1, safe), pending |-> SubSeq(text, safe + 1, Len(text)),
            stopped |-> FALSE]

-----------------------------------------------------------------------------
(* Metrics *)

\* requests_total, stream_tokens_total, request_latency_seconds, and
\* requests_completed_total by its two reasons.
NoMetrics == [requests |-> 0, tokens |-> 0, latencies |-> 0, stop |-> 0, length |-> 0]

Count(label) == [metrics EXCEPT ![label] = @ + 1]

\* A completed request is counted under its reason, and its latency observed.
Completed(reason) == [metrics EXCEPT ![reason] = @ + 1, !.latencies = @ + 1]

-----------------------------------------------------------------------------
(* The handler *)

Init ==
  /\ ask \in Asks /\ phase = "new" /\ fatal = FALSE
  /\ queue = <<>> /\ made = 0
  /\ ids = <<>> /\ offsets = [prefix |-> 0, read |-> 0]
  /\ pending = <<>> /\ stopped = FALSE /\ finish = "none" /\ emitted = <<>>
  /\ wire = <<>>
  /\ metrics = NoMetrics

\* The route and _start_generation; stream() is a generator that has not run yet.
Handle ==
  /\ phase = "new"
  /\ IF Status(ask) = 200
     THEN phase' = "accepted" /\ wire' = Opening(ask)
     ELSE phase' = "refused" /\ wire' = <<Event("error", Status(ask))>>
  /\ UNCHANGED <<ask, fatal, queue, made, detok, metrics>>

\* The first pull runs stream() up to its queue: the submission, or a dead engine.
Submit ==
  /\ phase = "accepted"
  /\ IF fatal
     THEN phase' = "failed" /\ UNCHANGED metrics
     ELSE phase' = "open" /\ metrics' = Count("requests")
  /\ UNCHANGED <<ask, fatal, queue, made, detok, wire>>

\* The end of a failed stream: stream.error is set.
Failure == [token |-> <<>>, finish |-> "error"]

\* The end of the stream is in the queue, or read.
Closed == finish # "none" \/ (queue # <<>> /\ Last(queue).finish # "none")

\* _drain_submissions: a request the engine refuses fails its own stream.
Reject ==
  /\ phase = "open" /\ made = 0 /\ queue = <<>> /\ ~fatal /\ ~EngineTakes(ask)
  /\ queue' = <<Failure>>
  /\ UNCHANGED <<ask, phase, fatal, made, detok, wire, metrics>>

FinishReason(token) == IF token = Eos THEN "stop" ELSE IF made + 1 = ask.maxTokens THEN "length" ELSE "none"

\* The loop dispatches the next token.
Produce(token) ==
  /\ phase = "open" /\ ~fatal /\ EngineTakes(ask)
  /\ made < ask.maxTokens /\ ~Closed
  /\ queue' = Append(queue, [token |-> token, finish |-> FinishReason(token)])
  /\ made' = made + 1
  /\ UNCHANGED <<ask, phase, fatal, detok, wire, metrics>>

\* mutant: the loop dies without a word
DieSilently ==
  /\ ~fatal /\ phase \in {"accepted", "open"}
  /\ fatal' = TRUE
  /\ UNCHANGED <<ask, phase, queue, made, detok, wire, metrics>>

\* The loop thread dies: _fail_all closes an unfinished stream with its error.
Die ==
  /\ ~fatal /\ phase \in {"accepted", "open"}
  /\ fatal' = TRUE
  /\ queue' = IF phase = "open" /\ ~Closed THEN Append(queue, Failure) ELSE queue
  /\ UNCHANGED <<ask, phase, made, detok, wire, metrics>>

\* iter_text_stream takes one item; a stop or the last token leaves it suspended at a yield.
Pull ==
  /\ phase = "open" /\ ~stopped /\ finish = "none"
  /\ queue # <<>> /\ Head(queue) # Failure
  /\ LET item  == Head(queue)
         all   == Append(ids, item.token)
         fed   == Feed(all)
         found == Consume(pending \o fed.text)
     IN  /\ ids' = all
         /\ offsets' = fed.offsets
         /\ pending' = found.pending
         /\ stopped' = found.stopped
         /\ finish' = item.finish
         /\ emitted' = emitted \o found.text
         /\ wire' = IF found.text = <<>> THEN wire ELSE wire \o Delta(ask, found.text)
  /\ queue' = Tail(queue)
  /\ metrics' = Count("tokens")
  /\ UNCHANGED <<ask, phase, fatal, made>>

Fail ==
  /\ phase = "open" /\ queue # <<>> /\ Head(queue) = Failure /\ ~stopped
  /\ phase' = "failed"
  /\ UNCHANGED <<ask, fatal, queue, made, detok, wire, metrics>>

\* mutant: the engine's own finish reason is counted although the stop string came first
CountFinish == IF finish = "none" THEN "stop" ELSE finish

CountStop == "stop"

\* finish_on_stop closes the token stream at its yield, so only the stop is counted.
Halt ==
  /\ phase = "open" /\ stopped
  /\ metrics' = Completed(CountStop)
  /\ wire' = wire \o Closing(ask, emitted, "stop")
  /\ phase' = "ended"
  /\ UNCHANGED <<ask, fatal, queue, made, detok>>

\* StopSequenceDetokenizer.finalize
Flush == pending \o Fresh(Window(ids))

\* stream() resumes behind its last item and returns; what was held back is flushed.
Finish ==
  /\ phase = "open" /\ ~stopped /\ finish # "none"
  /\ metrics' = Completed(finish)
  /\ emitted' = emitted \o Flush
  /\ pending' = <<>>
  /\ offsets' = [prefix |-> offsets.read, read |-> Len(ids)]
  /\ wire' = wire \o (IF Flush = <<>> THEN <<>> ELSE Delta(ask, Flush))
                  \o Closing(ask, emitted \o Flush, finish)
  /\ phase' = "ended"
  /\ UNCHANGED <<ask, fatal, queue, made, ids, stopped, finish>>

\* Only a streamed answer is cancelled with its client.
Leave ==
  /\ phase \in {"accepted", "open"} /\ ask.stream
  /\ phase' = "left"
  /\ UNCHANGED <<ask, fatal, queue, made, detok, wire, metrics>>

Generate == \E token \in Vocabulary \cup {Eos} : Produce(token)

Handler == Handle \/ Submit \/ Pull \/ Fail \/ Halt \/ Finish

Next == Handler \/ Reject \/ Generate \/ Die \/ Leave

\* Some action of the handler is enabled.
Ready ==
  \/ phase \in {"new", "accepted"}
  \/ phase = "open" /\ (queue # <<>> \/ stopped \/ finish # "none")

(* The event loop runs the handler, the loop thread drains and steps.  The *)
(* first conjunct is WF_vars(Handler) with ENABLED spelt out.              *)
Spec ==
  /\ Init /\ [][Next]_vars
  /\ []<>~Ready \/ []<><<Handler>>_vars
  /\ WF_vars(Reject \/ Generate)

-----------------------------------------------------------------------------
(* Properties *)

(* The deltas reassemble to the text of all tokens: nothing is lost or     *)
(* repeated at the seams of the decode window, and what is missing is an   *)
(* incomplete character or a possible start of a stop string.              *)
Reassembles ==
  LET text == Decode(ids) IN
  ~stopped => /\ IsPrefix(emitted \o pending, text)
              /\ ~EndsBroken(text) => emitted \o pending = text
              /\ phase = "ended" => emitted = text

(* Text is cut exactly before the first stop string, as soon as the text   *)
(* the client may read completes one, and no part of one is sent while it  *)
(* may still be completed.  The exception is the flush of an incomplete    *)
(* character at the very end: nothing is matched against a stop then.      *)
CutsAtStop ==
  LET text == Decode(ids) IN
  /\ stopped => emitted = UpToStop(text)
  /\ ~stopped /\ HasStop(text) => EndsBroken(text)
  /\ (phase = "ended" /\ EndsBroken(text)) \/ IsPrefix(emitted, UpToStop(text))

Completions == metrics.stop + metrics.length

(* A request is counted as completed once, when its answer ended, under    *)
(* the reason its client reads, however its last token and a stop string   *)
(* coincide; a failed or abandoned one never is.                           *)
CountedOnce ==
  /\ Completions = IF phase = "ended" THEN 1 ELSE 0
  /\ metrics.latencies = Completions
  /\ \A n \in DOMAIN wire : wire[n].type = "finish" => metrics[wire[n].text] = 1

(* What passes the handler's checks is not refused later by the engine on  *)
(* the loop thread, except a prefix group on a backend that cannot share.  *)
AcceptedIsTaken == phase = "open" /\ ~EngineTakes(ask) => ask.group /\ ~PrefixCaching

(* Every request is refused, answered or failed, unless its client leaves. *)
Ends == <>(phase \in {"refused", "ended", "failed", "left"})
=============================================================================
