----------------------------- MODULE Evaluation -----------------------------
(***************************************************************************)
(* The serving evaluation: clients put a workload through a server some    *)
(* warm-up and some measured times, an observer beside the engine records  *)
(* every stream, and a throughput is reported only when what was measured  *)
(* is complete and agrees with a reference.                                *)
(*                                                                         *)
(* surface "engine" submits to the loop directly, "asgi" and "network"     *)
(* over HTTP; "external" is a server nobody observes, driven by the        *)
(* evaluation or, with a semaphore, by the load generator.  Numerics       *)
(* depend on how many rows a pass computes: a shape gives the reference's  *)
(* token, a tie of it, or another one.                                     *)
(***************************************************************************)
EXTENDS Integers, Sequences, FiniteSets, SequencesExt, FiniteSetsExt, Functions

CONSTANTS
  Settings,  \* records [surface, workload, barrier, warmups, measured, width, numerics, faults, lost]
  Buckets,   \* upper bounds of a latency histogram, in passes
  Percents   \* the percentiles reported

ASSUME EvaluationAssumption ==
  /\ \A n \in 1..(Len(Buckets) - 1) : Buckets[n] < Buckets[n + 1]
  /\ \A s \in Settings :
       /\ s.surface \in {"engine", "asgi", "network", "external"}
       /\ s.measured >= 1 /\ s.width >= 1
       /\ s.surface \in {"engine", "asgi"} => s.warmups = 0 /\ s.measured = 1
       /\ s.surface = "external" => s.warmups <= 1 /\ s.measured = 1
       /\ s.barrier => s.surface = "network"
       /\ s.lost \subseteq IF s.surface = "external" THEN {"before", "after"} ELSE {}

VARIABLES
  setting,   \* the evaluation; workload: its requests, [signature, greedy, length]; numerics:
             \* shape -> "same", "tie" or "off"; faults: passes that may raise; lost: the scrapes of
             \* an external server that fail, before or after the measured run
  phase,     \* "ready", "gating", "running", "closing", "reported" or "raised"
  run,       \* runs launched, warm-ups included
  clock,     \* passes of the engine
  client,    \* of each request of the run: "posting", "waiting", "ok" or "error"
  submitted, \* submitted_s of each
  got,       \* the tokens each client received
  results,   \* client_results: of the measured runs, request -> [status, stream]
  loop,      \* the loop thread: "stopped", "idle", "pass", "finishing" or "dead"
  inbox,     \* _submissions
  active,    \* the running requests, in order of admission
  stream,    \* the tokens each of the run has generated
  channel,   \* the bursts on each one's queue
  failed,    \* requests whose queue was closed with an error
  late,      \* finished requests the request observer has not been told of, with their outputs
  expected,  \* StepObserver._expected: signature -> arrivals
  records,   \* the observer's _records: request -> [arrival, tokens]
  counters,  \* ServerMetrics: [admitted, tokens, count, tally]
  before,    \* the counters at the scrape before the measured runs
  latencies  \* the latencies observed since, sorted

server == <<loop, inbox, active, stream, channel, failed, late>>
clients == <<client, submitted, got, results>>
observer == <<expected, records>>
metrics == <<counters, before, latencies>>
vars == <<setting, phase, run, clock, clients, server, observer, metrics>>

-----------------------------------------------------------------------------
Workload  == setting.workload
Requests  == DOMAIN Workload
Measured  == ((setting.warmups + 1)..(setting.warmups + setting.measured)) \X Requests
Ask(id)  == Workload[id[2]]
Signature(i) == Workload[i].signature
Signatures == {Signature(i) : i \in Requests}

Stepping  == setting.surface \in {"engine", "asgi"}  \* a StepObserver wraps step()
Observing == setting.surface = "network"             \* a StreamOutputObserver is told
Each(x)   == [i \in Requests |-> x]
NoRecords == [id \in {} |-> {}]

Token(shape) == IF setting.numerics[shape] = "same" THEN 0 ELSE shape
Alone(length) == [n \in 1..length |-> Token(1)]

-----------------------------------------------------------------------------
(* Metrics *)

Unmeasured == [admitted |-> 0, tokens |-> 0, count |-> 0, tally |-> [n \in DOMAIN Buckets |-> 0]]

\* Histogram.observe: the smallest bucket that fits, or none.
Tally(tally, value) ==
  [n \in DOMAIN tally |->
     IF value <= Buckets[n] /\ \A m \in 1..(n - 1) : value > Buckets[m] THEN tally[n] + 1 ELSE tally[n]]

\* Histogram.render: how many observations a bound covers.
Cumulative(sample, n) == FoldFunctionOnSet(+, 0, sample.tally, 1..n)

\* mutant: the samples are not made relative to the first scrape
LifetimeQuantile(old, new, percent) ==
  LET reached == {n \in DOMAIN Buckets : 100 * Cumulative(new, n) >= (new.count - old.count) * percent}
  IN  IF new.count = old.count \/ reached = {} THEN 0 ELSE Buckets[Min(reached)]

\* _histogram_delta_quantile: the first bound that covers the share, 0 for None.
DeltaQuantile(old, new, percent) ==
  LET total   == new.count - old.count
      Delta(n) == Cumulative(new, n) - Cumulative(old, n)
      reached == {n \in DOMAIN Buckets : 100 * Delta(n) >= total * percent}
  IN  IF total <= 0 \/ reached = {} THEN 0 ELSE Buckets[Min(reached)]

\* _percentile: nearest rank.
Percentile(values, percent) ==
  LET rank == (percent * Len(values) + 99) \div 100 IN values[Max({1, Min({Len(values), rank})})]

-----------------------------------------------------------------------------
(* The gate: what the report makes of the records *)

\* compare_under_tie_tolerance: only the first divergence, and only a traced tie, is excused.
Compared(stream1, golden) ==
  LET apart == {n \in 1..Min({Len(stream1), Len(golden)}) : stream1[n] # golden[n]} IN
  IF apart = {} THEN IF Len(stream1) = Len(golden) THEN "pass" ELSE "fail"
  ELSE IF setting.numerics[stream1[Min(apart)]] = "tie" THEN "pass_tie" ELSE "fail"

\* _reference_decode: greedy_decode for a greedy request, the request alone for a sampled one.
ReferenceDecode(id) ==
  IF Ask(id).greedy THEN [n \in 1..Ask(id).length |-> 0] ELSE Alone(Ask(id).length)

\* The streams of a signature, which seeded replay must not tell apart.
Replays(id) ==
  {records[other].tokens : other \in {o \in DOMAIN records : Ask(o).signature = Ask(id).signature}}

\* The status of a record in the details of _reference_summary.
Detail(id) ==
  IF Ask(id).greedy THEN Compared(records[id].tokens, ReferenceDecode(id))
  ELSE IF Cardinality(Replays(id)) > 1 THEN "replay_divergent"
  ELSE IF records[id].tokens = ReferenceDecode(id) THEN "pass" ELSE "pass_replay"

Details == {Detail(id) : id \in DOMAIN records}

\* _reference_summary
ReferenceStatus ==
  CASE Details = {} -> "unavailable"
    [] "fail" \in Details -> "fail"
    [] "replay_divergent" \in Details /\ "fail" \notin Details -> "review"
    [] OTHER -> "pass"

Completed == {id \in DOMAIN results : results[id].status = "ok"}

\* _speed_status: why no rate is reported, or that it is.
SpeedStatus ==
  CASE Completed # DOMAIN results -> "requests_failed"
    [] Cardinality(DOMAIN records) < Cardinality(DOMAIN results) -> "requests_unobserved"
    [] OTHER -> IF ReferenceStatus = "pass" THEN "reported" ELSE ReferenceStatus

\* summarize counts what the clients that were answered received.
TotalOutput == FoldFunctionOnSet(LAMBDA r, n : Len(r.stream) + n, 0, results, Completed)

\* _workload_result counts what the observer saw, an external row what the server's counter did
\* or, without the second scrape, what the clients counted.
OutputTokens ==
  CASE setting.surface # "external" -> FoldFunction(LAMBDA r, n : Len(r.tokens) + n, 0, records)
    [] "after" \in setting.lost -> TotalOutput
    [] OTHER -> counters.tokens - before.tokens

\* An external row never has a rate.
Headline == phase = "reported" /\ setting.surface # "external" /\ SpeedStatus = "reported"

-----------------------------------------------------------------------------
Init ==
  /\ setting \in Settings
  /\ phase = "ready" /\ run = 0 /\ clock = 0
  /\ client = Each("ok") /\ submitted = Each(0) /\ got = Each(<<>>) /\ results = NoRecords
  /\ loop = IF setting.surface = "engine" THEN "stopped" ELSE "idle"
  /\ inbox = <<>> /\ active = <<>> /\ stream = Each(<<>>) /\ channel = Each(<<>>)
  /\ failed = {} /\ late = NoRecords
  /\ expected = [s \in Signatures |-> <<>>] /\ records = NoRecords
  /\ counters = Unmeasured /\ before = Unmeasured /\ latencies = <<>>

\* StepObserver.expect: in the order in which gather starts the clients.
Expected ==
  [s \in Signatures |->
     IF Stepping THEN expected[s] \o SelectSeq([i \in Requests |-> i], LAMBDA i : Signature(i) = s)
     ELSE expected[s]]

\* stop() joins the thread, so it has left its pass.
Joined == loop \in {"idle", "stopped", "dead"}
Stopped == IF loop = "dead" THEN "dead" ELSE "stopped"

\* The clients of run n; an external server is warmed up by the first request alone.
Clients(n) == IF setting.surface = "external" /\ n <= setting.warmups THEN {1} ELSE Requests

\* run_once: behind the barrier the loop is stopped first.
Launch ==
  /\ phase = "ready" /\ setting.surface # "engine"
  /\ setting.barrier => Joined
  /\ run' = run + 1
  /\ phase' = IF setting.barrier THEN "gating" ELSE "running"
  /\ loop' = IF setting.barrier THEN Stopped ELSE loop
  /\ client' = [i \in Requests |-> IF i \in Clients(run + 1) THEN "posting" ELSE "ok"]
  /\ got' = Each(<<>>) /\ stream' = Each(<<>>)
  /\ expected' = Expected
  /\ UNCHANGED <<setting, clock, submitted, results, inbox, active, channel, failed, late, records, metrics>>

\* run_engine_workload: every consumer has submitted before the loop starts.
LaunchEngine ==
  /\ phase = "ready" /\ setting.surface = "engine"
  /\ run' = run + 1 /\ phase' = "running" /\ loop' = "idle"
  /\ client' = Each("waiting") /\ inbox' = [i \in Requests |-> i]
  /\ expected' = Expected
  /\ UNCHANGED <<setting, clock, submitted, got, results, active, stream, channel, failed, late, records, metrics>>

\* StreamOutputObserver.submitted
Noted(i) ==
  IF Observing THEN (<<run, i>> :> [arrival |-> i, tokens |-> <<>>]) @@ records ELSE records

\* Without a server in between, what the handler raises reaches the client and, unless it is
\* caught there, ends the whole workload.
Escapes(caught) == phase' = IF setting.surface = "asgi" /\ ~caught THEN "raised" ELSE phase

\* The handler reaches stream(); a semaphore may hold the client back.
Submit(i) ==
  /\ phase \in {"gating", "running"} /\ client[i] = "posting"
  /\ Cardinality({j \in Requests : client[j] = "waiting"}) < setting.width
  /\ records' = Noted(i)
  /\ IF loop = "dead"
     THEN client' = [client EXCEPT ![i] = "error"] /\ Escapes(FALSE) /\ UNCHANGED <<inbox, submitted>>
     ELSE /\ client' = [client EXCEPT ![i] = "waiting"]
          /\ inbox' = Append(inbox, i)
          /\ submitted' = [submitted EXCEPT ![i] = clock]
          /\ UNCHANGED phase
  /\ UNCHANGED <<setting, run, clock, got, results, loop, active, stream, channel, failed, late,
                 expected, metrics>>

\* mutant: the loop is resumed as soon as there is something to admit
Started == inbox # <<>>

\* pending_submissions has reached the whole batch.
Gathered == Len(inbox) = Len(Workload)

\* The barrier opens: one drain admits the batch.
Open ==
  /\ phase = "gating" /\ Gathered
  /\ phase' = "running" /\ loop' = "idle"
  /\ UNCHANGED <<setting, run, clock, clients, inbox, active, stream, channel, failed, late, observer, metrics>>

\* A refused submission never shows up behind the barrier: 30 seconds, then TimeoutError.
BarrierTimeout ==
  /\ phase = "gating" /\ \E i \in Requests : client[i] = "error"
  /\ phase' = "raised"
  /\ UNCHANGED <<setting, run, clock, clients, server, observer, metrics>>

\* _drain_submissions
Drain ==
  /\ loop = "idle" /\ (inbox # <<>> \/ active # <<>>)
  /\ active' = active \o inbox /\ inbox' = <<>>
  /\ loop' = "pass"
  /\ UNCHANGED <<setting, phase, run, clock, clients, stream, channel, failed, late, observer, metrics>>

Fresh == SelectSeq(active, LAMBDA i : stream[i] = <<>>)
Rest  == SelectSeq(active, LAMBDA i : stream[i] # <<>>)

\* The token a pass gives each request: prefilled with the new ones or decoded with the others.
Sampled(i) == Token(Len(IF stream[i] = <<>> THEN Fresh ELSE Rest))
Advanced == [i \in Requests |-> IF Contains(active, i) THEN Append(stream[i], Sampled(i)) ELSE stream[i]]
Finished == {i \in ToSet(active) : Len(Advanced[i]) = Workload[i].length}

\* How many of the fresh requests up to the n-th have its signature.
Nth(n) == Cardinality({m \in 1..n : Signature(Fresh[m]) = Signature(Fresh[n])})

\* _pop_expected_arrival, for the n-th request admitted in this pass.
Popped(n) == expected[Signature(Fresh[n])][Nth(n)]

\* StepObserver.record_step, a dictionary of the requests it has seen.
Recorded ==
  [id \in DOMAIN records \cup {<<run, i>> : i \in ToSet(Fresh)} |->
     [arrival |-> IF id \in DOMAIN records THEN records[id].arrival
                  ELSE Popped(CHOOSE n \in DOMAIN Fresh : Fresh[n] = id[2]),
      tokens  |-> IF id[1] = run THEN Advanced[id[2]] ELSE records[id].tokens]]

Unexpected ==
  [s \in Signatures |->
     LET taken == Cardinality({n \in DOMAIN Fresh : Signature(Fresh[n]) = s})
     IN  SubSeq(expected[s], taken + 1, Len(expected[s]))]

\* record_step looks a request up that its own step already released: KeyError.
Overlooked == Stepping /\ ToSet(Fresh) \cap Finished # {}

\* _dispatch: counters and bursts first, the request observer afterwards.
Pass ==
  /\ loop = "pass" /\ ~Overlooked
  /\ clock' = clock + 1
  /\ stream' = Advanced
  /\ active' = SelectSeq(active, LAMBDA i : i \notin Finished)
  /\ channel' = [i \in Requests |-> IF Contains(active, i) THEN Append(channel[i], Sampled(i)) ELSE channel[i]]
  /\ late' = [id \in {<<run, i>> : i \in Finished} |-> Advanced[id[2]]]
  /\ IF Stepping THEN records' = Recorded /\ expected' = Unexpected ELSE UNCHANGED observer
  /\ counters' = [counters EXCEPT !.admitted = @ + Len(Fresh)]
  /\ loop' = "finishing"
  /\ UNCHANGED <<setting, phase, run, clients, inbox, failed, before, latencies>>

\* request_observer.finished: a request that was reset away is ignored.
Finish ==
  /\ loop = "finishing"
  /\ records' = [id \in DOMAIN records |->
                   IF Observing /\ id \in DOMAIN late THEN [records[id] EXCEPT !.tokens = late[id]]
                   ELSE records[id]]
  /\ late' = NoRecords /\ loop' = "idle"
  /\ UNCHANGED <<setting, phase, run, clock, clients, inbox, active, stream, channel, failed, expected, metrics>>

\* _fail_all, for a step that raises.
Die ==
  /\ loop = "pass" /\ (Overlooked \/ setting.faults > 0)
  /\ setting' = [setting EXCEPT !.faults = Max({0, @ - 1})]
  /\ failed' = ToSet(active) \cup ToSet(inbox)
  /\ active' = <<>> /\ inbox' = <<>> /\ loop' = "dead"
  /\ UNCHANGED <<phase, run, clock, clients, stream, channel, late, observer, metrics>>

\* stream(): a burst is counted as it is taken; its last token closes the request.
Consume(i) ==
  /\ client[i] = "waiting" /\ channel[i] # <<>>
  /\ LET value == clock - submitted[i]
         ended == Len(got[i]) + Len(channel[i]) = Workload[i].length
     IN
     /\ got' = [got EXCEPT ![i] = @ \o channel[i]]
     /\ channel' = [channel EXCEPT ![i] = <<>>]
     /\ counters' = [counters EXCEPT !.tokens = @ + Len(channel[i]),
                                     !.count = IF ended THEN @ + 1 ELSE @,
                                     !.tally = IF ended THEN Tally(@, value) ELSE @]
     /\ latencies' = IF ended THEN SortSeq(Append(latencies, value), <) ELSE latencies
     /\ client' = [client EXCEPT ![i] = IF ended THEN "ok" ELSE "waiting"]
  /\ UNCHANGED <<setting, phase, run, clock, submitted, results, loop, inbox, active, stream, failed, late,
                 observer, before>>

\* The queue is closed with an error: an error result, or the exception itself.  A blocking
\* client catches a KeyError, the one of record_step among them.
Fail(i) ==
  /\ client[i] = "waiting" /\ i \in failed /\ channel[i] = <<>>
  /\ client' = [client EXCEPT ![i] = "error"] /\ failed' = failed \ {i}
  /\ \E caught \in BOOLEAN : Escapes(caught)
  /\ UNCHANGED <<setting, run, clock, submitted, got, results, loop, inbox, active, stream, channel, late,
                 observer, metrics>>

AllDone == \A i \in Requests : client[i] \in {"ok", "error"}

\* mutant: the warm-up's records stay
Kept == records

\* observer.reset
Reset == NoRecords

\* The end of a warm-up run: a failure raises, except against an external server.
EndWarmup ==
  /\ phase = "running" /\ AllDone /\ run <= setting.warmups
  /\ phase' = IF Observing /\ \E i \in Requests : client[i] = "error" THEN "raised" ELSE "ready"
  /\ IF run = setting.warmups
     THEN /\ records' = Reset
          /\ before' = IF "before" \in setting.lost THEN Unmeasured ELSE counters
          /\ latencies' = <<>>
     ELSE UNCHANGED <<records, before, latencies>>
  /\ UNCHANGED <<setting, run, clock, clients, server, expected, counters>>

Collected == [id \in {run} \X Requests |-> [status |-> client[id[2]], stream |-> got[id[2]]]]

\* The end of a measured run; after the last the counters are scraped and the server is closed.
EndMeasured ==
  /\ phase = "running" /\ AllDone /\ run > setting.warmups
  /\ results' = Collected @@ results
  /\ phase' = IF run = setting.warmups + setting.measured THEN "closing" ELSE "ready"
  /\ UNCHANGED <<setting, run, clock, client, submitted, got, server, observer, metrics>>

\* mutant: the snapshot does not wait for the server
Unjoined == TRUE

\* should_exit and the lifespan's stop(): the loop has returned.
Closed == Joined

\* snapshot and _workload_result
Report ==
  /\ phase = "closing" /\ Closed
  /\ phase' = "reported" /\ loop' = Stopped
  /\ UNCHANGED <<setting, run, clock, clients, inbox, active, stream, channel, failed, late, observer, metrics>>

Next ==
  \/ Launch \/ LaunchEngine \/ Open \/ BarrierTimeout
  \/ Drain \/ Pass \/ Finish \/ Die
  \/ \E i \in Requests : Submit(i) \/ Consume(i) \/ Fail(i)
  \/ EndWarmup \/ EndMeasured \/ Report

Spec == Init /\ [][Next]_vars

-----------------------------------------------------------------------------
(* Properties *)

\* Where a batch is admitted in one drain, behind the barrier or before the engine's loop starts,
\* the seeded streams of a signature agree whatever the numerics of a shape, in every run and
\* whoever finishes first: the row never goes to review (admission_barrier, run_engine_workload).
ReplaysAgree ==
  phase = "reported" /\ (setting.barrier \/ setting.surface = "engine") =>
    "replay_divergent" \notin Details \/ Completed # DOMAIN results

\* A report is of the measured runs and of nothing else: the records are their requests, and, when
\* all completed, the tokens reported are what their clients received, also without the second
\* scrape, and with both so are the counters' deltas (a lost first one makes them lifetime numbers).
OnlyMeasured ==
  phase = "reported" =>
    /\ DOMAIN results = Measured /\ DOMAIN records \subseteq Measured
    /\ Completed = Measured /\ setting.lost # {"before"} => OutputTokens = TotalOutput
    /\ Completed = Measured /\ setting.lost = {} =>
         /\ counters.tokens - before.tokens = TotalOutput
         /\ counters.admitted - before.admitted = Cardinality(Measured)
         /\ counters.count - before.count = Len(latencies)

\* Each record has the arrival of a client with its signature, and no two of a run share one.
ArrivalsMatched ==
  \A id \in DOMAIN records :
    /\ Signature(records[id].arrival) = Ask(id).signature
    /\ \A other \in DOMAIN records :
         other[1] = id[1] /\ records[other].arrival = records[id].arrival => other = id

\* A rate is reported only when every measured request was answered in full, the observer holds
\* the very stream its client received, the greedy ones follow the reference up to a first tie
\* and the sampled ones of a signature are one stream: the tokens counted were all delivered, and
\* every latency starts at an arrival of its own, however submissions overtook each other.
HeadlineEarned ==
  Headline =>
    /\ \A id \in Measured :
         /\ results[id].status = "ok" /\ Len(results[id].stream) = Ask(id).length
         /\ id \in DOMAIN records /\ records[id].tokens = results[id].stream
         /\ \A other \in Measured :
              ~Ask(id).greedy /\ Ask(other).signature = Ask(id).signature =>
                records[other].tokens = records[id].tokens
         /\ Ask(id).greedy =>
              \A n \in 1..Ask(id).length :
                records[id].tokens[n] = 0 \/
                \E m \in 1..n : records[id].tokens[m] # 0 /\ setting.numerics[records[id].tokens[m]] = "tie"
    /\ OutputTokens = TotalOutput
    /\ ArrivalsMatched

\* The bucket reported for a percentile holds the percentile of the latencies of the measured
\* requests themselves, and is the first that does; none is reported when they are beyond the last.
\* It takes both scrapes: a lost first one counts as empty, without the second there are no buckets.
BucketHolds ==
  phase = "reported" /\ latencies # <<>> /\ setting.lost = {} =>
    \A percent \in Percents :
      LET true  == Percentile(latencies, percent)
          bound == DeltaQuantile(before, counters, percent)
      IN  IF bound = 0 THEN \A n \in DOMAIN Buckets : true > Buckets[n]
          ELSE true <= bound /\ \A n \in DOMAIN Buckets : Buckets[n] < bound => true > Buckets[n]
=============================================================================
