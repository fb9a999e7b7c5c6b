----------------------------- MODULE AsyncEngine -----------------------------
(***************************************************************************)
(* The serving loop between asyncio handlers and the engine.  Handlers     *)
(* append submissions under a lock and mark streams aborted; one background*)
(* thread drains the submissions, applies the aborts, steps the engine and *)
(* dispatches bursts of tokens to the streams' queues.  A dying loop fails *)
(* every client; stop() and start() pause and resume the loop.             *)
(*                                                                         *)
(* The engine is what DecodeWindow promises of it: a live request computes *)
(* tokens, and records them in order, perhaps some steps later.  Tokens    *)
(* are counted.                                                            *)
(***************************************************************************)
EXTENDS Integers, Sequences, FiniteSets, SequencesExt, FiniteSetsExt

CONSTANTS
  Requests,      \* one handler and one stream each
  MaxTokens,     \* bound: longest answer
  MaxStarts      \* bound: calls of start()

ASSUME LoopAssumption ==
  /\ IsFiniteSet(Requests)
  /\ MaxTokens \in Nat \ {0} /\ MaxStarts \in Nat \ {0}

VARIABLES
  total,        \* length of each request's answer
  refused,      \* requests add_request will reject
  client,       \* the handler coroutine
  got,          \* tokens it has yielded
  queue,        \* its asyncio queue
  aborted,      \* _Stream.aborted
  error,        \* _Stream.error is set
  submissions,  \* _submissions
  fatal,        \* _fatal is set
  streams,      \* keys of _streams
  live,         \* requests the engine's scheduler holds
  computed,     \* tokens the engine has sampled
  recorded,     \* tokens it has recorded
  stash,        \* Engine._stashed_flush, tokens per request
  shutdown,     \* _shutdown
  thread,       \* _thread: the current one, 0 for None
  joining,      \* stop() waits in join
  pc,           \* where each started thread stands
  result        \* tokens of the StepResult a thread dispatches

clients == <<total, refused, client, got>>
engine  == <<live, computed, recorded, stash>>
control == <<shutdown, thread, joining>>
vars == <<clients, queue, aborted, error, submissions, fatal, streams, engine, control, pc, result>>

Threads == 1..MaxStarts
None == [r \in Requests |-> 0]

Burst(n, last) == [tokens |-> n, last |-> last]
End == Burst(0, TRUE)

\* End is put into the queues of the streams in S.
Closing(S) == [r \in Requests |-> IF r \in S THEN Append(queue[r], End) ELSE queue[r]]

Init ==
  /\ total \in [Requests -> 1..MaxTokens] /\ refused \in SUBSET Requests
  /\ client = [r \in Requests |-> "new"] /\ got = None
  /\ queue = [r \in Requests |-> <<>>]
  /\ aborted = {} /\ error = {} /\ submissions = <<>> /\ fatal = FALSE /\ streams = {}
  /\ live = {} /\ computed = None /\ recorded = None /\ stash = None
  /\ shutdown = FALSE /\ thread = 0 /\ joining = FALSE
  /\ pc = [t \in Threads |-> "new"] /\ result = [t \in Threads |-> None]

-----------------------------------------------------------------------------
(* Handlers *)

Submit(r) ==
  /\ client[r] = "new"
  /\ IF fatal
     THEN client' = [client EXCEPT ![r] = "failed"] /\ UNCHANGED submissions
     ELSE /\ client' = [client EXCEPT ![r] = "waiting"]
          /\ submissions' = Append(submissions, r)
  /\ UNCHANGED <<total, refused, got, queue, aborted, error, fatal, streams, engine, control, pc, result>>

(* The handler takes one item; its `finally` marks the stream aborted when *)
(* it returns or raises, too.                                              *)
Receive(r) ==
  /\ client[r] = "waiting" /\ queue[r] # <<>>
  /\ LET item == Head(queue[r])
     IN  /\ got' = [got EXCEPT ![r] = @ + item.tokens]
         /\ client' = [client EXCEPT ![r] =
              IF ~item.last THEN "waiting"
              ELSE IF item = End /\ r \in error THEN "failed" ELSE "done"]
         /\ aborted' = IF item.last THEN aborted \cup {r} ELSE aborted
  /\ queue' = [queue EXCEPT ![r] = Tail(@)]
  /\ UNCHANGED <<total, refused, error, submissions, fatal, streams, engine, control, pc, result>>

Disconnect(r) ==
  /\ client[r] = "waiting"
  /\ client' = [client EXCEPT ![r] = "left"]
  /\ aborted' = aborted \cup {r}
  /\ UNCHANGED <<total, refused, got, queue, error, submissions, fatal, streams, engine, control, pc, result>>

-----------------------------------------------------------------------------
(* start() and stop() *)

Start ==
  /\ thread = 0
  /\ \E t \in Threads :
       /\ pc[t] = "new" /\ \A s \in 1..(t - 1) : pc[s] # "new"
       /\ pc' = [pc EXCEPT ![t] = "drain"]
       /\ thread' = t
  /\ shutdown' = FALSE
  /\ UNCHANGED <<clients, queue, aborted, error, submissions, fatal, streams, engine, joining, result>>

\* The last start is not followed by a stop: the bound stands for a server that serves on.
Stop ==
  /\ thread \in 1..(MaxStarts - 1) /\ ~joining
  /\ shutdown' = TRUE /\ joining' = TRUE
  /\ UNCHANGED <<clients, queue, aborted, error, submissions, fatal, streams, engine, thread, pc, result>>

\* Assumed of the engine: the step that runs ends within the timeout of stop()'s join.
Join ==
  /\ joining /\ pc[thread] = "off"
  /\ thread' = 0 /\ joining' = FALSE
  /\ UNCHANGED <<clients, queue, aborted, error, submissions, fatal, streams, engine, shutdown, pc, result>>

-----------------------------------------------------------------------------
(* The loop thread *)

Exit(t) ==
  /\ pc[t] = "drain" /\ shutdown
  /\ pc' = [pc EXCEPT ![t] = "off"]
  /\ UNCHANGED <<clients, queue, aborted, error, submissions, fatal, streams, engine, control, result>>

\* mutant: the streams of earlier submissions are forgotten
DrainedStreams(accepted) == accepted

Tracked(accepted) == streams \cup accepted

\* A refused submission fails its own stream; the others enter the engine.
DrainSubmissions(t) ==
  LET pending == ToSet(submissions)  IN
  /\ pc[t] = "drain" /\ ~shutdown
  /\ submissions' = <<>>
  /\ error' = error \cup (pending \cap refused)
  /\ queue' = Closing(pending \cap refused)
  /\ live' = live \cup (pending \ refused)
  /\ streams' = Tracked(pending \ refused)
  /\ pc' = [pc EXCEPT ![t] = "aborts"]
  /\ UNCHANGED <<clients, aborted, fatal, computed, recorded, stash, control, result>>

\* mutant: the tokens of an abort's drain are dropped
DropDrained == stash

\* abort() records everything the engine has computed; the tokens wait for the next step.
DrainedStash == [r \in Requests |-> stash[r] + (IF r \in live THEN computed[r] - recorded[r] ELSE 0)]

\* What the engine still holds after its drain finished some requests and `gone` was aborted.
Remaining(gone) == {r \in live \ gone : computed[r] < total[r]}

ApplyAborts(t) ==
  LET gone == streams \cap aborted  IN
  /\ pc[t] = "aborts"
  /\ IF gone = {} THEN UNCHANGED <<queue, streams, engine>>
     ELSE /\ queue' = Closing(gone)
          /\ streams' = streams \ gone
          /\ stash' = DrainedStash
          /\ recorded' = [r \in Requests |-> IF r \in live THEN computed[r] ELSE recorded[r]]
          /\ live' = Remaining(gone)
          /\ UNCHANGED computed
  /\ pc' = [pc EXCEPT ![t] = "check"]
  /\ UNCHANGED <<clients, aborted, error, submissions, fatal, control, result>>

\* Without work the loop waits for a wake-up, at most idle_sleep_s, and goes on.
Idle(t) ==
  /\ pc[t] = "check" /\ live = {}
  /\ pc' = [pc EXCEPT ![t] = "drain"]
  /\ UNCHANGED <<clients, queue, aborted, error, submissions, fatal, streams, engine, control, result>>

(* step(): every live request gets further: it computes a token, or        *)
(* records what it had computed; a finished one is released.               *)
Step(t) ==
  /\ pc[t] = "check" /\ live # {}
  /\ \E c, n \in [live -> 0..MaxTokens] :
       /\ \A r \in live :
            /\ computed[r] <= c[r] /\ c[r] <= total[r]
            /\ recorded[r] <= n[r] /\ n[r] <= c[r]
            /\ c[r] > computed[r] \/ n[r] > recorded[r]
       /\ computed' = [r \in Requests |-> IF r \in live THEN c[r] ELSE computed[r]]
       /\ recorded' = [r \in Requests |-> IF r \in live THEN n[r] ELSE recorded[r]]
       /\ live' = {r \in live : n[r] < total[r]}
       /\ result' = [result EXCEPT ![t] = [r \in Requests |->
            stash[r] + (IF r \in live THEN n[r] - recorded[r] ELSE 0)]]
  /\ stash' = None
  /\ pc' = [pc EXCEPT ![t] = "dispatch"]
  /\ UNCHANGED <<clients, queue, aborted, error, submissions, fatal, streams, control>>

\* mutant: a request is over when its last token is sampled
SampledAll(r) == computed[r] = total[r]

\* The burst holds the token that finished the request.
Finished(r) == recorded[r] = total[r]

\* mutant: a finished stream stays tracked
KeptStreams(over) == streams

LeftStreams(over) == streams \ over

Dispatch(t) ==
  LET burst == {r \in streams : result[t][r] > 0}
      over  == {r \in burst : Finished(r)}
  IN
  /\ pc[t] = "dispatch"
  /\ queue' = [r \in Requests |-> queue[r]
       \o (IF r \in burst THEN <<Burst(result[t][r], r \in over)>> ELSE <<>>)
       \o (IF r \in over THEN <<End>> ELSE <<>>)]
  /\ streams' = LeftStreams(over)
  /\ result' = [result EXCEPT ![t] = None]
  /\ pc' = [pc EXCEPT ![t] = "drain"]
  /\ UNCHANGED <<clients, aborted, error, submissions, fatal, engine, control>>

\* step() raises; _fail_all first fails the streams the loop tracks ...
Crash(t) ==
  /\ pc[t] = "check" /\ live # {}
  /\ error' = error \cup streams
  /\ queue' = Closing(streams)
  /\ streams' = {}
  /\ stash' = None
  /\ pc' = [pc EXCEPT ![t] = "failing"]
  /\ UNCHANGED <<clients, aborted, submissions, fatal, live, computed, recorded, control, result>>

\* mutant: the submissions that nobody drained are left alone
FailNobody(t) ==
  /\ pc[t] = "failing"
  /\ fatal' = TRUE
  /\ pc' = [pc EXCEPT ![t] = "off"]
  /\ UNCHANGED <<clients, queue, aborted, error, submissions, streams, engine, control, result>>

\* ... then, under the lock, refuses all further submissions and fails the pending ones.
FailSubmissions(t) ==
  /\ pc[t] = "failing"
  /\ fatal' = TRUE
  /\ error' = error \cup ToSet(submissions)
  /\ queue' = Closing(ToSet(submissions))
  /\ submissions' = <<>>
  /\ pc' = [pc EXCEPT ![t] = "off"]
  /\ UNCHANGED <<clients, aborted, streams, engine, control, result>>

Loop(t) ==
  \/ Exit(t) \/ DrainSubmissions(t) \/ ApplyAborts(t) \/ Idle(t)
  \/ Step(t) \/ Dispatch(t) \/ Crash(t) \/ FailSubmissions(t)

Next ==
  \/ \E r \in Requests : Submit(r) \/ Receive(r) \/ Disconnect(r)
  \/ Start \/ Stop \/ Join
  \/ \E t \in Threads : Loop(t)

(* The operating system runs the thread, the event loop its handlers, and  *)
(* a paused server is resumed; clients and stop() may do as they like.     *)
Spec ==
  /\ Init /\ [][Next]_vars
  /\ \A t \in Threads : WF_vars(Loop(t))
  /\ \A r \in Requests : WF_vars(Receive(r))
  /\ WF_vars(Start) /\ WF_vars(Join)

-----------------------------------------------------------------------------
(* Properties *)

Active == {t \in Threads : pc[t] \notin {"new", "off"}}

TokensIn(q) == FoldSeq(LAMBDA item, n : item.tokens + n, 0, q)

(* What the engine recorded for a client that still listens is with the    *)
(* client, in its queue, or on its way (dispatched by a thread, stashed),  *)
(* exactly once.                                                           *)
NothingLost ==
  \A r \in Requests : client[r] = "waiting" /\ r \notin error =>
    recorded[r] = got[r] + TokensIn(queue[r]) + stash[r]
                  + MapThenSumSet(LAMBDA t : result[t][r], Threads)

(* A queue is closed once, by whoever drops the stream, and nothing is put *)
(* behind its end.                                                         *)
ClosedOnce ==
  \A r \in Requests :
    /\ \A n \in DOMAIN queue[r] : queue[r][n] = End => n = Len(queue[r])
    /\ r \in streams => End \notin ToSet(queue[r])

(* A handler that returned normally yielded the whole answer.              *)
WholeAnswers == \A r \in Requests : client[r] = "done" => got[r] = total[r]

(* "Never hang clients": when the loop died, whoever still waits finds the *)
(* end of its stream in its queue, also if it submitted in the meantime.   *)
FailedNotHung ==
  fatal /\ Active = {} =>
    \A r \in Requests : client[r] = "waiting" => End \in ToSet(queue[r])

Stranded(r) == stash[r] > 0 /\ live = {}

(* A client is answered or failed while the loop runs, except when the     *)
(* drain of another client's abort finished the last work of the engine.   *)
Answered ==
  \A r \in Requests : client[r] = "waiting" ~> client[r] # "waiting" \/ shutdown \/ Stranded(r)
=============================================================================
