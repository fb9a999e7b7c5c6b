-------------------------- MODULE AsyncEngineProofs --------------------------
(***************************************************************************)
(* No client of the serving loop waits for a stream that nobody will end:  *)
(* for every number of clients, answers of any length and any number of    *)
(* restarts, a queue is closed once, by whoever drops its stream, and a    *)
(* loop that died leaves no client without the end of its stream.  And no  *)
(* token is lost on the way: what was recorded for a client that listens   *)
(* is in exactly one place, and an answer that ended normally is whole.    *)
(***************************************************************************)
EXTENDS AsyncEngine, CollectionLemmas

Items == [tokens : Nat, last : BOOLEAN]

States == {"new", "drain", "aborts", "check", "dispatch", "failing", "off"}

Typed ==
  /\ client \in [Requests -> {"new", "waiting", "done", "failed", "left"}]
  /\ queue \in [Requests -> Seq(Items)]
  /\ submissions \in Seq(Requests) /\ streams \subseteq Requests
  /\ fatal \in BOOLEAN
  /\ thread \in {0} \cup Threads /\ pc \in [Threads -> States]
  /\ computed \in [Requests -> Nat] /\ recorded \in [Requests -> Nat]
  /\ \A r \in Requests : recorded[r] <= computed[r]
  /\ stash \in [Requests -> Nat] /\ result \in [Threads -> [Requests -> Nat]]

(* At most one thread is in the loop, and stop() knows it. *)
OneLoop == \A t \in Threads : pc[t] \notin {"new", "off"} => t = thread

Ended(q) == End \in ToSet(q)
EndsOnce(q) == \A n \in DOMAIN q : q[n] = End => n = Len(q)

(* A client's stream is submitted, tracked or ended, one of the three while *)
(* the client waits, and nothing before the client arrives.                 *)
Placed(r) ==
  /\ EndsOnce(queue[r])
  /\ client[r] = "new" => queue[r] = <<>> /\ r \notin streams /\ r \notin ToSet(submissions)
  /\ r \in streams => r \notin ToSet(submissions) /\ ~Ended(queue[r])
  /\ r \in ToSet(submissions) => ~Ended(queue[r])
  /\ client[r] = "waiting" => r \in streams \/ r \in ToSet(submissions) \/ Ended(queue[r])

(* A loop that died tracks nobody and will drain nobody. *)
Abandoned ==
  /\ \A t \in Threads : pc[t] = "failing" => streams = {}
  /\ fatal => streams = {} /\ submissions = <<>>

IInv ==
  /\ Typed /\ OneLoop /\ Abandoned
  /\ \A r \in Requests : Placed(r)

-----------------------------------------------------------------------------
(* Queues and submissions *)

(* Of two items a burst of tokens is never the end of a stream. *)
LEMMA BurstIsItem ==
  ASSUME NEW n \in Nat, NEW last \in BOOLEAN
  PROVE  /\ Burst(n, last) \in Items /\ End \in Items
         /\ n > 0 => Burst(n, last) # End
  BY DEF Burst, End, Items

(* An empty queue has not ended. *)
LEMMA EmptyQueue == ~Ended(<<>>) /\ EndsOnce(<<>>) /\ <<>> \in Seq(Items) /\ ToSet(<<>>) = {}
  BY DEF Ended, EndsOnce, ToSet

(* An open queue may take one more item, and ends when that item is the end. *)
LEMMA QueueAppend ==
  ASSUME NEW q \in Seq(Items), ~Ended(q), NEW item \in Items
  PROVE  /\ Append(q, item) \in Seq(Items)
         /\ EndsOnce(Append(q, item))
         /\ Ended(Append(q, item)) <=> item = End
<1>1. /\ Append(q, item) \in Seq(Items)
      /\ Len(Append(q, item)) = Len(q) + 1
      /\ \A n \in 1..Len(q) : Append(q, item)[n] = q[n]
      /\ Append(q, item)[Len(q) + 1] = item
  BY AppendProperties
<1>2. DOMAIN q = 1..Len(q) /\ DOMAIN Append(q, item) = 1..(Len(q) + 1) /\ Len(q) \in Nat
  BY <1>1, LenProperties
<1>3. \A n \in 1..Len(q) : q[n] # End
  BY <1>2 DEF Ended, ToSet
<1>4. EndsOnce(Append(q, item))
  BY <1>1, <1>2, <1>3 DEF EndsOnce
<1>5. Ended(Append(q, item)) <=> item = End
  BY <1>1, <1>2, <1>3 DEF Ended, ToSet
<1> QED
  BY <1>1, <1>4, <1>5

(* Appending is concatenating one item. *)
LEMMA QueueConcat ==
  ASSUME NEW q \in Seq(Items), NEW item \in Items
  PROVE  q \o <<item>> = Append(q, item) /\ q \o <<>> = q
  BY AppendIsConcat, ConcatEmptySeq

(* Taking an item other than the end leaves the end where it is. *)
LEMMA QueueTail ==
  ASSUME NEW q \in Seq(Items), q # <<>>, EndsOnce(q)
  PROVE  /\ Head(q) \in Items /\ Tail(q) \in Seq(Items)
         /\ EndsOnce(Tail(q))
         /\ Ended(Tail(q)) => Ended(q)
         /\ Ended(q) /\ Head(q) # End => Ended(Tail(q))
<1>1. /\ Head(q) \in Items /\ Tail(q) \in Seq(Items)
      /\ Len(Tail(q)) = Len(q) - 1
      /\ \A i \in 1..Len(Tail(q)) : Tail(q)[i] = q[i + 1]
  BY HeadTailProperties
<1>2. /\ Len(q) \in Nat /\ Len(q) > 0
      /\ DOMAIN q = 1..Len(q) /\ DOMAIN Tail(q) = 1..(Len(q) - 1)
  BY <1>1, LenProperties, EmptySeq
<1>3. Head(q) = q[1]
  BY <1>2
<1>4. EndsOnce(Tail(q))
  BY <1>1, <1>2 DEF EndsOnce
<1>5. Ended(Tail(q)) => Ended(q)
  BY <1>1, <1>2 DEF Ended, ToSet
<1>6. Ended(q) /\ Head(q) # End => Ended(Tail(q))
  <2> SUFFICES ASSUME Ended(q), Head(q) # End PROVE Ended(Tail(q))
    OBVIOUS
  <2>1. PICK n \in 1..Len(q) : q[n] = End
    BY <1>2 DEF Ended, ToSet
  <2>2. n # 1 /\ n - 1 \in 1..(Len(q) - 1)
    BY <1>2, <1>3, <2>1
  <2>3. Tail(q)[n - 1] = End
    BY <1>1, <1>2, <2>1, <2>2
  <2> QED
    BY <1>2, <2>2, <2>3 DEF Ended, ToSet
<1> QED
  BY <1>1, <1>4, <1>5, <1>6

(* A new submission joins the pending ones. *)
LEMMA SubmissionAdded ==
  ASSUME NEW s \in Seq(Requests), NEW r \in Requests
  PROVE  /\ Append(s, r) \in Seq(Requests)
         /\ ToSet(Append(s, r)) = ToSet(s) \cup {r}
<1>1. /\ Append(s, r) \in Seq(Requests) /\ Len(Append(s, r)) = Len(s) + 1
      /\ \A n \in 1..Len(s) : Append(s, r)[n] = s[n]
      /\ Append(s, r)[Len(s) + 1] = r
  BY AppendProperties
<1>2. DOMAIN s = 1..Len(s) /\ DOMAIN Append(s, r) = 1..(Len(s) + 1) /\ Len(s) \in Nat
  BY <1>1, LenProperties
<1> QED
  BY <1>1, <1>2 DEF ToSet

(* Pending submissions are requests. *)
LEMMA SubmissionsAreRequests ==
  ASSUME NEW s \in Seq(Requests)
  PROVE  ToSet(s) \subseteq Requests
  BY LenProperties, ElementOfSeq DEF ToSet

(* Ending the open queues of S ends those and touches no other. *)
LEMMA ClosingEnds ==
  ASSUME Typed, NEW S, \A r \in Requests : r \in S => ~Ended(queue[r])
  PROVE  /\ Closing(S) \in [Requests -> Seq(Items)]
         /\ \A r \in Requests : r \in S => Ended(Closing(S)[r]) /\ EndsOnce(Closing(S)[r])
         /\ \A r \in Requests : r \notin S => Closing(S)[r] = queue[r]
<1>1. End \in Items
  BY BurstIsItem
<1>2. \A r \in Requests : queue[r] \in Seq(Items)
  BY DEF Typed
<1>3. \A r \in Requests : r \in S =>
        /\ Append(queue[r], End) \in Seq(Items)
        /\ Ended(Append(queue[r], End)) /\ EndsOnce(Append(queue[r], End))
  BY <1>1, <1>2, QueueAppend
<1> QED
  BY <1>2, <1>3 DEF Closing

-----------------------------------------------------------------------------
(* The handlers keep the invariant *)

LEMMA SubmitStep ==
  ASSUME IInv, NEW r \in Requests, Submit(r)
  PROVE  IInv'
<1>1. Typed'
  <2>1. client' \in [Requests -> {"new", "waiting", "done", "failed", "left"}]
    BY DEF IInv, Typed, Submit
  <2>2. submissions' \in Seq(Requests)
    <3>1. submissions \in Seq(Requests)
      BY DEF IInv, Typed
    <3>2. submissions' = submissions \/ submissions' = Append(submissions, r)
      BY DEF Submit
    <3> QED
      BY <3>1, <3>2, SubmissionAdded
  <2>3. UNCHANGED <<queue, streams, fatal, thread, pc, computed, recorded, stash, result>>
    BY DEF Submit, control, engine
  <2> QED
    BY <2>1, <2>2, <2>3 DEF IInv, Typed
<1>2. OneLoop' /\ Abandoned'
  BY DEF IInv, OneLoop, Abandoned, Submit, control, Typed
<1>3. ASSUME NEW s \in Requests PROVE Placed(s)'
  <2>1. CASE s # r
    <3>1. client'[s] = client[s] /\ queue' = queue /\ streams' = streams
      BY <2>1 DEF IInv, Typed, Submit
    <3>2. submissions' = submissions \/ submissions' = Append(submissions, r)
      BY DEF Submit
    <3>3. ToSet(submissions)' \in {ToSet(submissions), ToSet(submissions) \cup {r}}
      BY <3>2, SubmissionAdded DEF IInv, Typed
    <3> QED
      BY <2>1, <3>1, <3>3 DEF IInv, Placed
  <2>2. CASE s = r
    <3>1. /\ queue'[r] = <<>> /\ r \notin streams' /\ client'[r] # "new"
          /\ client'[r] = "waiting" => r \in ToSet(submissions)'
      BY SubmissionAdded DEF IInv, Typed, Placed, Submit
    <3> QED
      BY <2>2, <3>1, EmptyQueue DEF Placed
  <2> QED
    BY <2>1, <2>2
<1> QED
  BY <1>1, <1>2, <1>3 DEF IInv

LEMMA ReceiveStep ==
  ASSUME IInv, NEW r \in Requests, Receive(r)
  PROVE  IInv'
<1> DEFINE q == queue[r]
<1>1. q \in Seq(Items) /\ q # <<>> /\ EndsOnce(q) /\ client[r] = "waiting"
  BY DEF IInv, Typed, Placed, Receive
<1>2. /\ Head(q) \in Items /\ Tail(q) \in Seq(Items) /\ EndsOnce(Tail(q))
      /\ Ended(Tail(q)) => Ended(q)
      /\ Ended(q) /\ Head(q) # End => Ended(Tail(q))
  <2> HIDE DEF q
  <2> QED
    BY <1>1, QueueTail
<1>3. /\ queue' = [queue EXCEPT ![r] = Tail(q)]
      /\ client' = [client EXCEPT ![r] =
           IF ~Head(q).last THEN "waiting"
           ELSE IF Head(q) = End /\ r \in error THEN "failed" ELSE "done"]
      /\ UNCHANGED <<submissions, streams, fatal, thread, pc, computed, recorded, stash, result>>
  BY DEF Receive, control, engine
<1>4. ~Head(q).last => Head(q) # End
  BY DEF End, Burst
<1> HIDE DEF q
<1>5. Typed' /\ OneLoop' /\ Abandoned'
  BY <1>2, <1>3 DEF IInv, Typed, OneLoop, Abandoned
<1>6. ASSUME NEW s \in Requests PROVE Placed(s)'
  <2>1. CASE s # r
    BY <2>1, <1>3 DEF IInv, Typed, Placed
  <2>2. CASE s = r
    <3>1. queue'[r] = Tail(q) /\ client'[r] \in {"waiting", "done", "failed"}
          /\ (client'[r] = "waiting" => Head(q) # End)
      BY <1>3, <1>4 DEF IInv, Typed
    <3> QED
      BY <2>2, <3>1, <1>1, <1>2, <1>3 DEF IInv, Placed, q
  <2> QED
    BY <2>1, <2>2
<1> QED
  BY <1>5, <1>6 DEF IInv

LEMMA DisconnectStep ==
  ASSUME IInv, NEW r \in Requests, Disconnect(r)
  PROVE  IInv'
<1>1. Typed' /\ OneLoop' /\ Abandoned'
  BY DEF IInv, Typed, OneLoop, Abandoned, Disconnect, control, engine
<1>2. \A s \in Requests : Placed(s)'
  BY DEF IInv, Typed, Placed, Disconnect
<1> QED
  BY <1>1, <1>2 DEF IInv

-----------------------------------------------------------------------------
(* Starting, stopping, and the steps of the loop that move no stream *)

(* What the clients see is untouched. *)
LEMMA StreamsUntouched ==
  ASSUME \A r \in Requests : Placed(r), UNCHANGED <<client, queue, submissions, streams>>
  PROVE  \A r \in Requests : Placed(r)'
  BY DEF Placed

LEMMA StartStep ==
  ASSUME IInv, Start
  PROVE  IInv'
<1>1. PICK t \in Threads : pc' = [pc EXCEPT ![t] = "drain"] /\ thread' = t /\ thread = 0
  BY DEF Start
<1>2. 0 \notin Threads
  BY DEF Threads
<1>3. Typed' /\ OneLoop' /\ Abandoned'
  BY <1>1, <1>2 DEF IInv, Typed, States, OneLoop, Abandoned, Start, clients, engine
<1> QED
  BY <1>3, StreamsUntouched DEF IInv, Start, clients

LEMMA StopStep ==
  ASSUME IInv, Stop
  PROVE  IInv'
<1>1. Typed' /\ OneLoop' /\ Abandoned'
  BY DEF IInv, Typed, OneLoop, Abandoned, Stop, clients, engine
<1> QED
  BY <1>1, StreamsUntouched DEF IInv, Stop, clients

LEMMA JoinStep ==
  ASSUME IInv, Join
  PROVE  IInv'
<1>1. Typed' /\ OneLoop' /\ Abandoned'
  BY DEF IInv, Typed, OneLoop, Abandoned, Join, clients, engine
<1> QED
  BY <1>1, StreamsUntouched DEF IInv, Join, clients

(* A thread that goes on without touching a stream. *)
LEMMA LoopGoesOn ==
  ASSUME IInv, NEW t \in Threads, pc[t] \notin {"new", "off"},
         NEW state \in States \ {"new", "failing"}, pc' = [pc EXCEPT ![t] = state],
         UNCHANGED thread
  PROVE  /\ pc' \in [Threads -> States] /\ OneLoop'
         /\ \A s \in Threads : pc'[s] # "failing"
<1>1. \A s \in Threads : s # t => pc[s] \in {"new", "off"}
  BY DEF IInv, OneLoop
<1> QED
  BY <1>1 DEF IInv, Typed, OneLoop

LEMMA ExitStep ==
  ASSUME IInv, NEW t \in Threads, Exit(t)
  PROVE  IInv'
<1>1. pc' \in [Threads -> States] /\ OneLoop' /\ \A s \in Threads : pc'[s] # "failing"
  BY LoopGoesOn DEF Exit, control, States
<1>2. Typed' /\ Abandoned'
  BY <1>1 DEF IInv, Typed, Abandoned, Exit, clients, engine, control
<1> QED
  BY <1>1, <1>2, StreamsUntouched DEF IInv, Exit, clients

LEMMA IdleStep ==
  ASSUME IInv, NEW t \in Threads, Idle(t)
  PROVE  IInv'
<1>1. pc' \in [Threads -> States] /\ OneLoop' /\ \A s \in Threads : pc'[s] # "failing"
  BY LoopGoesOn DEF Idle, control, States
<1>2. Typed' /\ Abandoned'
  BY <1>1 DEF IInv, Typed, Abandoned, Idle, clients, engine, control
<1> QED
  BY <1>1, <1>2, StreamsUntouched DEF IInv, Idle, clients

-----------------------------------------------------------------------------
(* The steps of the loop that move streams *)

LEMMA DrainStep ==
  ASSUME IInv, NEW t \in Threads, DrainSubmissions(t)
  PROVE  IInv'
<1> DEFINE P == ToSet(submissions)
           R == P \cap refused
           A == P \ refused
<1>1. P \subseteq Requests /\ \A r \in Requests : r \in P => ~Ended(queue[r])
  BY SubmissionsAreRequests DEF IInv, Typed, Placed
<1>2. /\ submissions' = <<>> /\ queue' = Closing(R) /\ streams' = streams \cup A
      /\ UNCHANGED <<client, fatal, thread, computed, recorded, stash, result>>
      /\ pc' = [pc EXCEPT ![t] = "aborts"] /\ pc[t] = "drain"
  BY DEF DrainSubmissions, Tracked, clients, control
<1>3. \A r \in Requests : r \in R => ~Ended(queue[r])
  BY <1>1
<1>4. /\ Closing(R) \in [Requests -> Seq(Items)]
      /\ \A r \in Requests : r \in R => Ended(Closing(R)[r]) /\ EndsOnce(Closing(R)[r])
      /\ \A r \in Requests : r \notin R => Closing(R)[r] = queue[r]
  <2> HIDE DEF R
  <2> QED
    BY <1>3, ClosingEnds DEF IInv
<1>5. pc' \in [Threads -> States] /\ OneLoop' /\ \A s \in Threads : pc'[s] # "failing"
  BY <1>2, LoopGoesOn DEF States
<1>6. ToSet(submissions)' = {}
  BY <1>2, EmptyQueue
<1>7. fatal => P = {}
  BY EmptyQueue DEF IInv, Abandoned
<1> HIDE DEF P
<1>8. Typed' /\ Abandoned'
  BY <1>1, <1>2, <1>4, <1>5, <1>7, EmptySeq DEF IInv, Typed, Abandoned
<1>9. ASSUME NEW r \in Requests PROVE Placed(r)'
  <2>1. CASE r \in R
    <3>1. r \in P /\ r \notin A /\ client[r] # "new" /\ r \notin streams
      BY <2>1 DEF IInv, Placed, P
    <3> QED
      BY <2>1, <3>1, <1>2, <1>4, <1>6 DEF Placed
  <2>2. CASE r \in A
    <3>1. r \notin R /\ client[r] # "new" /\ ~Ended(queue[r]) /\ EndsOnce(queue[r])
      BY <2>2, <1>1 DEF IInv, Placed, P
    <3> QED
      BY <2>2, <3>1, <1>2, <1>4, <1>6 DEF Placed
  <2>3. CASE r \notin P
    <3>1. r \notin R /\ r \notin A /\ r \notin ToSet(submissions)
      BY <2>3 DEF P
    <3> QED
      BY <3>1, <1>2, <1>4, <1>6 DEF IInv, Placed
  <2> QED
    BY <2>1, <2>2, <2>3
<1> QED
  BY <1>5, <1>8, <1>9 DEF IInv

(* Streams that are tracked no more have ended; the submissions stand.  *)
LEMMA StreamsEnded ==
  ASSUME IInv, NEW S, S \subseteq streams, queue' = Closing(S), streams' = streams \ S,
         UNCHANGED <<client, submissions>>
  PROVE  /\ queue' \in [Requests -> Seq(Items)]
         /\ \A r \in Requests : Placed(r)'
<1>1. \A r \in Requests : r \in S => ~Ended(queue[r])
  BY DEF IInv, Placed
<1>2. /\ Closing(S) \in [Requests -> Seq(Items)]
      /\ \A r \in Requests : r \in S => Ended(Closing(S)[r]) /\ EndsOnce(Closing(S)[r])
      /\ \A r \in Requests : r \notin S => Closing(S)[r] = queue[r]
  BY <1>1, ClosingEnds DEF IInv
<1>3. ASSUME NEW r \in Requests PROVE Placed(r)'
  <2>1. CASE r \in S
    <3>1. client[r] # "new" /\ r \notin ToSet(submissions)
      BY <2>1 DEF IInv, Placed
    <3> QED
      BY <2>1, <3>1, <1>2 DEF Placed
  <2>2. CASE r \notin S
    BY <2>2, <1>2 DEF IInv, Placed
  <2> QED
    BY <2>1, <2>2
<1> QED
  BY <1>2, <1>3

LEMMA AbortsStep ==
  ASSUME IInv, NEW t \in Threads, ApplyAborts(t)
  PROVE  IInv'
<1> DEFINE gone == streams \cap aborted
<1>1. /\ UNCHANGED <<client, submissions, fatal, thread, computed, result>>
      /\ pc' = [pc EXCEPT ![t] = "check"] /\ pc[t] = "aborts"
  BY DEF ApplyAborts, clients, control, engine
<1>2. pc' \in [Threads -> States] /\ OneLoop' /\ \A s \in Threads : pc'[s] # "failing"
  BY <1>1, LoopGoesOn DEF States
<1>3. CASE gone = {}
  <2>1. UNCHANGED <<queue, streams, recorded, stash>>
    BY <1>3 DEF ApplyAborts, engine
  <2>2. Typed' /\ Abandoned'
    BY <1>1, <1>2, <2>1 DEF IInv, Typed, Abandoned
  <2> QED
    BY <1>1, <1>2, <2>1, <2>2, StreamsUntouched DEF IInv
<1>4. CASE gone # {}
  <2>1. /\ queue' = Closing(gone) /\ streams' = streams \ gone
        /\ stash' = DrainedStash
        /\ recorded' = [r \in Requests |-> IF r \in live THEN computed[r] ELSE recorded[r]]
    BY <1>4 DEF ApplyAborts
  <2>2. DrainedStash \in [Requests -> Nat]
    BY DEF IInv, Typed, DrainedStash
  <2>3. recorded' \in [Requests -> Nat] /\ \A r \in Requests : recorded'[r] <= computed[r]
    BY <2>1 DEF IInv, Typed
  <2>4. queue' \in [Requests -> Seq(Items)] /\ \A r \in Requests : Placed(r)'
    <3>1. gone \subseteq streams
      OBVIOUS
    <3> HIDE DEF gone
    <3> QED
      BY <1>1, <2>1, <3>1, StreamsEnded
  <2>5. Typed' /\ Abandoned'
    BY <1>1, <1>2, <2>1, <2>2, <2>3, <2>4 DEF IInv, Typed, Abandoned
  <2> QED
    BY <1>2, <2>4, <2>5 DEF IInv
<1> QED
  BY <1>3, <1>4

LEMMA StepStep ==
  ASSUME IInv, NEW t \in Threads, Step(t)
  PROVE  IInv'
<1>1. /\ UNCHANGED <<client, queue, submissions, streams, fatal, thread>>
      /\ pc' = [pc EXCEPT ![t] = "dispatch"] /\ pc[t] = "check" /\ stash' = None
  BY DEF Step, clients, control
<1>2. pc' \in [Threads -> States] /\ OneLoop' /\ \A s \in Threads : pc'[s] # "failing"
  BY <1>1, LoopGoesOn DEF States
<1>3. PICK c \in [live -> 0..MaxTokens], n \in [live -> 0..MaxTokens] :
       /\ \A r \in live : recorded[r] <= n[r] /\ n[r] <= c[r]
       /\ computed' = [r \in Requests |-> IF r \in live THEN c[r] ELSE computed[r]]
       /\ recorded' = [r \in Requests |-> IF r \in live THEN n[r] ELSE recorded[r]]
       /\ result' = [result EXCEPT ![t] = [r \in Requests |->
            stash[r] + (IF r \in live THEN n[r] - recorded[r] ELSE 0)]]
  BY DEF Step
<1>4. \A r \in live : c[r] \in Nat /\ n[r] \in Nat
  BY LoopAssumption
<1>5. /\ computed' \in [Requests -> Nat] /\ recorded' \in [Requests -> Nat]
      /\ \A r \in Requests : recorded'[r] <= computed'[r]
  BY <1>3, <1>4 DEF IInv, Typed
<1>6. [r \in Requests |-> stash[r] + (IF r \in live THEN n[r] - recorded[r] ELSE 0)]
        \in [Requests -> Nat]
  BY <1>3, <1>4 DEF IInv, Typed
<1>7. result' \in [Threads -> [Requests -> Nat]] /\ stash' \in [Requests -> Nat]
  BY <1>1, <1>3, <1>6 DEF IInv, Typed, None
<1>8. Typed' /\ Abandoned'
  BY <1>1, <1>2, <1>5, <1>7 DEF IInv, Typed, Abandoned
<1> QED
  BY <1>1, <1>2, <1>8, StreamsUntouched DEF IInv

LEMMA DispatchStep ==
  ASSUME IInv, NEW t \in Threads, Dispatch(t)
  PROVE  IInv'
<1> DEFINE burst == {r \in streams : result[t][r] > 0}
           over == {r \in burst : Finished(r)}
<1>1. /\ UNCHANGED <<client, submissions, fatal, thread, computed, recorded, stash>>
      /\ pc' = [pc EXCEPT ![t] = "drain"] /\ pc[t] = "dispatch"
      /\ streams' = streams \ over /\ result' = [result EXCEPT ![t] = None]
      /\ queue' = [r \in Requests |-> queue[r]
           \o (IF r \in burst THEN <<Burst(result[t][r], r \in over)>> ELSE <<>>)
           \o (IF r \in over THEN <<End>> ELSE <<>>)]
  BY DEF Dispatch, LeftStreams, clients, control, engine
<1>2. pc' \in [Threads -> States] /\ OneLoop' /\ \A s \in Threads : pc'[s] # "failing"
  BY <1>1, LoopGoesOn DEF States
<1>3. ASSUME NEW r \in Requests, r \in burst
      PROVE  LET q == Append(queue[r], Burst(result[t][r], r \in over))
             IN  /\ q \in Seq(Items) /\ ~Ended(q) /\ EndsOnce(q)
                 /\ queue'[r] = IF r \in over THEN Append(q, End) ELSE q
  <2> DEFINE item == Burst(result[t][r], r \in over)
             q == Append(queue[r], item)
  <2>1. queue[r] \in Seq(Items) /\ ~Ended(queue[r]) /\ result[t][r] \in Nat /\ result[t][r] > 0
    BY <1>3 DEF IInv, Typed, Placed
  <2>2. item \in Items /\ item # End /\ End \in Items
    <3> DEFINE last == r \in over
    <3>1. last \in BOOLEAN
      OBVIOUS
    <3> HIDE DEF last
    <3>2. Burst(result[t][r], last) \in Items /\ End \in Items /\ Burst(result[t][r], last) # End
      BY <2>1, <3>1, BurstIsItem
    <3> QED
      BY <3>2 DEF last
  <2>3. queue'[r] = queue[r] \o <<item>> \o (IF r \in over THEN <<End>> ELSE <<>>)
    BY <1>1, <1>3
  <2> HIDE DEF item
  <2>4. q \in Seq(Items) /\ ~Ended(q) /\ EndsOnce(q) /\ queue[r] \o <<item>> = q
    BY <2>1, <2>2, QueueAppend, QueueConcat
  <2> HIDE DEF q
  <2>5. queue'[r] = IF r \in over THEN Append(q, End) ELSE q
    BY <2>2, <2>3, <2>4, QueueConcat
  <2> QED
    BY <2>4, <2>5 DEF q, item
<1>4. ASSUME NEW r \in Requests, r \notin burst
      PROVE  queue'[r] = queue[r]
  <2>1. queue[r] \in Seq(Items) /\ r \notin over
    BY <1>4 DEF IInv, Typed
  <2>2. queue'[r] = queue[r] \o <<>> \o <<>>
    BY <1>1, <1>4, <2>1
  <2> QED
    BY <2>1, <2>2, ConcatEmptySeq
<1>5. ASSUME NEW r \in Requests
      PROVE  /\ queue'[r] \in Seq(Items)
             /\ EndsOnce(queue'[r])
             /\ r \in over => Ended(queue'[r])
             /\ r \notin over => (Ended(queue'[r]) <=> Ended(queue[r]))
  <2>1. CASE r \in burst
    <3>1. PICK q \in Seq(Items) : /\ ~Ended(q) /\ EndsOnce(q)
                                  /\ queue'[r] = IF r \in over THEN Append(q, End) ELSE q
      <4> HIDE DEF burst, over
      <4> QED
        BY <1>3, <2>1
    <3>2. ~Ended(queue[r])
      BY <2>1 DEF IInv, Placed
    <3> HIDE DEF burst, over
    <3> QED
      BY <3>1, <3>2, QueueAppend, BurstIsItem
  <2>2. CASE r \notin burst
    BY <2>2, <1>4 DEF IInv, Typed, Placed
  <2> QED
    BY <2>1, <2>2
<1>6. ASSUME NEW r \in Requests PROVE Placed(r)'
  <2>1. over \subseteq streams
    OBVIOUS
  <2> HIDE DEF burst, over
  <2>2. r \in streams => client[r] # "new"
    BY DEF IInv, Placed
  <2>3. r \notin streams => queue'[r] = queue[r]
    BY <1>4 DEF burst
  <2> QED
    BY <1>1, <1>5, <2>1, <2>2, <2>3 DEF IInv, Placed
<1>7. queue' \in [Requests -> Seq(Items)]
  BY <1>1, <1>5
<1>8. result' \in [Threads -> [Requests -> Nat]]
  BY <1>1 DEF IInv, Typed, None
<1> HIDE DEF burst, over
<1>9. Typed' /\ Abandoned'
  BY <1>1, <1>2, <1>7, <1>8 DEF IInv, Typed, Abandoned
<1> QED
  BY <1>2, <1>6, <1>9 DEF IInv

LEMMA CrashStep ==
  ASSUME IInv, NEW t \in Threads, Crash(t)
  PROVE  IInv'
<1>1. /\ UNCHANGED <<client, submissions, fatal, thread, computed, recorded, result>>
      /\ queue' = Closing(streams) /\ streams' = {} /\ stash' = None
      /\ pc' = [pc EXCEPT ![t] = "failing"] /\ pc[t] = "check"
  BY DEF Crash, clients, control
<1>2. queue' \in [Requests -> Seq(Items)] /\ \A r \in Requests : Placed(r)'
  BY <1>1, StreamsEnded
<1>3. pc' \in [Threads -> States] /\ OneLoop'
  BY <1>1 DEF IInv, Typed, States, OneLoop
<1>4. Typed' /\ Abandoned'
  BY <1>1, <1>2, <1>3 DEF IInv, Typed, Abandoned, None
<1> QED
  BY <1>2, <1>3, <1>4 DEF IInv

LEMMA FailStep ==
  ASSUME IInv, NEW t \in Threads, FailSubmissions(t)
  PROVE  IInv'
<1> DEFINE P == ToSet(submissions)
<1>1. /\ UNCHANGED <<client, streams, thread, computed, recorded, stash, result>>
      /\ fatal' = TRUE /\ queue' = Closing(P) /\ submissions' = <<>>
      /\ pc' = [pc EXCEPT ![t] = "off"] /\ pc[t] = "failing"
  BY DEF FailSubmissions, clients, engine, control
<1>2. \A r \in Requests : r \in P => ~Ended(queue[r])
  BY DEF IInv, Placed
<1>3. /\ Closing(P) \in [Requests -> Seq(Items)]
      /\ \A r \in Requests : r \in P => Ended(Closing(P)[r]) /\ EndsOnce(Closing(P)[r])
      /\ \A r \in Requests : r \notin P => Closing(P)[r] = queue[r]
  <2> HIDE DEF P
  <2> QED
    BY <1>2, ClosingEnds DEF IInv
<1>4. streams = {} /\ ToSet(submissions)' = {}
  BY <1>1, EmptyQueue DEF IInv, Abandoned
<1>5. pc' \in [Threads -> States] /\ OneLoop' /\ \A s \in Threads : pc'[s] # "failing"
  BY <1>1, LoopGoesOn DEF States, control, FailSubmissions
<1>6. Typed' /\ Abandoned'
  BY <1>1, <1>3, <1>4, <1>5, EmptySeq DEF IInv, Typed, Abandoned
<1>7. ASSUME NEW r \in Requests PROVE Placed(r)'
  <2>1. r \in P => client[r] # "new"
    BY DEF IInv, Placed
  <2>2. r \notin P => (client[r] = "waiting" => Ended(queue[r]))
    BY <1>4 DEF IInv, Placed
  <2>3. EndsOnce(queue'[r]) /\ (client[r] = "new" => queue'[r] = <<>>)
    BY <1>1, <1>3, <2>1 DEF IInv, Placed
  <2> QED
    BY <1>1, <1>3, <1>4, <2>1, <2>2, <2>3 DEF Placed
<1> QED
  BY <1>5, <1>6, <1>7 DEF IInv

-----------------------------------------------------------------------------
(* The invariant, and what it says of the clients *)

LEMMA InitEstablishes == Init => IInv
<1> SUFFICES ASSUME Init PROVE IInv
  OBVIOUS
<1>1. Typed
  <2>1. <<>> \in Seq(Items) /\ <<>> \in Seq(Requests)
    BY EmptySeq
  <2>2. None \in [Requests -> Nat]
    BY DEF None
  <2>3. /\ client \in [Requests -> {"new", "waiting", "done", "failed", "left"}]
        /\ queue \in [Requests -> Seq(Items)] /\ submissions \in Seq(Requests)
        /\ streams \subseteq Requests /\ fatal \in BOOLEAN
    BY <2>1 DEF Init
  <2>4. thread \in {0} \cup Threads /\ pc \in [Threads -> States]
    BY DEF Init, States
  <2>5. /\ computed \in [Requests -> Nat] /\ recorded \in [Requests -> Nat]
        /\ \A r \in Requests : recorded[r] <= computed[r]
        /\ stash \in [Requests -> Nat] /\ result \in [Threads -> [Requests -> Nat]]
    BY <2>2 DEF Init
  <2> QED
    BY <2>3, <2>4, <2>5 DEF Typed
<1>2. OneLoop /\ Abandoned
  BY DEF Init, OneLoop, Abandoned
<1>3. \A r \in Requests : Placed(r)
  BY EmptyQueue DEF Init, Placed
<1> QED
  BY <1>1, <1>2, <1>3 DEF IInv

LEMMA NextPreserves == IInv /\ [Next]_vars => IInv'
<1> SUFFICES ASSUME IInv, [Next]_vars PROVE IInv'
  OBVIOUS
<1>1. ASSUME NEW r \in Requests, Submit(r) \/ Receive(r) \/ Disconnect(r) PROVE IInv'
  BY <1>1, SubmitStep, ReceiveStep, DisconnectStep
<1>2. CASE Start \/ Stop \/ Join
  BY <1>2, StartStep, StopStep, JoinStep
<1>3. ASSUME NEW t \in Threads, Loop(t) PROVE IInv'
  BY <1>3, ExitStep, DrainStep, AbortsStep, IdleStep, StepStep, DispatchStep, CrashStep, FailStep
     DEF Loop
<1>4. CASE UNCHANGED vars
  <2>1. UNCHANGED <<client, queue, submissions, streams, fatal, thread, pc,
                    computed, recorded, stash, result>>
    BY <1>4 DEF vars, clients, engine, control
  <2>2. Typed' /\ OneLoop' /\ Abandoned'
    BY <2>1 DEF IInv, Typed, OneLoop, Abandoned
  <2> QED
    BY <2>1, <2>2, StreamsUntouched DEF IInv
<1> QED
  BY <1>1, <1>2, <1>3, <1>4 DEF Next

(* Every reachable state: one loop, and every stream in exactly one place. *)
THEOREM Placement == Spec => []IInv
  BY InitEstablishes, NextPreserves, PTL DEF Spec

(* However submissions, disconnects, failures and restarts interleave, a   *)
(* queue is closed once, and never while its stream is tracked.            *)
THEOREM QueuesClosedOnce == Spec => []ClosedOnce
<1>1. IInv => ClosedOnce
  BY DEF IInv, Placed, EndsOnce, Ended, ClosedOnce
<1> QED
  BY <1>1, Placement, PTL

(* When the loop died, every client that waits has the end of its stream   *)
(* in its queue, also one that submitted while the loop was failing.       *)
THEOREM NobodyHangs == Spec => []FailedNotHung
<1>1. IInv => FailedNotHung
  BY EmptyQueue DEF IInv, Placed, Abandoned, Ended, FailedNotHung
<1> QED
  BY <1>1, Placement, PTL

(* At no time do two threads step the engine.                              *)
THEOREM OneThreadSteps == Spec => [](\A s, t \in Active : s = t)
<1>1. IInv => \A s, t \in Active : s = t
  BY DEF IInv, OneLoop, Active
<1> QED
  BY <1>1, Placement, PTL

-----------------------------------------------------------------------------
(* The tokens in a queue *)

Tokens(q) == [n \in DOMAIN q |-> q[n].tokens]

(* The fold over a queue is the sum over its places. *)
LEMMA TokensAreSum ==
  ASSUME NEW q
  PROVE  TokensIn(q) = SumOver(Tokens(q), DOMAIN q)
<1> DEFINE Folds(it) == it = [s \in SUBSET DOMAIN q |->
             IF s = {} THEN 0 ELSE q[Pick(s)].tokens + it[s \ {Pick(s)}]]
           Sums(it) == Unfolds(it, Tokens(q), DOMAIN q)
<1>1. TokensIn(q) = (CHOOSE it : Folds(it))[DOMAIN q]
  BY DEF TokensIn, FoldSeq, FoldFunction, FoldFunctionOnSet, MapThenFoldSet, Pick
<1>2. SumOver(Tokens(q), DOMAIN q) = (CHOOSE it : Sums(it))[DOMAIN q]
  BY SumUnfolds DEF Partial
<1>3. ASSUME NEW it PROVE Folds(it) <=> Sums(it)
  <2>1. \A s \in SUBSET DOMAIN q : s # {} => Pick(s) \in DOMAIN q
    BY DEF Pick
  <2>2. \A s \in SUBSET DOMAIN q :
          (IF s = {} THEN 0 ELSE q[Pick(s)].tokens + it[s \ {Pick(s)}]) = Adds(it, Tokens(q), s)
    BY <2>1 DEF Adds, Tokens
  <2>3. [s \in SUBSET DOMAIN q |->
           IF s = {} THEN 0 ELSE q[Pick(s)].tokens + it[s \ {Pick(s)}]]
        = [s \in SUBSET DOMAIN q |-> Adds(it, Tokens(q), s)]
    BY <2>2
  <2> QED
    BY <2>3 DEF Unfolds
<1> HIDE DEF Folds, Sums
<1>4. (CHOOSE it : Folds(it)) = (CHOOSE it : Sums(it))
  BY <1>3, Zenon
<1> QED
  BY <1>1, <1>2, <1>4

(* Every item of a queue counts its tokens. *)
LEMMA TokensTyped ==
  ASSUME NEW q \in Seq(Items)
  PROVE  /\ DOMAIN q = 1..Len(q) /\ Len(q) \in Nat /\ IsFiniteSet(DOMAIN q)
         /\ \A n \in DOMAIN q : q[n] \in Items /\ q[n].tokens \in Nat
         /\ \A n \in DOMAIN q : Tokens(q)[n] \in Nat
<1>1. DOMAIN q = 1..Len(q) /\ Len(q) \in Nat /\ \A n \in DOMAIN q : q[n] \in Items
  BY LenProperties, ElementOfSeq
<1>2. IsFiniteSet(1..Len(q))
  BY <1>1, FS_Interval
<1> QED
  BY <1>1, <1>2 DEF Items, Tokens

LEMMA TokensInNat ==
  ASSUME NEW q \in Seq(Items)
  PROVE  TokensIn(q) \in Nat
  BY TokensAreSum, TokensTyped, SumSplits

LEMMA TokensInEmpty == TokensIn(<<>>) = 0
<1>1. DOMAIN <<>> = {}
  OBVIOUS
<1> QED
  BY <1>1, TokensAreSum, SumEmpty

LEMMA TokensAppend ==
  ASSUME NEW q \in Seq(Items), NEW item \in Items
  PROVE  TokensIn(Append(q, item)) = TokensIn(q) + item.tokens
<1> DEFINE p == Append(q, item)
           f == Tokens(p)
           last == Len(q) + 1
<1>1. /\ p \in Seq(Items) /\ Len(p) = last
      /\ \A n \in 1..Len(q) : p[n] = q[n]
      /\ p[last] = item
  BY AppendProperties
<1>2. DOMAIN q = 1..Len(q) /\ Len(q) \in Nat
  BY TokensTyped
<1>3. DOMAIN p = 1..last /\ IsFiniteSet(DOMAIN p) /\ \A n \in DOMAIN p : f[n] \in Nat
  <2> HIDE DEF p
  <2> QED
    BY <1>1, TokensTyped
<1>4. last \in DOMAIN p /\ DOMAIN p \ {last} = DOMAIN q
  BY <1>2, <1>3
<1>5. f[last] = item.tokens /\ \A n \in DOMAIN q : f[n] = Tokens(q)[n]
  BY <1>1, <1>2, <1>3 DEF Tokens
<1>6. TokensIn(p) = SumOver(f, DOMAIN p) /\ TokensIn(q) = SumOver(Tokens(q), DOMAIN q)
  BY TokensAreSum
<1>7. \A n \in DOMAIN q : Tokens(q)[n] \in Nat /\ IsFiniteSet(DOMAIN q)
  BY TokensTyped
<1> HIDE DEF p, f, last
<1>8. SumOver(f, DOMAIN p) = f[last] + SumOver(f, DOMAIN q)
  <2> DEFINE D == DOMAIN p
  <2>1. IsFiniteSet(D) /\ last \in D /\ \A n \in D : f[n] \in Nat
    BY <1>3, <1>4
  <2> HIDE DEF D
  <2>2. SumOver(f, D) = f[last] + SumOver(f, D \ {last})
    BY ONLY <2>1, SumSplits
  <2> QED
    BY <1>4, <2>2 DEF D
<1>9. SumOver(f, DOMAIN q) = SumOver(Tokens(q), DOMAIN q)
  <2> DEFINE g == Tokens(q)  D == DOMAIN q
  <2>1. \A n \in D : g[n] \in Nat /\ f[n] = g[n]
    BY <1>5, <1>7
  <2>2. IsFiniteSet(D)
    BY TokensTyped
  <2> HIDE DEF g, D
  <2>3. SumOver(f, D) = SumOver(g, D)
    BY <2>1, <2>2, SumAgrees
  <2> QED
    BY <2>3 DEF g, D
<1>10. TokensIn(q) \in Nat /\ item.tokens \in Nat
  BY TokensInNat DEF Items
<1> QED
  BY <1>5, <1>6, <1>8, <1>9, <1>10 DEF p

LEMMA TokensTail ==
  ASSUME NEW q \in Seq(Items), q # <<>>
  PROVE  TokensIn(q) = Head(q).tokens + TokensIn(Tail(q))
<1> DEFINE p == Tail(q)
           f == Tokens(q)
           g == Tokens(p)
           k == Len(q) - 1
<1>1. /\ p \in Seq(Items) /\ Len(p) = k
      /\ \A n \in 1..Len(p) : p[n] = q[n + 1]
  BY HeadTailProperties
<1>2. /\ DOMAIN q = 1..Len(q) /\ IsFiniteSet(DOMAIN q)
      /\ \A n \in DOMAIN q : f[n] \in Nat
      /\ Len(q) \in Nat /\ Len(q) > 0
  BY TokensTyped, EmptySeq
<1>3. DOMAIN p = 1..k /\ k \in Nat
  <2> HIDE DEF p
  <2> QED
    BY <1>1, TokensTyped
<1>4. \A n \in 1..k : g[n] = f[n + 1]
  BY <1>1, <1>2, <1>3 DEF Tokens
<1>5. f[1] = Head(q).tokens
  BY <1>2 DEF Tokens
<1>6. TokensIn(q) = SumOver(f, DOMAIN q) /\ TokensIn(p) = SumOver(g, DOMAIN p)
  BY TokensAreSum
<1>7. DOMAIN q = 1..(k + 1) /\ 1 \in DOMAIN q /\ DOMAIN q \ {1} = 2..(k + 1)
  BY <1>2
<1> HIDE DEF p, f, g, k
<1>8. SumOver(f, DOMAIN q) = f[1] + SumOver(f, 2..(k + 1))
  <2> DEFINE D == DOMAIN q
  <2>1. IsFiniteSet(D) /\ (\A n \in D : f[n] \in Nat) /\ 1 \in D
    BY <1>2, <1>7
  <2>2. D \ {1} = 2..(k + 1)
    BY <1>7
  <2> HIDE DEF D
  <2>3. SumOver(f, D) = f[1] + SumOver(f, D \ {1})
    BY <2>1, SumSplits
  <2> QED
    BY <2>2, <2>3 DEF D
<1>9. SumOver(g, 1..k) = SumOver(f, 2..(k + 1))
  BY <1>2, <1>3, <1>4, <1>7, SumShifts
<1> QED
  BY <1>3, <1>5, <1>6, <1>8, <1>9 DEF p

-----------------------------------------------------------------------------
(* The tokens the threads have yet to dispatch *)

OnTheWay(res, r) == MapThenSumSet(LAMBDA t : res[t][r], Threads)

Sent(res, r) == [t \in Threads |-> res[t][r]]

LEMMA ThreadsFinite == IsFiniteSet(Threads)
  BY LoopAssumption, FS_Interval DEF Threads

LEMMA OnTheWayIsSum ==
  ASSUME NEW res, NEW r
  PROVE  OnTheWay(res, r) = SumOver(Sent(res, r), Threads)
<1> DEFINE Here(it) == it = [s \in SUBSET Threads |->
             IF s = {} THEN 0 ELSE res[Pick(s)][r] + it[s \ {Pick(s)}]]
           Sums(it) == Unfolds(it, Sent(res, r), Threads)
<1>1. OnTheWay(res, r) = (CHOOSE it : Here(it))[Threads]
  BY DEF OnTheWay, MapThenSumSet, MapThenFoldSet, Pick
<1>2. SumOver(Sent(res, r), Threads) = (CHOOSE it : Sums(it))[Threads]
  BY SumUnfolds DEF Partial
<1>3. ASSUME NEW it PROVE Here(it) <=> Sums(it)
  <2>1. \A s \in SUBSET Threads : s # {} => Pick(s) \in Threads
    BY DEF Pick
  <2>2. \A s \in SUBSET Threads :
          (IF s = {} THEN 0 ELSE res[Pick(s)][r] + it[s \ {Pick(s)}]) = Adds(it, Sent(res, r), s)
    BY <2>1 DEF Adds, Sent
  <2>3. [s \in SUBSET Threads |->
           IF s = {} THEN 0 ELSE res[Pick(s)][r] + it[s \ {Pick(s)}]]
        = [s \in SUBSET Threads |-> Adds(it, Sent(res, r), s)]
    BY <2>2
  <2> QED
    BY <2>3 DEF Unfolds
<1> HIDE DEF Here, Sums
<1>4. (CHOOSE it : Here(it)) = (CHOOSE it : Sums(it))
  BY <1>3, Zenon
<1> QED
  BY <1>1, <1>2, <1>4

(* What one thread holds is on the way; when all hold nothing, nothing is. *)
LEMMA OnTheWayHolds ==
  ASSUME NEW res \in [Threads -> [Requests -> Nat]], NEW r \in Requests
  PROVE  /\ OnTheWay(res, r) \in Nat
         /\ \A t \in Threads : res[t][r] <= OnTheWay(res, r)
         /\ (\A t \in Threads : res[t][r] = 0) => OnTheWay(res, r) = 0
<1> DEFINE f == Sent(res, r)
<1>1. \A t \in Threads : f[t] = res[t][r] /\ f[t] \in Nat
  BY DEF Sent
<1>2. OnTheWay(res, r) = SumOver(f, Threads)
  BY OnTheWayIsSum
<1> HIDE DEF f
<1>3. SumOver(f, Threads) \in Nat
  BY <1>1, ThreadsFinite, SumSplits
<1>4. ASSUME NEW t \in Threads PROVE f[t] <= SumOver(f, Threads)
  <2>1. SumOver(f, Threads) = f[t] + SumOver(f, Threads \ {t})
    BY <1>1, ThreadsFinite, SumSplits
  <2>2. SumOver(f, Threads \ {t}) \in Nat
    BY <1>1, ThreadsFinite, SumIsNat
  <2> QED
    BY <1>1, <2>1, <2>2
<1>5. (\A t \in Threads : f[t] = 0) => SumOver(f, Threads) = 0
  BY ThreadsFinite, SumOfZeros
<1> QED
  BY <1>1, <1>2, <1>3, <1>4, <1>5

(* One thread's result replaced. *)
LEMMA OnTheWayMoves ==
  ASSUME NEW res \in [Threads -> [Requests -> Nat]], NEW t \in Threads,
         NEW new \in [Requests -> Nat], NEW r \in Requests
  PROVE  OnTheWay([res EXCEPT ![t] = new], r) = OnTheWay(res, r) - res[t][r] + new[r]
<1> DEFINE f == Sent(res, r)
           g == Sent([res EXCEPT ![t] = new], r)
<1>1. \A s \in Threads : f[s] \in Nat
  BY DEF Sent
<1>2. \A s \in Threads \ {t} : g[s] = f[s]
  BY DEF Sent
<1>3. g[t] = new[r] /\ f[t] = res[t][r] /\ g[t] \in Nat
  BY DEF Sent
<1>4. OnTheWay(res, r) = SumOver(f, Threads)
  BY OnTheWayIsSum
<1>5. OnTheWay([res EXCEPT ![t] = new], r) = SumOver(g, Threads)
  BY OnTheWayIsSum
<1> HIDE DEF f, g
<1> QED
  BY <1>1, <1>2, <1>3, <1>4, <1>5, ThreadsFinite, SumMoves

-----------------------------------------------------------------------------
(* How a queue ends *)

(* A queue that owes its client n tokens: the burst that finishes the      *)
(* answer brings the last of them, and the end follows it; a queue that    *)
(* ends without such a burst has failed.                                   *)
Concludes(q, n, failed) ==
  /\ \A i \in DOMAIN q : q[i].last /\ q[i] # End =>
       i = Len(q) - 1 /\ q[Len(q)] = End /\ TokensIn(q) = n
  /\ Ended(q) /\ ~failed => Len(q) >= 2 /\ q[Len(q) - 1].last

Open(q) == \A i \in DOMAIN q : ~q[i].last

LEMMA EndIsItem == End \in Items /\ End.tokens = 0 /\ End.last
  BY DEF End, Burst, Items

LEMMA OpenConcludes ==
  ASSUME NEW q \in Seq(Items), Open(q), NEW n, NEW failed
  PROVE  Concludes(q, n, failed) /\ ~Ended(q)
<1>1. ~Ended(q)
  BY DEF Open, Ended, ToSet, End, Burst
<1> QED
  BY <1>1 DEF Open, Concludes

LEMMA UnendedIsOpen ==
  ASSUME NEW q \in Seq(Items), ~Ended(q), NEW n, NEW failed, Concludes(q, n, failed)
  PROVE  Open(q)
<1>1. \A i \in DOMAIN q : q[i] # End
  BY DEF Ended, ToSet
<1>2. ASSUME NEW i \in DOMAIN q, q[i].last PROVE FALSE
  <2>1. i = Len(q) - 1 /\ q[Len(q)] = End
    BY <1>1, <1>2 DEF Concludes
  <2>2. Len(q) \in DOMAIN q
    BY <2>1, TokensTyped
  <2> QED
    BY <1>1, <2>1, <2>2
<1> QED
  BY <1>2 DEF Open

LEMMA OpenAppends ==
  ASSUME NEW q \in Seq(Items), Open(q), NEW item \in Items
  PROVE  /\ ~item.last => Open(Append(q, item))
         /\ \A n : Concludes(Append(q, End), n, TRUE)
<1>1. DOMAIN q = 1..Len(q) /\ Len(q) \in Nat
  BY TokensTyped
<1>2. ASSUME NEW x \in Items
      PROVE  /\ DOMAIN Append(q, x) = 1..(Len(q) + 1)
             /\ \A i \in 1..Len(q) : Append(q, x)[i] = q[i]
             /\ Append(q, x)[Len(q) + 1] = x
  BY <1>1, AppendProperties, LenProperties
<1>3. ~item.last => Open(Append(q, item))
  BY <1>1, <1>2 DEF Open
<1>4. ASSUME NEW n PROVE Concludes(Append(q, End), n, TRUE)
  <2>1. \A i \in DOMAIN Append(q, End) : Append(q, End)[i].last => Append(q, End)[i] = End
    BY <1>1, <1>2, BurstIsItem DEF Open
  <2> QED
    BY <2>1 DEF Concludes
<1> QED
  BY <1>3, <1>4

LEMMA AnswerConcludes ==
  ASSUME NEW q \in Seq(Items), Open(q), NEW item \in Items, item.last, item # End,
         NEW n \in Int, TokensIn(q) + item.tokens = n, NEW failed
  PROVE  Concludes(Append(Append(q, item), End), n, failed)
<1> DEFINE p == Append(q, item)
           w == Append(p, End)
<1>1. DOMAIN q = 1..Len(q) /\ Len(q) \in Nat
  BY TokensTyped
<1>2. /\ p \in Seq(Items) /\ Len(p) = Len(q) + 1
      /\ \A i \in 1..Len(q) : p[i] = q[i]
      /\ p[Len(q) + 1] = item
  BY AppendProperties
<1>3. TokensIn(p) = n
  BY TokensAppend
<1> HIDE DEF p
<1>4. /\ w \in Seq(Items) /\ Len(w) = Len(q) + 2
      /\ \A i \in 1..(Len(q) + 1) : w[i] = p[i]
      /\ w[Len(q) + 2] = End
  BY <1>1, <1>2, AppendProperties, EndIsItem
<1>5. TokensIn(w) = n
  BY <1>2, <1>3, TokensAppend, TokensInNat, EndIsItem
<1> HIDE DEF w
<1>6. DOMAIN w = 1..(Len(q) + 2)
  BY <1>4, TokensTyped
<1>7. \A i \in 1..Len(q) : ~w[i].last
  BY <1>1, <1>2, <1>4 DEF Open
<1>8. w[Len(q) + 1].last
  BY <1>1, <1>2, <1>4
<1>9. \A i \in DOMAIN w : w[i].last /\ w[i] # End => i = Len(w) - 1
  BY <1>1, <1>4, <1>6, <1>7
<1>10. Len(w) >= 2 /\ w[Len(w) - 1].last /\ w[Len(w)] = End
  BY <1>1, <1>4, <1>8
<1>11. Concludes(w, n, failed)
  BY <1>5, <1>9, <1>10 DEF Concludes
<1> QED
  BY <1>11 DEF p, w

(* An answered queue holds all it owes. *)
LEMMA EndedOwesNothing ==
  ASSUME NEW q \in Seq(Items), Ended(q), EndsOnce(q), NEW n, Concludes(q, n, FALSE)
  PROVE  TokensIn(q) = n
<1>1. DOMAIN q = 1..Len(q) /\ Len(q) \in Nat
  BY TokensTyped
<1>2. Len(q) >= 2 /\ q[Len(q) - 1].last
  BY DEF Concludes
<1>3. Len(q) - 1 \in DOMAIN q /\ q[Len(q) - 1] # End
  BY <1>1, <1>2 DEF EndsOnce
<1> QED
  BY <1>2, <1>3 DEF Concludes

(* The item a client takes brings part of what the queue owes, all of it   *)
(* when it is the last, and nothing when the stream failed.                *)
LEMMA TakenConcludes ==
  ASSUME NEW q \in Seq(Items), q # <<>>, EndsOnce(q), NEW n \in Int, NEW failed,
         Concludes(q, n, failed)
  PROVE  /\ ~Head(q).last => Concludes(Tail(q), n - Head(q).tokens, failed)
         /\ Head(q).last /\ Head(q) # End => Head(q).tokens = n
         /\ Head(q) = End => failed
<1> DEFINE p == Tail(q)
           item == Head(q)
<1>1. DOMAIN q = 1..Len(q) /\ Len(q) \in Nat /\ Len(q) > 0 /\ item = q[1] /\ item \in Items
  BY TokensTyped, EmptySeq
<1>2. /\ p \in Seq(Items) /\ Len(p) = Len(q) - 1
      /\ \A i \in 1..Len(p) : p[i] = q[i + 1]
      /\ Ended(p) => Ended(q)
      /\ EndsOnce(p)
  BY HeadTailProperties, QueueTail
<1>3. TokensIn(q) = item.tokens + TokensIn(p) /\ item.tokens \in Nat
  BY <1>1, TokensTail DEF Items
<1> HIDE DEF p, item
<1>4. DOMAIN p = 1..Len(p) /\ TokensIn(p) \in Nat
  BY <1>2, TokensTyped, TokensInNat
<1>5. ASSUME ~item.last PROVE Concludes(p, n - item.tokens, failed)
  <2>1. ASSUME NEW i \in DOMAIN p, p[i].last, p[i] # End
        PROVE  i = Len(p) - 1 /\ p[Len(p)] = End /\ TokensIn(p) = n - item.tokens
    <3>1. i + 1 \in DOMAIN q /\ q[i + 1] = p[i]
      BY <1>1, <1>2, <1>4
    <3>2. i + 1 = Len(q) - 1 /\ q[Len(q)] = End /\ TokensIn(q) = n
      BY <2>1, <3>1 DEF Concludes
    <3>3. Len(p) \in 1..Len(p) /\ Len(p) + 1 = Len(q)
      BY <1>1, <1>2, <1>4, <3>2
    <3> QED
      BY <1>1, <1>2, <1>3, <1>4, <3>2, <3>3
  <2>2. ASSUME Ended(p), ~failed PROVE Len(p) >= 2 /\ p[Len(p) - 1].last
    <3>1. Len(q) >= 2 /\ q[Len(q) - 1].last
      BY <1>2, <2>2 DEF Concludes
    <3>2. Len(q) - 1 # 1
      BY <1>1, <1>5, <3>1
    <3>3. Len(p) - 1 \in 1..Len(p) /\ (Len(p) - 1) + 1 = Len(q) - 1
      BY <1>1, <1>2, <3>1, <3>2
    <3>4. p[Len(p) - 1] = q[Len(q) - 1]
      BY <1>2, <3>3
    <3> QED
      BY <1>1, <1>2, <3>1, <3>2, <3>4
  <2> QED
    BY <2>1, <2>2 DEF Concludes
<1>6. ASSUME item.last, item # End PROVE item.tokens = n
  <2>1. Len(q) = 2 /\ q[2] = End /\ TokensIn(q) = n
    BY <1>1, <1>6 DEF Concludes
  <2>2. Len(p) = 1
    BY <1>2, <2>1
  <2>3. p[1] = End
    BY <1>2, <2>1, <2>2
  <2>4. p # <<>> /\ Head(p) = End
    BY <1>2, <2>2, <2>3
  <2>5. Tail(p) \in Seq(Items) /\ Len(Tail(p)) = 0
    BY <1>2, <2>2, <2>4, HeadTailProperties
  <2>6. Tail(p) = <<>>
    BY <2>5, EmptySeq
  <2>7. TokensIn(p) = 0 + 0
    BY <1>2, <2>4, <2>6, TokensTail, TokensInEmpty, EndIsItem
  <2> QED
    BY <1>3, <2>1, <2>7
<1>7. ASSUME item = End PROVE failed
  <2>1. 1 \in DOMAIN q /\ q[1] = End
    BY <1>1, <1>7
  <2>2. Ended(q)
    BY <2>1 DEF Ended, ToSet
  <2>3. Len(q) = 1
    BY <2>1 DEF EndsOnce
  <2> QED
    BY <2>2, <2>3 DEF Concludes
<1> QED
  BY <1>5, <1>6, <1>7 DEF p, item

-----------------------------------------------------------------------------
(* Tokens on their way to their clients *)

Known ==
  /\ total \in [Requests -> Nat] /\ got \in [Requests -> Nat]
  /\ \A t \in Threads : pc[t] # "dispatch" => result[t] = None
  /\ \A t \in Threads : pc[t] = "dispatch" => stash = None

(* A stream that the engine has not heard of. *)
Fresh(r) == client[r] = "new" \/ r \in ToSet(submissions)

Listens(r) == client[r] \in {"new", "waiting"} /\ r \notin error

Balanced(r) ==
  recorded[r] = got[r] + TokensIn(queue[r]) + stash[r] + OnTheWay(result, r)

(* While a client listens, what was recorded for it is accounted for; when *)
(* it waits, its queue concludes as it should; when it is done, it has all.*)
Flows(r) ==
  /\ computed[r] <= total[r]
  /\ Fresh(r) => computed[r] = 0 /\ r \notin live
  /\ client[r] = "new" => r \notin error
  /\ r \in aborted => client[r] \notin {"new", "waiting"}
  /\ Listens(r) => Balanced(r)
  /\ client[r] = "waiting" => Concludes(queue[r], total[r] - got[r], r \in error)
  /\ client[r] = "waiting" /\ r \in error => Ended(queue[r])
  /\ client[r] = "done" => got[r] = total[r]

Flow == Known /\ \A r \in Requests : Flows(r)

LEMMA Numbers ==
  ASSUME IInv, Flow, NEW r \in Requests
  PROVE  /\ total[r] \in Nat /\ got[r] \in Nat /\ stash[r] \in Nat
         /\ computed[r] \in Nat /\ recorded[r] \in Nat
         /\ recorded[r] <= computed[r] /\ computed[r] <= total[r]
         /\ queue[r] \in Seq(Items) /\ TokensIn(queue[r]) \in Nat
         /\ OnTheWay(result, r) \in Nat
<1>1. queue[r] \in Seq(Items) /\ result \in [Threads -> [Requests -> Nat]]
  BY DEF IInv, Typed
<1>2. TokensIn(queue[r]) \in Nat /\ OnTheWay(result, r) \in Nat
  BY <1>1, TokensInNat, OnTheWayHolds
<1>3. computed[r] <= total[r]
  BY DEF Flow, Flows
<1> QED
  BY <1>1, <1>2, <1>3 DEF IInv, Typed, Flow, Known

LEMMA NothingLeftOver ==
  ASSUME NEW all \in Nat, NEW had \in Nat, NEW due \in Nat, NEW kept \in Nat, NEW sent \in Nat,
         NEW made \in Nat, made <= all, due = all - had, made = had + due + kept + sent
  PROVE  kept = 0 /\ sent = 0
  OBVIOUS

(* Nothing is on its way to a client that the loop does not track.         *)
LEMMA NothingForUntracked ==
  ASSUME IInv, Flow, NEW r \in Requests, Listens(r), r \notin streams
  PROVE  stash[r] = 0 /\ OnTheWay(result, r) = 0
<1>1. Balanced(r) /\ r \notin error
  BY DEF Flow, Flows, Listens
<1>2. /\ total[r] \in Nat /\ got[r] \in Nat /\ stash[r] \in Nat
      /\ recorded[r] \in Nat /\ recorded[r] <= computed[r] /\ computed[r] <= total[r]
      /\ computed[r] \in Nat
      /\ queue[r] \in Seq(Items) /\ TokensIn(queue[r]) \in Nat
      /\ OnTheWay(result, r) \in Nat
  BY Numbers
<1>3. CASE Fresh(r)
  <2>1. computed[r] = 0
    BY <1>3 DEF Flow, Flows
  <2> QED
    BY <1>1, <1>2, <2>1 DEF Balanced
<1>4. CASE ~Fresh(r)
  <2>1. client[r] = "waiting" /\ Ended(queue[r]) /\ EndsOnce(queue[r])
    BY <1>4 DEF Fresh, Listens, IInv, Placed
  <2>2. Concludes(queue[r], total[r] - got[r], FALSE)
    BY <1>1, <2>1 DEF Flow, Flows, Concludes
  <2>3. TokensIn(queue[r]) = total[r] - got[r]
    BY <1>2, <2>1, <2>2, EndedOwesNothing
  <2>4. recorded[r] = got[r] + TokensIn(queue[r]) + stash[r] + OnTheWay(result, r)
    BY <1>1 DEF Balanced
  <2>5. recorded[r] <= total[r]
    BY <1>2
  <2>6. total[r] - got[r] \in Nat
    BY <1>2, <2>3
  <2> QED
    BY <1>2, <2>3, <2>4, <2>5, <2>6, NothingLeftOver
<1> QED
  BY <1>3, <1>4

(* A client whose tokens did not move. *)
LEMMA FlowKept ==
  ASSUME NEW r \in Requests, Flows(r),
         UNCHANGED <<total[r], got[r], client[r], queue[r], computed[r], recorded[r], stash[r]>>,
         UNCHANGED result,
         r \in error' <=> r \in error, r \in aborted' <=> r \in aborted,
         Fresh(r)' => Fresh(r), r \in live' => r \in live
  PROVE  Flows(r)'
<1>1. Balanced(r)' <=> Balanced(r)
  BY DEF Balanced
<1>2. Listens(r)' <=> Listens(r)
  BY DEF Listens
<1>3. Concludes(queue[r], total[r] - got[r], r \in error)
        <=> Concludes(queue[r], total[r] - got[r], r \in error)'
  BY DEF Concludes
<1> QED
  BY <1>1, <1>2, <1>3 DEF Flows

(* Nobody dispatches while a thread is elsewhere in the loop. *)
LEMMA NobodyDispatches ==
  ASSUME IInv, Known, NEW t \in Threads, pc[t] \notin {"new", "off", "dispatch"}
  PROVE  \A s \in Threads : pc[s] # "dispatch" /\ result[s] = None
<1>1. \A s \in Threads : pc[s] # "dispatch"
  BY DEF IInv, OneLoop
<1> QED
  BY <1>1 DEF Known

LEMMA KnownKept ==
  ASSUME IInv, Known, NEW t \in Threads, pc[t] \notin {"new", "off", "dispatch"},
         NEW state, state # "dispatch", pc' = [pc EXCEPT ![t] = state],
         UNCHANGED <<total, got, result>>
  PROVE  Known'
<1>1. \A s \in Threads : pc[s] # "dispatch" /\ result[s] = None
  BY NobodyDispatches
<1>2. \A s \in Threads : pc'[s] # "dispatch"
  BY <1>1 DEF IInv, Typed
<1> QED
  BY <1>1, <1>2 DEF Known

-----------------------------------------------------------------------------
(* The handlers keep the tokens accounted for *)

LEMMA SubmitFlow ==
  ASSUME IInv, Flow, NEW r \in Requests, Submit(r)
  PROVE  Flow'
<1>1. UNCHANGED <<total, got, queue, aborted, error, live, computed, recorded, stash, pc, result>>
  BY DEF Submit, engine
<1>2. Known'
  BY <1>1 DEF Flow, Known
<1>3. ToSet(submissions)' \in {ToSet(submissions), ToSet(submissions) \cup {r}}
  BY SubmissionAdded DEF Submit, IInv, Typed
<1>4. /\ client[r] = "new" /\ client'[r] \in {"failed", "waiting"}
      /\ \A s \in Requests : s # r => client'[s] = client[s]
  BY DEF Submit, IInv, Typed
<1>5. ASSUME NEW s \in Requests PROVE Flows(s)'
  <2>1. Flows(s)
    BY DEF Flow
  <2>2. CASE s # r
    <3>1. Fresh(s)' => Fresh(s)
      BY <1>3, <1>4, <2>2 DEF Fresh
    <3> QED
      BY <1>1, <1>4, <2>1, <2>2, <3>1, FlowKept
  <2>3. CASE s = r
    <3>1. Fresh(r) /\ Listens(r) /\ queue[r] = <<>>
      BY <1>4, <2>1, <2>3 DEF Fresh, Listens, Flows, IInv, Placed
    <3>2. Balanced(r)'
      BY <1>1, <2>1, <2>3, <3>1 DEF Flows, Balanced
    <3>3. Concludes(queue[r], total[r] - got[r], r \in error)'
      BY <1>1, <3>1, EmptyQueue DEF Concludes
    <3> QED
      BY <1>1, <1>4, <2>1, <2>3, <3>1, <3>2, <3>3 DEF Flows, Listens
  <2> QED
    BY <2>2, <2>3
<1> QED
  BY <1>2, <1>5 DEF Flow

LEMMA ReceiveFlow ==
  ASSUME IInv, Flow, NEW r \in Requests, Receive(r)
  PROVE  Flow'
<1> DEFINE q == queue[r]
           item == Head(q)
           n == total[r] - got[r]
<1>1. /\ UNCHANGED <<total, error, submissions, live, computed, recorded, stash, pc, result>>
      /\ got' = [got EXCEPT ![r] = @ + item.tokens]
      /\ queue' = [queue EXCEPT ![r] = Tail(q)]
      /\ client' = [client EXCEPT ![r] =
           IF ~item.last THEN "waiting"
           ELSE IF item = End /\ r \in error THEN "failed" ELSE "done"]
      /\ aborted' = IF item.last THEN aborted \cup {r} ELSE aborted
      /\ client[r] = "waiting" /\ q # <<>>
  BY DEF Receive, engine
<1>2. /\ total[r] \in Nat /\ got[r] \in Nat /\ q \in Seq(Items) /\ n \in Int
  BY Numbers
<1>3. /\ item \in Items /\ item.tokens \in Nat /\ Tail(q) \in Seq(Items) /\ EndsOnce(q)
      /\ Ended(q) /\ item # End => Ended(Tail(q))
  BY <1>1, <1>2, QueueTail DEF IInv, Placed, Items
<1>4. TokensIn(q) = item.tokens + TokensIn(Tail(q)) /\ TokensIn(Tail(q)) \in Nat
  BY <1>1, <1>2, <1>3, TokensTail, TokensInNat
<1>5. Concludes(q, n, r \in error)
  BY <1>1 DEF Flow, Flows
<1>6. /\ ~item.last => Concludes(Tail(q), n - item.tokens, r \in error)
      /\ item.last /\ item # End => item.tokens = n
      /\ item = End => r \in error
  <2> DEFINE failed == r \in error
  <2> HIDE DEF q, n, failed
  <2>1. Concludes(q, n, failed)
    BY <1>5 DEF failed
  <2>2. /\ ~item.last => Concludes(Tail(q), n - item.tokens, failed)
        /\ item.last /\ item # End => item.tokens = n
        /\ item = End => failed
    BY <1>1, <1>2, <1>3, <2>1, TakenConcludes
  <2> QED
    BY <2>2 DEF failed
<1>7. Known'
  <2>1. got' \in [Requests -> Nat]
    BY <1>1, <1>2, <1>3 DEF Flow, Known
  <2> QED
    BY <1>1, <2>1 DEF Flow, Known
<1>8. /\ got'[r] = got[r] + item.tokens /\ queue'[r] = Tail(q)
      /\ client'[r] = IF ~item.last THEN "waiting"
                      ELSE IF item = End /\ r \in error THEN "failed" ELSE "done"
      /\ \A s \in Requests : s # r => UNCHANGED <<got[s], queue[s], client[s]>>
  BY <1>1 DEF Flow, Known, IInv, Typed
<1>9. ASSUME NEW s \in Requests, s # r PROVE Flows(s)'
  <2>1. Flows(s) /\ UNCHANGED <<got[s], queue[s], client[s]>>
    BY <1>8, <1>9 DEF Flow
  <2>2. Fresh(s)' => Fresh(s)
    BY <1>1, <2>1 DEF Fresh
  <2>3. s \in aborted' <=> s \in aborted
    BY <1>1, <1>9
  <2> HIDE DEF q, item
  <2> QED
    BY <1>1, <2>1, <2>2, <2>3, FlowKept
<1>10. Flows(r)'
  <2>1. Flows(r)
    BY DEF Flow
  <2>2. Fresh(r)' => Fresh(r)
    BY <1>1, <1>8 DEF Fresh
  <2>3. CASE ~item.last
    <3>1. client'[r] = "waiting" /\ item # End /\ (r \in aborted' <=> r \in aborted)
      BY <1>1, <1>8, <2>3 DEF End, Burst
    <3>2. Listens(r)' => Balanced(r)'
      <4>1. Listens(r)' => Listens(r)
        BY <1>1, <3>1 DEF Listens
      <4>2. /\ recorded'[r] = recorded[r] /\ stash'[r] = stash[r]
            /\ OnTheWay(result, r)' = OnTheWay(result, r)
        BY <1>1
      <4>3. stash[r] \in Nat /\ OnTheWay(result, r) \in Nat
        BY Numbers
      <4>4. Listens(r) => Balanced(r)
        BY <2>1 DEF Flows
      <4> HIDE DEF item
      <4> QED
        BY <1>2, <1>3, <1>4, <1>8, <4>1, <4>2, <4>3, <4>4 DEF Balanced
    <3>3. Concludes(queue[r], total[r] - got[r], r \in error)'
      <4>1. total[r] - got'[r] = n - item.tokens
        BY <1>2, <1>3, <1>8
      <4> QED
        BY <1>1, <1>6, <1>8, <2>3, <4>1
    <3>4. r \in error => Ended(queue'[r])
      BY <1>1, <1>3, <1>8, <2>1, <3>1 DEF Flows
    <3> HIDE DEF q, item, n
    <3> QED
      BY <1>1, <2>1, <2>2, <3>1, <3>2, <3>3, <3>4 DEF Flows
  <2>4. CASE item.last
    <3>1. client'[r] \in {"failed", "done"} /\ (item = End => client'[r] = "failed")
      BY <1>6, <1>8, <2>4
    <3>2. client'[r] = "done" => got'[r] = total[r]
      BY <1>2, <1>3, <1>6, <1>8, <2>4, <3>1
    <3> HIDE DEF q, item, n
    <3> QED
      BY <1>1, <2>1, <2>2, <3>1, <3>2 DEF Flows, Listens
  <2> QED
    BY <2>3, <2>4
<1> QED
  BY <1>7, <1>9, <1>10 DEF Flow

LEMMA DisconnectFlow ==
  ASSUME IInv, Flow, NEW r \in Requests, Disconnect(r)
  PROVE  Flow'
<1>1. /\ UNCHANGED <<total, got, queue, error, submissions, live, computed, recorded, stash, pc, result>>
      /\ client' = [client EXCEPT ![r] = "left"] /\ client[r] = "waiting"
      /\ aborted' = aborted \cup {r}
  BY DEF Disconnect, engine
<1>2. Known'
  BY <1>1 DEF Flow, Known
<1>3. client'[r] = "left" /\ \A s \in Requests : s # r => client'[s] = client[s]
  BY <1>1 DEF IInv, Typed
<1>4. ASSUME NEW s \in Requests PROVE Flows(s)'
  <2>1. Flows(s) /\ (Fresh(s)' => Fresh(s))
    BY <1>1, <1>3 DEF Flow, Fresh
  <2>2. CASE s # r
    <3>1. s \in aborted' <=> s \in aborted
      BY <1>1, <2>2
    <3> QED
      BY <1>1, <1>3, <2>1, <2>2, <3>1, FlowKept
  <2>3. CASE s = r
    BY <1>1, <1>3, <2>1, <2>3 DEF Flows, Listens
  <2> QED
    BY <2>2, <2>3
<1> QED
  BY <1>2, <1>4 DEF Flow

-----------------------------------------------------------------------------
(* The loop keeps the tokens accounted for *)

(* A step that moves no token, no submission and no client. *)
LEMMA FlowStands ==
  ASSUME Flow, Known',
         UNCHANGED <<total, got, client, queue, aborted, error, submissions,
                     live, computed, recorded, stash, result>>
  PROVE  Flow'
<1>1. ASSUME NEW r \in Requests PROVE Flows(r)'
  <2>1. Flows(r) /\ (Fresh(r)' => Fresh(r))
    BY DEF Flow, Fresh
  <2> QED
    BY <2>1, FlowKept
<1> QED
  BY <1>1 DEF Flow

LEMMA PauseFlow ==
  ASSUME IInv, Flow, Start \/ Stop \/ Join
  PROVE  Flow'
<1>1. UNCHANGED <<total, got, client, queue, aborted, error, submissions,
                  live, computed, recorded, stash, result>>
  BY DEF Start, Stop, Join, clients, engine
<1>2. CASE Start
  <2>1. PICK t \in Threads : pc' = [pc EXCEPT ![t] = "drain"] /\ pc[t] = "new"
    BY <1>2 DEF Start
  <2>2. Known'
    BY <1>1, <2>1 DEF Flow, Known, IInv, Typed
  <2> QED
    BY <1>1, <2>2, FlowStands
<1>3. CASE Stop \/ Join
  <2>1. Known'
    BY <1>1, <1>3 DEF Stop, Join, Flow, Known
  <2> QED
    BY <1>1, <2>1, FlowStands
<1> QED
  BY <1>2, <1>3

LEMMA RestFlow ==
  ASSUME IInv, Flow, NEW t \in Threads, Exit(t) \/ Idle(t)
  PROVE  Flow'
<1>1. UNCHANGED <<total, got, client, queue, aborted, error, submissions,
                  live, computed, recorded, stash, result>>
  BY DEF Exit, Idle, clients, engine
<1>2. /\ pc[t] \in {"drain", "check"}
      /\ pc' = [pc EXCEPT ![t] = "off"] \/ pc' = [pc EXCEPT ![t] = "drain"]
  BY DEF Exit, Idle
<1>3. Known'
  BY <1>1, <1>2, KnownKept DEF Flow
<1> QED
  BY <1>1, <1>3, FlowStands

(* The end is put into the queue of a stream that failed. *)
LEMMA FailedFlow ==
  ASSUME IInv, Flow, NEW r \in Requests, r \in streams \/ r \in ToSet(submissions),
         UNCHANGED <<total[r], got[r], client[r], computed[r]>>,
         r \in aborted' <=> r \in aborted,
         r \in error', queue'[r] = Append(queue[r], End), r \notin ToSet(submissions)'
  PROVE  Flows(r)'
<1>1. client[r] # "new" /\ ~Ended(queue[r]) /\ queue[r] \in Seq(Items)
  BY DEF IInv, Typed, Placed
<1>2. Flows(r)
  BY DEF Flow
<1>3. ~Fresh(r)' /\ ~Listens(r)'
  BY <1>1 DEF Fresh, Listens
<1>4. ASSUME client[r] = "waiting"
      PROVE  Concludes(queue[r], total[r] - got[r], r \in error)' /\ Ended(queue'[r])
  <2>1. Concludes(queue[r], total[r] - got[r], r \in error)
    BY <1>2, <1>4 DEF Flows
  <2>2. Open(queue[r])
    <3> DEFINE n == total[r] - got[r]
               failed == r \in error
    <3>1. Concludes(queue[r], n, failed)
      BY <2>1
    <3> HIDE DEF n, failed
    <3> QED
      BY <1>1, <3>1, UnendedIsOpen
  <2>3. Concludes(Append(queue[r], End), total[r] - got[r], TRUE)
    BY <1>1, <2>2, OpenAppends, EndIsItem
  <2>4. Ended(Append(queue[r], End))
    BY <1>1, QueueAppend, EndIsItem
  <2> QED
    BY <2>3, <2>4 DEF Concludes
<1> QED
  BY <1>1, <1>2, <1>3, <1>4 DEF Flows

LEMMA DrainFlow ==
  ASSUME IInv, Flow, NEW t \in Threads, DrainSubmissions(t)
  PROVE  Flow'
<1> DEFINE P == ToSet(submissions)
           R == P \cap refused
           A == P \ refused
<1>1. /\ UNCHANGED <<total, got, client, aborted, computed, recorded, stash, result>>
      /\ submissions' = <<>> /\ error' = error \cup R /\ queue' = Closing(R)
      /\ live' = live \cup A
      /\ pc[t] = "drain" /\ pc' = [pc EXCEPT ![t] = "aborts"]
  BY DEF DrainSubmissions, clients
<1>2. Known'
  BY <1>1, KnownKept DEF Flow
<1>3. ToSet(submissions)' = {}
  BY <1>1, EmptyQueue
<1>4. /\ \A r \in Requests : r \in R => queue'[r] = Append(queue[r], End)
      /\ \A r \in Requests : r \notin R => queue'[r] = queue[r]
  BY <1>1 DEF Closing
<1>5. ASSUME NEW r \in Requests PROVE Flows(r)'
  <2>1. CASE r \in R
    <3>1. r \in P
      BY <2>1
    <3> HIDE DEF R
    <3> QED
      BY <1>1, <1>3, <1>4, <2>1, <3>1, FailedFlow
  <2>2. CASE r \in A
    <3>1. r \notin R /\ r \in ToSet(submissions)
      BY <2>2
    <3>2. client[r] # "new" /\ ~Fresh(r)'
      BY <1>1, <1>3, <3>1 DEF IInv, Placed, Fresh
    <3>3. Flows(r) /\ queue'[r] = queue[r] /\ (r \in error' <=> r \in error)
      BY <1>1, <1>4, <3>1 DEF Flow
    <3>4. Balanced(r)' <=> Balanced(r)
      BY <1>1, <3>3 DEF Balanced
    <3>5. Listens(r)' <=> Listens(r)
      BY <1>1, <3>3 DEF Listens
    <3>6. Concludes(queue[r], total[r] - got[r], r \in error)
            => Concludes(queue[r], total[r] - got[r], r \in error)'
      BY <1>1, <3>3 DEF Concludes
    <3> HIDE DEF R
    <3> QED
      BY <1>1, <3>2, <3>3, <3>4, <3>5, <3>6 DEF Flows
  <2>3. CASE r \notin P
    <3>1. r \notin R /\ r \notin A
      BY <2>3
    <3>2. Fresh(r)' => Fresh(r)
      BY <1>1, <1>3 DEF Fresh
    <3>3. Flows(r) /\ (r \in error' <=> r \in error) /\ (r \in live' <=> r \in live)
      BY <1>1, <3>1 DEF Flow
    <3> HIDE DEF R, A
    <3> QED
      BY <1>1, <1>4, <3>1, <3>2, <3>3, FlowKept
  <2> QED
    BY <2>1, <2>2, <2>3
<1> QED
  BY <1>2, <1>5 DEF Flow

LEMMA AbortsFlow ==
  ASSUME IInv, Flow, NEW t \in Threads, ApplyAborts(t)
  PROVE  Flow'
<1> DEFINE gone == streams \cap aborted
<1>1. /\ UNCHANGED <<total, got, client, aborted, error, submissions, computed, result>>
      /\ pc[t] = "aborts" /\ pc' = [pc EXCEPT ![t] = "check"]
  BY DEF ApplyAborts, clients, engine
<1>2. Known'
  BY <1>1, KnownKept DEF Flow
<1>3. CASE gone = {}
  <2>1. UNCHANGED <<queue, live, recorded, stash>>
    BY <1>3 DEF ApplyAborts, engine
  <2> QED
    BY <1>1, <1>2, <2>1, FlowStands
<1>4. CASE gone # {}
  <2>1. /\ queue' = Closing(gone) /\ stash' = DrainedStash /\ live' = Remaining(gone)
        /\ recorded' = [r \in Requests |-> IF r \in live THEN computed[r] ELSE recorded[r]]
    BY <1>4 DEF ApplyAborts
  <2>2. ASSUME NEW r \in Requests PROVE Flows(r)'
    <3>1. Flows(r) /\ (Fresh(r)' <=> Fresh(r)) /\ (Listens(r)' <=> Listens(r))
      BY <1>1 DEF Flow, Fresh, Listens
    <3>2. r \in live' => r \in live
      BY <2>1 DEF Remaining
    <3>3. CASE r \in gone
      <4>1. client[r] \notin {"new", "waiting"}
        BY <3>1, <3>3 DEF Flows
      <4> QED
        BY <1>1, <3>1, <3>2, <4>1 DEF Flows, Listens
    <3>4. CASE r \notin gone
      <4>1. queue'[r] = queue[r]
        BY <2>1, <3>4 DEF Closing
      <4>2. recorded'[r] - stash'[r] = recorded[r] - stash[r]
            /\ recorded'[r] \in Nat /\ stash'[r] \in Nat
        <5>1. /\ stash[r] \in Nat /\ computed[r] \in Nat /\ recorded[r] \in Nat
              /\ recorded[r] <= computed[r]
          BY Numbers
        <5> QED
          BY <2>1, <5>1 DEF DrainedStash
      <4>3. Balanced(r) => Balanced(r)'
        <5>1. /\ got[r] \in Nat /\ stash[r] \in Nat /\ recorded[r] \in Nat
              /\ TokensIn(queue[r]) \in Nat /\ OnTheWay(result, r) \in Nat
          BY Numbers
        <5>2. UNCHANGED <<got[r], queue[r], result>>
          BY <1>1, <4>1
        <5> HIDE DEF gone
        <5> QED
          BY <4>2, <5>1, <5>2 DEF Balanced
      <4>4. Concludes(queue[r], total[r] - got[r], r \in error)
              => Concludes(queue[r], total[r] - got[r], r \in error)'
        BY <1>1, <4>1 DEF Concludes
      <4> HIDE DEF gone
      <4> QED
        BY <1>1, <3>1, <3>2, <4>1, <4>3, <4>4 DEF Flows
    <3> QED
      BY <3>3, <3>4
  <2> QED
    BY <1>2, <2>2 DEF Flow
<1> QED
  BY <1>3, <1>4

LEMMA StepFlow ==
  ASSUME IInv, Flow, NEW t \in Threads, Step(t)
  PROVE  Flow'
<1>1. /\ UNCHANGED <<total, got, client, queue, aborted, error, submissions>>
      /\ pc[t] = "check" /\ pc' = [pc EXCEPT ![t] = "dispatch"] /\ stash' = None
  BY DEF Step, clients
<1>2. PICK c \in [live -> 0..MaxTokens], n \in [live -> 0..MaxTokens] :
       /\ \A r \in live : c[r] <= total[r] /\ recorded[r] <= n[r] /\ n[r] <= c[r]
       /\ computed' = [r \in Requests |-> IF r \in live THEN c[r] ELSE computed[r]]
       /\ recorded' = [r \in Requests |-> IF r \in live THEN n[r] ELSE recorded[r]]
       /\ live' = {r \in live : n[r] < total[r]}
       /\ result' = [result EXCEPT ![t] = [r \in Requests |->
            stash[r] + (IF r \in live THEN n[r] - recorded[r] ELSE 0)]]
  BY DEF Step
<1>3. \A r \in live : c[r] \in Nat /\ n[r] \in Nat
  BY LoopAssumption
<1> DEFINE new == [r \in Requests |-> stash[r] + (IF r \in live THEN n[r] - recorded[r] ELSE 0)]
<1>4. new \in [Requests -> Nat]
  BY <1>2, <1>3 DEF IInv, Typed
<1>5. \A s \in Threads : pc[s] # "dispatch" /\ result[s] = None
  BY <1>1, NobodyDispatches DEF Flow
<1>6. Known'
  <2>1. \A s \in Threads : s # t => pc'[s] = pc[s] /\ result'[s] = result[s]
    BY <1>1, <1>2 DEF IInv, Typed
  <2>2. pc'[t] = "dispatch"
    BY <1>1 DEF IInv, Typed
  <2> QED
    BY <1>1, <1>5, <2>1, <2>2 DEF Flow, Known
<1>7. ASSUME NEW r \in Requests PROVE Flows(r)'
  <2>1. Flows(r) /\ (Fresh(r)' <=> Fresh(r)) /\ (Listens(r)' <=> Listens(r))
    BY <1>1 DEF Flow, Fresh, Listens
  <2>2. /\ total[r] \in Nat /\ got[r] \in Nat /\ stash[r] \in Nat
        /\ computed[r] \in Nat /\ recorded[r] \in Nat /\ computed[r] <= total[r]
        /\ TokensIn(queue[r]) \in Nat /\ OnTheWay(result, r) \in Nat
    BY Numbers
  <2>3. r \in live' => r \in live
    BY <1>2
  <2>4. OnTheWay(result', r) = OnTheWay(result, r) + new[r]
    <3>1. result \in [Threads -> [Requests -> Nat]]
      BY DEF IInv, Typed
    <3>2. OnTheWay([result EXCEPT ![t] = new], r) = OnTheWay(result, r) - result[t][r] + new[r]
      <4> HIDE DEF new
      <4> QED
        BY <1>4, <3>1, OnTheWayMoves
    <3>3. result[t][r] = 0
      BY <1>5 DEF None
    <3>4. new[r] \in Nat
      BY <1>4
    <3> HIDE DEF new
    <3>5. result' = [result EXCEPT ![t] = new]
      BY <1>2 DEF new
    <3> QED
      BY <2>2, <3>2, <3>3, <3>4, <3>5
  <2>5. /\ computed'[r] <= total[r]
        /\ Fresh(r) => computed'[r] = computed[r]
    BY <1>2, <1>3, <2>1, <2>2 DEF Flows
  <2>6. recorded'[r] = recorded[r] + new[r] - stash[r] /\ stash'[r] = 0
    BY <1>1, <1>2, <1>3, <2>2 DEF None
  <2>7. Balanced(r) => Balanced(r)'
    <3>1. new[r] \in Nat
      BY <1>4
    <3>2. UNCHANGED <<got[r], queue[r]>>
      BY <1>1
    <3> HIDE DEF new
    <3> QED
      BY <2>2, <2>4, <2>6, <3>1, <3>2 DEF Balanced
  <2>8. Concludes(queue[r], total[r] - got[r], r \in error)
          => Concludes(queue[r], total[r] - got[r], r \in error)'
    BY <1>1 DEF Concludes
  <2> HIDE DEF new
  <2> QED
    BY <1>1, <2>1, <2>3, <2>5, <2>7, <2>8 DEF Flows
<1> QED
  BY <1>6, <1>7 DEF Flow

LEMMA DispatchFlow ==
  ASSUME IInv, Flow, NEW t \in Threads, Dispatch(t)
  PROVE  Flow'
<1> DEFINE burst == {r \in streams : result[t][r] > 0}
           over == {r \in burst : Finished(r)}
           Item(r) == Burst(result[t][r], r \in over)
<1>1. /\ UNCHANGED <<total, got, client, aborted, error, submissions, live, computed, recorded, stash>>
      /\ pc[t] = "dispatch" /\ pc' = [pc EXCEPT ![t] = "drain"]
      /\ result' = [result EXCEPT ![t] = None]
      /\ queue' = [r \in Requests |-> queue[r]
           \o (IF r \in burst THEN <<Item(r)>> ELSE <<>>)
           \o (IF r \in over THEN <<End>> ELSE <<>>)]
  BY DEF Dispatch, clients, engine
<1>2. stash = None
  BY <1>1 DEF Flow, Known
<1>3. Known' /\ \A s \in Threads : result'[s] = None
  <2>1. \A s \in Threads : s # t => pc[s] # "dispatch"
    BY <1>1 DEF IInv, OneLoop
  <2>2. \A s \in Threads : pc'[s] # "dispatch"
    BY <1>1, <2>1 DEF IInv, Typed
  <2>3. \A s \in Threads : result'[s] = None
    BY <1>1, <2>1 DEF Flow, Known, IInv, Typed
  <2> QED
    BY <1>1, <2>2, <2>3 DEF Flow, Known
<1>4. ASSUME NEW r \in Requests
      PROVE  OnTheWay(result', r) = 0 /\ stash[r] = 0 /\ OnTheWay(result, r) = result[t][r]
  <2>1. result \in [Threads -> [Requests -> Nat]] /\ None \in [Requests -> Nat] /\ None[r] = 0
    BY DEF IInv, Typed, None
  <2>2. OnTheWay(result', r) = OnTheWay(result, r) - result[t][r] + None[r]
    BY <1>1, <2>1, OnTheWayMoves
  <2>3. result' \in [Threads -> [Requests -> Nat]]
    BY <1>1, <2>1
  <2>4. \A s \in Threads : result'[s][r] = 0
    BY <1>3, <2>1
  <2>5. OnTheWay(result', r) = 0
    BY <2>3, <2>4, OnTheWayHolds
  <2>6. OnTheWay(result, r) \in Nat /\ result[t][r] \in Nat
    BY <2>1, OnTheWayHolds
  <2>7. stash[r] = 0
    BY <1>2, <2>1
  <2>8. 0 = OnTheWay(result, r) - result[t][r] + 0
    BY <2>1, <2>2, <2>5
  <2> HIDE DEF burst, over
  <2>9. OnTheWay(result, r) = result[t][r]
    BY <2>6, <2>8
  <2> QED
    BY <2>5, <2>7, <2>9
<1> HIDE DEF Item
<1>5. ASSUME NEW r \in Requests, r \notin burst PROVE Flows(r)'
  <2>1. Flows(r) /\ (Fresh(r)' <=> Fresh(r)) /\ (Listens(r)' <=> Listens(r))
    BY <1>1 DEF Flow, Fresh, Listens
  <2>2. queue'[r] = queue[r]
    <3>1. queue'[r] = queue[r] \o <<>> \o <<>> /\ queue[r] \in Seq(Items)
      BY <1>1, <1>5 DEF IInv, Typed
    <3> QED
      BY <3>1, ConcatEmptySeq
  <2>3. Listens(r) => Balanced(r)'
    <3>1. SUFFICES ASSUME Listens(r) PROVE Balanced(r)'
      OBVIOUS
    <3>2. OnTheWay(result, r) = 0
      <4>1. r \notin streams => OnTheWay(result, r) = 0
        BY <3>1, NothingForUntracked
      <4>2. r \in streams => ~(result[t][r] > 0)
        BY <1>5
      <4>3. result[t][r] \in Nat
        BY DEF IInv, Typed
      <4> QED
        BY <1>4, <4>1, <4>2, <4>3
    <3>3. recorded[r] = got[r] + TokensIn(queue[r]) + stash[r] + OnTheWay(result, r)
      BY <2>1, <3>1 DEF Flows, Balanced
    <3>4. OnTheWay(result', r) = OnTheWay(result, r)
      BY <1>4, <3>2
    <3>5. UNCHANGED <<recorded[r], got[r], stash[r], queue[r]>>
      BY <1>1, <2>2
    <3> HIDE DEF burst, over
    <3> QED
      BY <3>3, <3>4, <3>5 DEF Balanced
  <2>4. Concludes(queue[r], total[r] - got[r], r \in error)
          => Concludes(queue[r], total[r] - got[r], r \in error)'
    BY <1>1, <2>2 DEF Concludes
  <2> HIDE DEF burst, over
  <2> QED
    BY <1>1, <2>1, <2>2, <2>3, <2>4 DEF Flows
<1>6. ASSUME NEW r \in Requests, r \in burst PROVE Flows(r)'
  <2>1. Flows(r) /\ (Fresh(r)' <=> Fresh(r)) /\ (Listens(r)' <=> Listens(r))
    BY <1>1 DEF Flow, Fresh, Listens
  <2>2. r \in streams /\ result[t][r] > 0 /\ result[t][r] \in Nat
    BY <1>6 DEF IInv, Typed
  <2>3. queue[r] \in Seq(Items) /\ ~Ended(queue[r]) /\ client[r] # "new"
    BY <2>2 DEF IInv, Typed, Placed
  <2>4. /\ Item(r) \in Items /\ Item(r) # End
        /\ Item(r).tokens = result[t][r] /\ Item(r).last = (r \in over)
    <3> DEFINE last == r \in over
    <3>1. last \in BOOLEAN
      OBVIOUS
    <3> HIDE DEF last
    <3>2. LET item == Burst(result[t][r], last)
          IN  item \in Items /\ item # End /\ item.tokens = result[t][r] /\ item.last = last
      BY <2>2, <3>1, BurstIsItem DEF Burst
    <3> QED
      BY <3>2 DEF last, Item
  <2> DEFINE q == Append(queue[r], Item(r))
  <2>5. queue[r] \o <<Item(r)>> = q /\ q \in Seq(Items)
    BY <2>3, <2>4, QueueConcat, QueueAppend
  <2>6. TokensIn(q) = TokensIn(queue[r]) + result[t][r] /\ TokensIn(q) \in Nat
    BY <2>3, <2>4, <2>5, TokensAppend, TokensInNat
  <2>7. queue'[r] = q \o (IF r \in over THEN <<End>> ELSE <<>>)
    BY <1>1, <1>6, <2>5
  <2> HIDE DEF q
  <2>8. queue'[r] = IF r \in over THEN Append(q, End) ELSE q
    BY <2>5, <2>7, QueueConcat, EndIsItem
  <2>9. TokensIn(queue'[r]) = TokensIn(q)
    <3>1. TokensIn(Append(q, End)) = TokensIn(q)
      BY <2>5, <2>6, TokensAppend, EndIsItem
    <3> QED
      BY <2>8, <3>1
  <2>10. Balanced(r) => Balanced(r)' /\ recorded[r] = got[r] + TokensIn(q)
    <3>1. SUFFICES ASSUME Balanced(r) PROVE Balanced(r)' /\ recorded[r] = got[r] + TokensIn(q)
      OBVIOUS
    <3>2. /\ recorded[r] = got[r] + TokensIn(queue[r]) + stash[r] + OnTheWay(result, r)
      BY <3>1 DEF Balanced
    <3>3. /\ recorded[r] \in Nat /\ got[r] \in Nat /\ TokensIn(queue[r]) \in Nat
      BY Numbers
    <3>4. recorded[r] = got[r] + TokensIn(q)
      BY <1>4, <2>2, <2>6, <3>2, <3>3
    <3>5. UNCHANGED <<recorded[r], got[r], stash[r]>>
      BY <1>1
    <3>6. recorded[r] = got[r] + TokensIn(queue'[r]) + stash[r] + OnTheWay(result', r)
      BY <1>4, <2>6, <2>9, <3>3, <3>4
    <3> HIDE DEF burst, over
    <3> QED
      BY <3>4, <3>5, <3>6 DEF Balanced
  <2>11. client[r] = "waiting" => r \notin error
    BY <2>1, <2>3 DEF Flows
  <2>12. client[r] = "waiting" => Concludes(queue'[r], total[r] - got[r], r \in error)
    <3> DEFINE n == total[r] - got[r]
               failed == r \in error
    <3>1. SUFFICES ASSUME client[r] = "waiting" PROVE Concludes(queue'[r], n, failed)
      OBVIOUS
    <3>2. Concludes(queue[r], n, failed)
      BY <2>1, <3>1 DEF Flows
    <3>3. recorded[r] = got[r] + TokensIn(q)
      BY <2>1, <2>10, <2>11, <3>1 DEF Flows, Listens
    <3>4. n \in Int /\ (r \in over => TokensIn(queue[r]) + Item(r).tokens = n)
      <4>1. r \in over => recorded[r] = total[r]
        BY DEF Finished
      <4>2. total[r] \in Nat /\ got[r] \in Nat /\ TokensIn(queue[r]) \in Nat
        BY Numbers
      <4> HIDE DEF burst, over
      <4> QED
        BY <2>2, <2>4, <2>6, <3>3, <4>1, <4>2
    <3> HIDE DEF burst, over, n, failed
    <3>5. Open(queue[r])
      BY <2>3, <3>2, UnendedIsOpen
    <3>6. CASE r \in over
      <4>1. Item(r).last
        BY <2>4, <3>6
      <4>2. Concludes(Append(Append(queue[r], Item(r)), End), n, failed)
        BY <2>3, <2>4, <3>4, <3>5, <3>6, <4>1, AnswerConcludes
      <4> QED
        BY <2>8, <3>6, <4>2 DEF q
    <3>7. CASE r \notin over
      <4>1. Open(q)
        BY <2>3, <2>4, <3>5, <3>7, OpenAppends DEF q
      <4> QED
        BY <2>5, <2>8, <3>7, <4>1, OpenConcludes
    <3> QED
      BY <3>6, <3>7
  <2>13. Concludes(queue'[r], total[r] - got[r], r \in error)
           => Concludes(queue[r], total[r] - got[r], r \in error)'
    BY <1>1 DEF Concludes
  <2> HIDE DEF burst, over
  <2> QED
    BY <1>1, <2>1, <2>3, <2>10, <2>11, <2>12, <2>13 DEF Flows
<1> QED
  BY <1>3, <1>5, <1>6 DEF Flow

LEMMA CrashFlow ==
  ASSUME IInv, Flow, NEW t \in Threads, Crash(t)
  PROVE  Flow'
<1>1. /\ UNCHANGED <<total, got, client, aborted, submissions, live, computed, recorded, result>>
      /\ error' = error \cup streams /\ queue' = Closing(streams) /\ stash' = None
      /\ pc[t] = "check" /\ pc' = [pc EXCEPT ![t] = "failing"]
  BY DEF Crash, clients
<1>2. Known'
  BY <1>1, KnownKept DEF Flow
<1>3. ASSUME NEW r \in Requests, r \in streams PROVE Flows(r)'
  <2>1. queue'[r] = Append(queue[r], End) /\ r \notin ToSet(submissions)'
    BY <1>1, <1>3 DEF Closing, IInv, Placed
  <2> QED
    BY <1>1, <1>3, <2>1, FailedFlow
<1>4. ASSUME NEW r \in Requests, r \notin streams PROVE Flows(r)'
  <2>1. queue'[r] = queue[r] /\ (r \in error' <=> r \in error) /\ stash'[r] = 0
    BY <1>1, <1>4 DEF Closing, None
  <2>2. Flows(r) /\ (Fresh(r)' <=> Fresh(r)) /\ (Listens(r)' <=> Listens(r))
    BY <1>1, <2>1 DEF Flow, Fresh, Listens
  <2>3. Listens(r) => Balanced(r)'
    <3>1. SUFFICES ASSUME Listens(r) PROVE Balanced(r)'
      OBVIOUS
    <3>2. stash[r] = 0
      BY <1>4, <3>1, NothingForUntracked
    <3>3. Balanced(r) /\ UNCHANGED <<recorded[r], got[r], queue[r], result>>
      BY <1>1, <2>1, <2>2, <3>1 DEF Flows
    <3> QED
      BY <2>1, <3>2, <3>3 DEF Balanced
  <2>4. Concludes(queue[r], total[r] - got[r], r \in error)
          => Concludes(queue[r], total[r] - got[r], r \in error)'
    BY <1>1, <2>1 DEF Concludes
  <2> QED
    BY <1>1, <2>1, <2>2, <2>3, <2>4 DEF Flows
<1> QED
  BY <1>2, <1>3, <1>4 DEF Flow

LEMMA FailFlow ==
  ASSUME IInv, Flow, NEW t \in Threads, FailSubmissions(t)
  PROVE  Flow'
<1> DEFINE P == ToSet(submissions)
<1>1. /\ UNCHANGED <<total, got, client, aborted, live, computed, recorded, stash, result>>
      /\ error' = error \cup P /\ queue' = Closing(P) /\ submissions' = <<>>
      /\ pc[t] = "failing" /\ pc' = [pc EXCEPT ![t] = "off"]
  BY DEF FailSubmissions, clients, engine
<1>2. Known'
  BY <1>1, KnownKept DEF Flow
<1>3. ToSet(submissions)' = {}
  BY <1>1, EmptyQueue
<1>4. ASSUME NEW r \in Requests, r \in P PROVE Flows(r)'
  <2>1. queue'[r] = Append(queue[r], End) /\ r \in error'
    BY <1>1, <1>4 DEF Closing
  <2> QED
    BY <1>1, <1>3, <1>4, <2>1, FailedFlow
<1>5. ASSUME NEW r \in Requests, r \notin P PROVE Flows(r)'
  <2>1. queue'[r] = queue[r] /\ (r \in error' <=> r \in error) /\ Flows(r)
    BY <1>1, <1>5 DEF Closing, Flow
  <2>2. Fresh(r)' => Fresh(r)
    BY <1>1, <1>3 DEF Fresh
  <2> HIDE DEF P
  <2> QED
    BY <1>1, <2>1, <2>2, FlowKept
<1> QED
  BY <1>2, <1>4, <1>5 DEF Flow

-----------------------------------------------------------------------------
(* Every token has its place *)

LEMMA InitFlow == Init => Flow
<1> SUFFICES ASSUME Init PROVE Flow
  OBVIOUS
<1>1. IInv
  BY InitEstablishes
<1>2. Known
  BY LoopAssumption DEF Init, Known, None
<1>3. ASSUME NEW r \in Requests PROVE Flows(r)
  <2>1. /\ client[r] = "new" /\ r \notin error /\ r \notin aborted /\ r \notin live
        /\ computed[r] = 0 /\ recorded[r] = 0 /\ got[r] = 0 /\ stash[r] = 0
        /\ queue[r] = <<>> /\ total[r] >= 0
    BY LoopAssumption DEF Init, None
  <2>2. OnTheWay(result, r) = 0
    <3>1. result \in [Threads -> [Requests -> Nat]]
      BY <1>1 DEF IInv, Typed
    <3>2. \A t \in Threads : result[t][r] = 0
      BY DEF Init, None
    <3> QED
      BY <3>1, <3>2, OnTheWayHolds
  <2>3. Balanced(r)
    BY <2>1, <2>2, TokensInEmpty DEF Balanced
  <2> QED
    BY <2>1, <2>3 DEF Flows
<1> QED
  BY <1>2, <1>3 DEF Flow

LEMMA NextKeepsFlow == IInv /\ Flow /\ [Next]_vars => Flow'
<1> SUFFICES ASSUME IInv, Flow, [Next]_vars PROVE Flow'
  OBVIOUS
<1>1. ASSUME NEW r \in Requests, Submit(r) \/ Receive(r) \/ Disconnect(r) PROVE Flow'
  BY <1>1, SubmitFlow, ReceiveFlow, DisconnectFlow
<1>2. CASE Start \/ Stop \/ Join
  BY <1>2, PauseFlow
<1>3. ASSUME NEW t \in Threads, Loop(t) PROVE Flow'
  BY <1>3, RestFlow, DrainFlow, AbortsFlow, StepFlow, DispatchFlow, CrashFlow, FailFlow
     DEF Loop
<1>4. CASE UNCHANGED vars
  <2>1. UNCHANGED <<total, got, client, queue, aborted, error, submissions,
                    live, computed, recorded, stash, result, pc>>
    BY <1>4 DEF vars, clients, engine, control
  <2>2. Known'
    BY <2>1 DEF Flow, Known
  <2> QED
    BY <2>1, <2>2, FlowStands
<1> QED
  BY <1>1, <1>2, <1>3, <1>4 DEF Next

LEMMA TokensPlaced == Spec => []Flow
<1>1. IInv /\ IInv' /\ Flow /\ [Next]_vars => Flow'
  BY NextKeepsFlow
<1> QED
  BY <1>1, Placement, InitFlow, PTL DEF Spec

(* Whatever the engine recorded for a client that still listens is with    *)
(* the client, in its queue, in a burst a thread is about to dispatch, or  *)
(* in the stash of an abort's drain, and counted once, however submissions,*)
(* aborts, crashes and restarts interleave.                                *)
THEOREM RecordedTokensArrive == Spec => []NothingLost
<1>1. Flow => NothingLost
  BY DEF Flow, Flows, Listens, Balanced, OnTheWay, NothingLost
<1> QED
  BY <1>1, TokensPlaced, PTL

(* A handler that returns normally has yielded its whole answer: no abort, *)
(* restart or failure of another stream cuts it short.                     *)
THEOREM AnswersAreWhole == Spec => []WholeAnswers
<1>1. Flow => WholeAnswers
  BY DEF Flow, Flows, WholeAnswers
<1> QED
  BY <1>1, TokensPlaced, PTL
=============================================================================
