---------------------------- MODULE GreedyDecode ----------------------------
(***************************************************************************)
(* What a client is promised, whatever the engine does behind it: the      *)
(* tokens of greedy_decode, the reference loop without batching or cache,  *)
(* in order and up to the first end-of-sequence token or the cap.          *)
(*                                                                         *)
(* The forward pass is deterministic, so the n-th token of a request is    *)
(* named by its index n.                                                   *)
(***************************************************************************)
EXTENDS Integers, Sequences

CONSTANT Requests

VARIABLES
  shape,     \* [prompt, new, eos]: prompt length, cap, index of the first EOS (0: none)
  asked,     \* requests accepted
  produced,  \* tokens produced so far, per request
  gone       \* requests whose client gave up

vars == <<shape, asked, produced, gone>>

Stop(s) == IF s.eos \in 1..s.new THEN s.eos ELSE s.new

Answer(r) == [n \in 1..Stop(shape[r]) |-> n]

Init ==
  /\ shape \in [Requests -> [prompt : Nat \ {0}, new : Nat \ {0}, eos : Nat]]
  /\ asked = {} /\ gone = {}
  /\ produced = [r \in Requests |-> <<>>]

Ask(r) ==
  /\ r \notin asked
  /\ asked' = asked \cup {r}
  /\ UNCHANGED <<shape, produced, gone>>

(* Some iterations of the loops of the requests in S, at least one each.   *)
Iterate(S) ==
  /\ S \subseteq asked \ gone
  /\ \A q \in S : Len(produced[q]) < Stop(shape[q])
  /\ \E more \in [S -> UNION {1..Stop(shape[q]) : q \in S}] :
       /\ \A q \in S : Len(produced[q]) < more[q] /\ more[q] <= Stop(shape[q])
       /\ produced' = [q \in Requests |->
            IF q \in S THEN SubSeq(Answer(q), 1, more[q]) ELSE produced[q]]

Produce(r) ==
  /\ \E S \in SUBSET (asked \ gone) : r \in S /\ Iterate(S)
  /\ UNCHANGED <<shape, asked, gone>>

\* A client gives up; what was under way for it, and for others, may still be produced.
GiveUp(r) ==
  /\ r \in asked \ gone
  /\ gone' = gone \cup {r}
  /\ \E S \in SUBSET (asked \ gone) : Iterate(S)
  /\ UNCHANGED <<shape, asked>>

Next == \E r \in Requests : Ask(r) \/ Produce(r) \/ GiveUp(r)

(* The loop of a request that nobody gave up on runs to its end.           *)
Spec == Init /\ [][Next]_vars /\ \A r \in Requests : WF_vars(Produce(r))
=============================================================================
