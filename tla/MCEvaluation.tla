---------------------------- MODULE MCEvaluation ----------------------------
EXTENDS Evaluation

Greedy(s, n)  == [signature |-> s, greedy |-> TRUE, length |-> n]
Drawn(s, n)   == [signature |-> s, greedy |-> FALSE, length |-> n]

Numerics == {<<"same", "same", "same">>, <<"same", "off", "same">>, <<"same", "tie", "off">>, <<"tie", "off", "same">>}

Base == [surface |-> "network", workload |-> <<Drawn("s", 2), Drawn("s", 2)>>, barrier |-> FALSE,
         warmups |-> 0, measured |-> 1, width |-> 3, numerics |-> <<"same", "off", "same">>,
         faults |-> 0, lost |-> {}]

Pair   == <<Drawn("s", 2), Drawn("s", 2)>>
Mixed  == <<Greedy("g", 3), Drawn("s", 2)>>
Trio   == <<Drawn("s", 3), Greedy("g", 1), Drawn("s", 3)>>

MCSettings ==
  {[Base EXCEPT !.workload = w, !.numerics = n, !.barrier = b, !.warmups = 1, !.measured = m, !.faults = f] :
     w \in {Pair, Mixed}, n \in Numerics, b \in BOOLEAN, m \in {1, 2}, f \in {0, 1}} \cup
  {[Base EXCEPT !.surface = s, !.workload = w, !.numerics = n, !.faults = f] :
     s \in {"engine", "asgi"}, w \in {Pair, Mixed, Trio}, n \in Numerics, f \in {0, 1}} \cup
  {[Base EXCEPT !.surface = "external", !.workload = Pair, !.warmups = n, !.width = w, !.lost = l] :
     n \in {0, 1}, w \in {1, 2}, l \in SUBSET {"before", "after"}}

MCBuckets == <<2, 4>>
=============================================================================
