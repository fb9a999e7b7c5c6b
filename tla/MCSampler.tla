----------------------------- MODULE MCSampler -----------------------------
EXTENDS Sampler

CONSTANTS a, b

Row(x, y, z) == [t \in Vocab |-> IF t = 0 THEN x ELSE IF t = 1 THEN y ELSE z]
\* Rows with a tie, a clear favourite and a late stop token (2).
Scored == [r \in {a, b} |->
  [n \in 0..4 |-> IF r = a THEN <<Row(2, 2, 1), Row(1, 3, 2), Row(3, 3, 3), Row(0, 1, 3), Row(2, 1, 0)>>[n + 1]
                  ELSE <<Row(3, 1, 0), Row(2, 3, 3), Row(1, 2, 3), Row(3, 0, 2), Row(1, 1, 1)>>[n + 1]]]
Draws == [r \in {a, b} |-> [n \in 0..8 |-> IF r = a THEN (3 * n + 1) % 8 ELSE (5 * n + 6) % 8]]
Prompts == [r \in {a, b} |-> IF r = a THEN <<0, 1, 0, 1>> ELSE <<1, 1, 0>>]

Default == [greedy |-> FALSE, heat |-> 1, topK |-> 0, topP |-> 100, presence |-> 0, frequency |-> 0]
Configured == {[Default EXCEPT !.greedy = TRUE], Default, [Default EXCEPT !.topK = 2, !.topP = 60],
               [Default EXCEPT !.topP = 75], [Default EXCEPT !.topK = 1],
               [Default EXCEPT !.heat = 2, !.presence = 1, !.frequency = 1]}
=============================================================================
