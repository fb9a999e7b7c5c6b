--------------------------- MODULE MCDecodeWindow ---------------------------
(* Small batches: answers that end at the cap, at an early token, or that  *)
(* are one token long; windows shorter than the longest answer.            *)
EXTENDS DecodeWindow

CONSTANTS r1, r2, r3

CappedOrEarly ==
  {[prompt |-> 1, new |-> 4, eos |-> 0], [prompt |-> 1, new |-> 4, eos |-> 2],
   [prompt |-> 2, new |-> 5, eos |-> 3]}

Early == {[prompt |-> 1, new |-> 6, eos |-> 2]}
=============================================================================
