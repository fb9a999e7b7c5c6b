--------------------------- MODULE MCAsyncEngine ---------------------------
(* Two handlers, answers of one or two tokens, and one restart of the loop. *)
EXTENDS AsyncEngine

CONSTANTS r1, r2
=============================================================================
