----------------------------- MODULE MCAttention -----------------------------
EXTENDS Attention

\* The requests' blocks interleave and are out of order.
MCTable == <<<<2, 0>>, <<1, 3>>, <<5, 4>>>>

MCSettings ==
  {s \in [model : {"bundle", "qwen"}, backend : {"naive", "sdpa", "flash", "flashinfer"},
          gqa : BOOLEAN, heads : {2, 4}, kvHeads : {1, 2}] :
     (s.model = "qwen" => s.backend # "flashinfer") /\ (s.gqa => s.backend = "sdpa")}
=============================================================================
