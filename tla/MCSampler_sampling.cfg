\* Two requests under every pair of six sampling surfaces.
SPECIFICATION Spec
CONSTANTS
  a = a
  b = b
  Requests = {a, b}
  Surfaces <- Configured
  Prompt <- Prompts
  Logits <- Scored
  Stream <- Draws
  Grain = 8
  Eos = 2
  MaxTokens = 4
  MaxDraft = 2
  MaxNgram = 2
  MaxWindow = 2
  MaxPreempts = 1
INVARIANTS DrawsAlone NucleusMinimal DraftExact
CHECK_DEADLOCK FALSE
