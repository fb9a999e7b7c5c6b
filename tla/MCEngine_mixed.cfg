\* One prefix group id, two prompts.
SPECIFICATION Spec
CONSTANTS
  r1 = r1
  r2 = r2
  r3 = r3
  Requests = {r1, r2, r3}
  Engines <- Mixing
  SamePrompts = FALSE
INVARIANTS OtherPromptServed
CHECK_DEADLOCK FALSE
