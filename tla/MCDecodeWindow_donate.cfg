SPECIFICATION Spec
CONSTANTS
  r1 = r1
  r2 = r2
  r3 = r3
  Requests = {r1, r2}
  Shapes <- Early
  WindowSize = 4
  NumBlocks = 6
  BlockSize = 2
  PrefixCache = TRUE
  Aborts = FALSE
CHECK_DEADLOCK FALSE
INVARIANT NeverDies
