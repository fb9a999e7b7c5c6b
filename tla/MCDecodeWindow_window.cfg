SPECIFICATION Spec
CONSTANTS
  r1 = r1
  r2 = r2
  r3 = r3
  Requests = {r1, r2}
  Shapes <- CappedOrEarly
  WindowSize = 2
  NumBlocks = 8
  BlockSize = 1
  PrefixCache = FALSE
  Aborts = TRUE
INVARIANTS InFlightExact
PROPERTIES DecodesGreedily
CHECK_DEADLOCK FALSE
