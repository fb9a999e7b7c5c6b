SPECIFICATION Spec
CONSTANTS
  BlockSize = 2
  NumBlocks = 3
  PrefixCaching = FALSE
  MaxStops = 2
  MaxStopLength = 3
  Asks <- Everything
  Chars <- Letters
  Vocabulary <- Byte
  Eos <- TheEnd
INVARIANTS Reassembles CutsAtStop CountedOnce AcceptedIsTaken
PROPERTY Ends
CHECK_DEADLOCK FALSE
