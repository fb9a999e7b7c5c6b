SPECIFICATION Spec
CONSTANTS
  r1 = r1
  r2 = r2
  Requests = {r1, r2}
  MaxTokens = 2
  MaxStarts = 2
INVARIANTS NothingLost ClosedOnce WholeAnswers FailedNotHung
PROPERTIES Answered
CHECK_DEADLOCK FALSE
