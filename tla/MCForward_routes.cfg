\* Two engines on one model; a pair of siblings and a lone request.
SPECIFICATION Spec
CONSTANTS
  a = a
  b = b
  r1 = r1
  r2 = r2
  r3 = r3
  Engines = {a, b}
  Requests <- Listed
  EngineOf <- Served
  Prompt <- Prompts
  Leader <- Leaders
  Settings <- Routes
  MaxPosition = 3
  BlockSize = 2
  NumBlocks = 4
  MaxBudget = 2
  MaxLen = 4
  MaxPlans = 2
  MaxQueue = 4
INVARIANTS KeysIntact RowsPinned OwnHistory OwnPlanInfo
CHECK_DEADLOCK FALSE
