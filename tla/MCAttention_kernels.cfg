CONSTANTS
  Requests = {1, 2, 3}
  Table <- MCTable
  BlockSize = 2
  MaxLen = 3
  Settings <- MCSettings
SPECIFICATION Spec
INVARIANT SeesOwnPast
