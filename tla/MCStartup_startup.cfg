\* Every flag, every export, two applications in one process.
SPECIFICATION Spec
CONSTANTS
  Format = "dense_v1"
  Version = 1
  Outside = {"../config.json"}
  Exports <- AllExports
  Flashes <- Installed
  AskedDevices = {"auto", "cuda"}
  AskedDtypes = {"auto", "float32", "float16"}
  AskedAttention <- AnyAttention
  TriStates <- AnyFlag
  Preemptions = {TRUE, FALSE}
  Buckets = {1, 2}
  PoolSizes = {2, 3}
  BlockSize = 3
  CaptureBudget = 8
  MaxLaunches = 2
INVARIANTS ForwardRuns FusedAsChosen AutosNeverClash PoolWhole
CHECK_DEADLOCK FALSE
