SPECIFICATION XSpec
CONSTANTS
  k1 = k1
  k2 = k2
  k3 = k3
  MaxThreads = 3
  MaxProcs = 3
  Ptrs <- MCPtrs
  Delays <- MCDelays
  MaxId = 3
  MaxPid = 3
  Programs <- MCPrograms
  FreeFrames = 2
SYMMETRY Blocks
INVARIANTS
  XTypeOK
  BlocksOwned
  ProcessThreadsLive
  CountsNeverHigh
PROPERTIES
  RefinesProcess
