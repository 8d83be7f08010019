SPECIFICATION HSpec
CONSTANTS
  MaxThreads = 3
  Ptrs <- MCPtrs
  Delays <- MCDelays
  MaxId = 3
INVARIANTS
  TypeOK
  RunningIsCurrent
  IdsUnique
  StacksOwned
  BoundedBypass
PROPERTIES
  SleepExact
