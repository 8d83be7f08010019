SPECIFICATION Spec
CONSTANTS
  HeapStart = 64
  HeapSize = 112
  Word = 256
  Sizes <- MCSizes
INVARIANTS
  TypeOK
  HeapTiled
  GrantsBacked
  GrantLargeEnough
PROPERTIES
  RefinesAllocator
