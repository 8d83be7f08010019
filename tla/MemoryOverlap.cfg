SPECIFICATION Spec
CONSTANTS
  HeapStart = 64
  HeapSize = 256
  Word = 1024
  Sizes <- MCSizes
  TotalFrames = 6
  WordBits = 2
  Reserved = 2
  PageEntries = 2
  DirEntries = 2
  CallerPages <- MCCallerPages
  FlagSets <- MCFlagSets
  PageSize = 64
INVARIANTS
  HeapApartFromFrames
