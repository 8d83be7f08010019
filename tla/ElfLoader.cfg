SPECIFICATION ESpec
CONSTANTS
  TotalFrames = 9
  WordBits = 2
  Reserved = 2
  PageEntries = 2
  DirEntries = 2
  CallerPages <- MCCallerPages
  FlagSets <- MCFlagSets
  Files <- MCFiles
  HeaderSize = 4
  Word = 256
INVARIANTS
  ETypeOK
  FramesAccounted
  LoadedUnlessExhausted
PROPERTIES
  MappingsIndependent
  RefinesLoader
