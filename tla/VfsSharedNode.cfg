SPECIFICATION HSpec
CONSTANTS
  MaxFiles = 3
  MaxFileSize = 4
  MaxFds = 4
  ReadmeSize = 2
  Word = 16
  Lengths <- MCLengths
  Names <- MCNames
  Rest <- MCRest
  Readme = "readme"
  Empty = ""
  Paths <- MCPaths
  FlagSets <- MCFlagSets
INVARIANTS
  DescriptorKeepsItsFile
