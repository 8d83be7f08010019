SPECIFICATION CSpec
CONSTANTS
  Width = 2
  Height = 2
  TabStop = 1
  Chars <- MCChars
  Keys <- MCKeys
  Plain <- MCPlain
  Shifted <- MCShifted
  NoChar = "none"
  Outputs <- MCOutputs
  MaxLen = 5
  BufferSize = 2
  MaxArgs = 2
  Slash = "/"
  Nul = "nul"
INVARIANTS
  LineShownAlways
