SPECIFICATION Spec
CONSTANTS
  Connected <- MCConnected
  Timeout = 2
  Word = 8
  LbaRange = 4
  Lbas <- MCLbas
  Counts <- MCCounts
INVARIANTS
  DataAtRequest
  RightSectors
PROPERTIES
  CallReturns
CHECK_DEADLOCK FALSE
