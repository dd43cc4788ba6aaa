SPECIFICATION FairSpec
CONSTANTS
  Half = 16
  Windows <- MCWindows
  MemBytes = 12
  NoOffset = NoOffset
  Val = {0, 1}
  Zero = 0
  LoVals = {0, 4, 12}
  HiVals = {0, 1}
  SizeVals = {0, 7, 12}
  CtrlVals = {0, 1}
INVARIANTS
  TypeOK
  CopiedSoFar
  PollSeesCopy
PROPERTIES
  TransferEnds
CHECK_DEADLOCK FALSE
