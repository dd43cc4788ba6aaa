SPECIFICATION FairSpec
CONSTANTS
  Half = 16
  Or <- MCOr
  Windows <- MCWindows
  MemBytes = 12
  NoOffset = NoOffset
  Val = {0, 1}
  Zero = 0
  Side = 2
  LoVals = {0, 8}
  HiVals = {0, 1}
  DimVals = {0, 1, 2}
  CtrlVals = {0, 1}
INVARIANTS
  TypeOK
  FrameShows
  FrameFull
PROPERTIES
  FrameEnds
CHECK_DEADLOCK FALSE
