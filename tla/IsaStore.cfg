SPECIFICATION Spec
CONSTANTS
  ByteBits = 7
  Reg = {0, 1, 2, 3}
  Cells <- MCStoreCells
  Csrs <- MCCsrs
  Masked <- MCMasked
  Start <- MCStart
  StackTop <- MCStackTop
  Steps = 2
  Program <- MCStoreProgram
PROPERTIES
  RvSpec
CHECK_DEADLOCK FALSE
