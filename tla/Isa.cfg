SPECIFICATION Spec
CONSTANTS
  ByteBits = 7
  Reg = {0, 1, 2, 3}
  Cells <- MCCells
  Csrs <- MCCsrs
  Masked <- MCMasked
  Start <- MCStart
  StackTop <- MCStackTop
  Steps = 4
  Program <- MCProgram
PROPERTIES
  RvSpec
CHECK_DEADLOCK FALSE
