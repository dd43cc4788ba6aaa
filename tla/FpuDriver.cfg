SPECIFICATION FairSpec
CONSTANTS
  Op = {"fadd", "fdiv", "fsqrt", "feq", "unknown"}
  FDiv = "fdiv"
  FSqrt = "fsqrt"
  ToInt = {"feq"}
  plain = plain
  edge = edge
  extreme = extreme
  Args = {plain, edge, extreme}
  OverZero = {edge}
  Negative = {edge}
  PowerOn <- MCPowerOn
  Ieee <- MCIeee
INVARIANTS
  TypeOK
  StartClearMeansResult
  ClearThenStart
PROPERTIES
  ExceptionKept
  StartServed
CHECK_DEADLOCK FALSE
