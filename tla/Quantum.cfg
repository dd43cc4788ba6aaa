SPECIFICATION FairSpec
CONSTANTS
  Q = 12
  Tick = 4
  Instr = 4
  Mmio = 1
  StoreCosts = {4, 10}
  MaxStore = 10
  Deadlines = {0, 1, 3}
  MaxSince = 40
INVARIANTS
  TypeOK
  NeverPastQuantum
  TimerLatency
PROPERTIES
  MeasuredTime
  DevicesRun
CHECK_DEADLOCK FALSE
