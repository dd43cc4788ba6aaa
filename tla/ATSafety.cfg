SPECIFICATION Safe
SYMMETRY Symmetry
CONSTANTS
  Dma = {dma}
  Display = {display}
  Port0 = cache
  low = low
  high = high
  hole = hole
  w0 = w0
  w1 = w1
  NoOffset = NoOffset
  NoAddr = NoAddr
  Zero = 0
  Gp = {g1, g2, g3}
  NoGp = NoGp
  ReadLatency = 2
  WriteLatency = 2
  tREFI = 6
  tRFC = 3
  IdleWaits = {1}
  Addr = {low, high, hole}
  Offset = {w0}
  Decode <- MCAlias
  Val = {0, 1}
INVARIANTS
  NoUseAfterFree
  RoutedHome
  InitiatorReleasesLast
  PoolBound
  RefreshStall
PROPERTIES
  NoLostWakeup
  PortSafe
CHECK_DEADLOCK FALSE
