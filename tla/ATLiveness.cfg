SPECIFICATION Spec
CONSTANTS
  Dma = {dma}
  Display = {display}
  Port0 = cache
  low = low
  high = high
  hole = hole
  w0 = w0
  w1 = w1
  NoOffset = NoOffset
  NoAddr = NoAddr
  Zero = 0
  Gp = {g1, g2, g3}
  NoGp = NoGp
  ReadLatency = 2
  WriteLatency = 2
  tREFI = 4
  tRFC = 2
  IdleWaits = {1}
  Addr = {low, high}
  Offset = {w0, w1}
  Decode <- MCDistinct
  Val = {0}
PROPERTIES
  PortSpec
  EveryTransferCompletes
