SPECIFICATION Spec
CONSTANTS
  s0 = s0  ta = ta  tb = tb  tc = tc  td = td  te = te  la = la  lb = lb  lc = lc
  Set = {s0}
  Ways = 2
  NoLine = none
  Zero = 0
  Tag0 = ta
  Tag = {ta, tb, tc, td, te}
  Word = {0}
  Line = {la, lb, lc}
  Home <- HomeShared
  Mmio <- MmioTe
  Val = {0, 1}
  LruRange = 3
  Masters = {dma}
  MaxTick = 4
INVARIANTS TypeOK OneCopy StaleOnlyBehind ValidIsMapped
CHECK_DEADLOCK FALSE
