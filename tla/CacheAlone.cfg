SPECIFICATION SpecMain
CONSTANTS
  s0 = s0  ta = ta  tb = tb  tc = tc  td = td  te = te  la = la  lb = lb  lc = lc
  Set = {s0}
  Ways = 2
  NoLine = none
  Zero = 0
  Tag0 = ta
  Tag = {ta, tb, tc}
  Word = {0}
  Line = {la, lb, lc}
  Home <- HomeOwn
  Mmio <- MmioNone
  Val = {0, 1}
  LruRange = 16
  Masters = {}
  MaxTick = 15
INVARIANTS LruVictim
PROPERTIES FlatSpec
CHECK_DEADLOCK FALSE
