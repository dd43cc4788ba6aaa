SPECIFICATION Spec
CONSTANTS
  Space = 32
  SIZE = 6
  High = 16
  Region <- MCRegion
  MemPort = 0
  Byte = {0, 1}
  Zero = 0
  Lengths = {1, 2, 4}
  WordLen = 4
  Ext = {0, 16}
  RecordAddr = {0, 1, 2, 4, 6}
  RecordLen = {1, 2}
  SegmentAddr = {0, 1, 2, 4, 16, 17, 18, 20, 22}
  SegmentLen = {1, 2}
  Parts = 3
INVARIANTS
  TypeOK
  ImageAndStores
  PathsAgree
CHECK_DEADLOCK FALSE
