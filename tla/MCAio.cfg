SPECIFICATION Spec

CONSTANTS
  QD = 2
  BS = 2
  Size = 7
  MaxFaults = 3
  NUM_EVENTS = 4
  Width = 16
  ARRLEN = 3
  TESTLOOPCNT = 3
  WaitLimit = 2
  Engines = {"wrbytesstr", "wrbyteschar", "wrsectsstr", "wrsectschar"}
  SECTOR_SIZE = 2
  MAX_BUF_LEN = 4
  Word = 256
  DevSize = 14
  MaxOff = 3
  Counts = {0, 1, 3, 4, 6, 9}
  StrLens = {0, 1, 2, 3, 5}
  MaxShort = 2
  iocb_cnt = 4

INVARIANTS
  SlotsAccounted
  CountExact
  TestStillHolds
  CoversRange
  NotFreedInKernel
  TransfersRange
  ShowsRange

PROPERTIES
  EventuallyCopied
  Ends

CHECK_DEADLOCK FALSE
