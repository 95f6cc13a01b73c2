SPECIFICATION Spec

CONSTANTS
  ARRLEN = 3
  TESTLOOPCNT = 2
  WaitLimit = 2

INVARIANTS
  AssertHolds
