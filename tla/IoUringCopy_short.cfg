SPECIFICATION Spec

CONSTANTS
  QD = 2
  BS = 2
  Size = 3
  MaxFaults = 1

INVARIANTS
  CopyExact

CHECK_DEADLOCK FALSE
