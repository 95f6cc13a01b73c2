SPECIFICATION Spec

CONSTANTS
  m1 = m1
  m2 = m2
  m3 = m3
  NULL = NULL

INVARIANTS
  WorkersListed
  JobWhole
  TableWhole
  StoresOrdered

CHECK_DEADLOCK FALSE
