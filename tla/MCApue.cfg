SPECIFICATION Spec

CONSTANTS
  m1 = m1
  m2 = m2
  m3 = m3
  NULL = NULL

INVARIANTS
  RefsSound
  SignalsRestored
  OpensOwn

PROPERTIES
  AllEnd

CHECK_DEADLOCK FALSE
