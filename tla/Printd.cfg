SPECIFICATION Spec
CONSTANTS
  Clients = {c1, c2}
  MaxEnds = 2
  MaxCancels = 1
INVARIANTS SpoolSound
PROPERTY AcceptedPrinted
CHECK_DEADLOCK FALSE
