SPECIFICATION Spec

CONSTANTS
  Producers = {p1}
  Consumers = {c1, c2}
  p1 = p1
  c1 = c1
  c2 = c2
  Capacity = 2
  ItemRange = 3
  NoThread = NoThread
  Null = Null

INVARIANTS
  PopSafe

PROPERTIES
  ImplementsFifo
  ProducersStop
  LastSendWakes
