SPECIFICATION Spec

INVARIANTS
  EchoComplete
  CountersExact
  SockCopies

PROPERTIES
  BothEnd
  ExchangesEnd

CHECK_DEADLOCK FALSE
