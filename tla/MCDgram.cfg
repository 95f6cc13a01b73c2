SPECIFICATION Spec

INVARIANTS
  RepliesMatch
  RecvOobReady
  AnswersOwn

PROPERTIES
  NoFalseDeath
  WaitsEnd

CHECK_DEADLOCK FALSE
