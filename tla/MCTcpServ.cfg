SPECIFICATION Spec

CONSTANTS
  Mixes <- MCMixes
  NPool = 2
  NSlots = 2
  MAXNCLI = 2

INVARIANTS
  RepliesOwn
  Bookkeeping

PROPERTIES
  EveryClientServed
  ZombiesReaped

CHECK_DEADLOCK FALSE
