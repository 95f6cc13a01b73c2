SPECIFICATION Spec
CONSTANTS
  Procs = {p1, p2}
  Keys = {"a", "b", "c"}
  nhash = 2
  Hash <- MCHash
  KeyLen <- MCKeyLen
  DataOf <- MCDataOf
  DatLen <- MCDatLen
  Files <- MCFiles
  PTR_MAX = 6
  MaxCalls = 3
  MaxFails = 1
INVARIANTS FilesSound
PROPERTIES ImplementsStore CallsReturn
CHECK_DEADLOCK FALSE
