SPECIFICATION Spec
CONSTANTS
  Sessions = {s1}
  Workers = {w1}
  Loop = loop
  Joiner = joiner
  None = none
  App <- HalfDuplex
  Debug = FALSE
  MaxBatch = 1
INVARIANTS
  NoUseAfterFree
CHECK_DEADLOCK FALSE
