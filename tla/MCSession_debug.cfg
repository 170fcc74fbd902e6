SPECIFICATION Spec
CONSTANTS
  Sessions = {s1}
  Workers = {w1}
  Loop = loop
  Joiner = joiner
  None = none
  App <- HalfDuplex
  Debug = TRUE
  MaxBatch = 1
INVARIANTS
  DisconnectedIsLast
CHECK_DEADLOCK FALSE
