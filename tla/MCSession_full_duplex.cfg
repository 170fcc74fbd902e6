SPECIFICATION Spec
CONSTANTS
  Sessions = {s1}
  Workers = {w1}
  Loop = loop
  Joiner = joiner
  None = none
  App <- FullDuplex
  Debug = FALSE
  MaxBatch = 1
INVARIANTS
  DisconnectedOnce
CHECK_DEADLOCK FALSE
