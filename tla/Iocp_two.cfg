CONSTANTS
  Pool = {t1, t2}
  Counts = {2}
  Sessions = {s1}
  MaxOpens = 1
  MaxPackets = 2
SPECIFICATION Spec
INVARIANT AllThreadsQuit
CHECK_DEADLOCK FALSE
