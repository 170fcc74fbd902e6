CONSTANTS
  Pool = {t1, t2, t3}
  Counts = {1, 2}
  Sessions = {s1}
  MaxOpens = 2
  MaxPackets = 2
SPECIFICATION Spec
INVARIANTS TypeOK OneThreadQuits OneThreadNotifiesOwnClose
PROPERTY CloseReturns
CHECK_DEADLOCK FALSE
