SPECIFICATION Spec
CONSTANTS
  Sessions = {s1}
  Workers = {w1, w2}
  Loop = loop
  Joiner = joiner
  None = none
  App <- Persistent
  Debug = FALSE
  MaxBatch = 2
INVARIANTS
  TypeOK
  OneActivity
  DisconnectedIsLast
  NoIoAfterDisconnect
  RemoveFindsSession
  FreedOnlyWhileLeaving
PROPERTIES
  LostSessionEnds
  QuitEnds
CHECK_DEADLOCK FALSE
