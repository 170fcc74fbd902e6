CONSTANTS
  Sessions = {s1, s2, s3}
  None = none
  Workers = {w1}
  Limit = 2
SPECIFICATION Spec
INVARIANTS TypeOK RemoveFindsSession QueueOutlivesItsUsers
PROPERTY CloseReturns
CHECK_DEADLOCK FALSE
