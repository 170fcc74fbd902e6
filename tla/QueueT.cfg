CONSTANTS
  Items = {x, y}
  Consumers = {loop}
  Nil = nil
  MaxLen = 3
SPECIFICATION Spec
INVARIANTS TypeOK NoLostWakeup
PROPERTY ImplementsMailbox
