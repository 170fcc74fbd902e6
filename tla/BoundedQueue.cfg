CONSTANTS
  Items = {x, y}
  Putters = {p1, p2}
  Getters = {g1, g2}
  Nil = nil
  Bound = 2
SPECIFICATION Spec
INVARIANTS TypeOK NoLostWakeup
PROPERTY ImplementsBoundedMailbox
