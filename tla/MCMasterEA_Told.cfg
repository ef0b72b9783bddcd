SPECIFICATION Spec
CONSTANTS
  t1 = t1
  t2 = t2
  l1 = l1
  l2 = l2
  Tickets = {t1, t2}
  Levels = {l1, l2}
  FullLots = 2
  MaxChanges = 5
  MaxRestarts = 1
INVARIANTS
  LifeInOrder
  OpenIsKnown
  LevelIsKnown
CHECK_DEADLOCK FALSE
