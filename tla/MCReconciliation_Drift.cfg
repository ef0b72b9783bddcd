SPECIFICATION FairSpec
CONSTANTS
  m1 = m1
  m2 = m2
  x1 = x1
  l1 = l1
  l2 = l2
  r1 = r1
  r2 = r2
  NoTicket = NoTicket
  MasterTickets = {m1}
  Strays = {x1}
  Levels = {l1, l2}
  Runs = {r1, r2}
  MaxChanges = 2
PROPERTIES
  AlarmIffDrift
  NoLastingFalseAlarm
