SPECIFICATION Spec
CONSTANTS
  s1 = s1
  s2 = s2
  t1 = t1
  t2 = t2
  k1 = k1
  k2 = k2
  NoTicket = NoTicket
  NoSlot = NoSlot
  Slaves = {s1}
  Slots = {k1, k2}
  MasterTickets = {t1, t2}
  Events <- TwoOpensOneClose
  TypeOf <- MCTypeOf
  TicketOf <- MCTicketOf
  MaxPositions = 1
  AdminModes = {"active"}
  MaxTimeouts = 1
  MaxFaults = 1
  MaxAttempts = 2
  MaxQueue = 1
SYMMETRY SlotSymmetry
CONSTRAINT OneAtATime
INVARIANTS
  TypeOK
  ExecutedIsReal
  TradeIdentity
  AtMostOnce
  RiskRefusalIsFinal
PROPERTIES
  TicketKept
CHECK_DEADLOCK FALSE
