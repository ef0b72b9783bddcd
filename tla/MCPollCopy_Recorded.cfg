SPECIFICATION FairSpec
CONSTANTS
  s1 = s1
  s2 = s2
  t1 = t1
  t2 = t2
  k1 = k1
  k2 = k2
  NoTicket = NoTicket
  NoSlot = NoSlot
  Slaves = {s1}
  Slots = {k1}
  MasterTickets = {t1}
  Events <- OpenClose
  TypeOf <- MCTypeOf
  TicketOf <- MCTicketOf
  MaxPositions = 1
  AdminModes = {"active"}
  MaxTimeouts = 1
  MaxFaults = 0
  MaxAttempts = 2
  MaxQueue = 1
PROPERTIES
  PendingIsPickedUp
  OutcomeIsRecorded
CHECK_DEADLOCK FALSE
