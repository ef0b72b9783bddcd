SPECIFICATION Spec
CONSTANTS
  s1 = s1
  s2 = s2
  t1 = t1
  t2 = t2
  NoTicket = NoTicket
  Slaves = {s1}
  MasterTickets = {t1, t2}
  Events <- OpenModifyOther
  TypeOf <- MCTypeOf
  TicketOf <- MCTicketOf
  MaxPositions = 1
  AdminModes = {}
  MaxSlaveFaults = 1
  MaxBackendFaults = 1
INVARIANTS
  IInv
  ReportedOnce
  ExecutedIsReal
  TradeIdentity
  AtMostOnce
  RefusalIsFinal
PROPERTIES
  TicketKept
  CopiesOnce
CHECK_DEADLOCK FALSE
