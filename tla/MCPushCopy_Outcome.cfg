SPECIFICATION Spec
CONSTANTS
  s1 = s1
  s2 = s2
  t1 = t1
  t2 = t2
  NoTicket = NoTicket
  Slaves = {s1}
  MasterTickets = {t1}
  Events <- OpenClose
  TypeOf <- MCTypeOf
  TicketOf <- MCTicketOf
  MaxPositions = 1
  AdminModes = {"active"}
  MaxSlaveFaults = 0
  MaxBackendFaults = 0
PROPERTIES
  OutcomeIsKept
CHECK_DEADLOCK FALSE
