SPECIFICATION FairSpec
CONSTANTS
  s1 = s1
  s2 = s2
  t1 = t1
  t2 = t2
  NoTicket = NoTicket
  Slaves = {s1}
  MasterTickets = {t1, t2}
  Events <- TwoOpens
  TypeOf <- MCTypeOf
  TicketOf <- MCTicketOf
  MaxPositions = 2
  AdminModes = {"stopped", "disabled"}
  MaxSlaveFaults = 1
  MaxBackendFaults = 0
INVARIANTS
  StopBlocksOpens
PROPERTIES
  EveryCopyIsDecided
  StoredInTimeIsCopied
  EverySendIsAnswered
CHECK_DEADLOCK FALSE
