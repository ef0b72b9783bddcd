SPECIFICATION Spec
CONSTANTS
  e1 = e1
  e2 = e2
  e3 = e3
  k1 = k1
  k2 = k2
  NoEvent = NoEvent
  NoSlot = NoSlot
  Events = {e1}
  Malformed = {}
  Slots = {k1}
  MaxTimeouts = 0
  MaxFaults = 1
  MaxAttempts = 2
  MaxQueue = 2
INVARIANTS
  AnsweredIsPublished
CHECK_DEADLOCK FALSE
