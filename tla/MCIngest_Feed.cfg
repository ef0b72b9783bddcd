SPECIFICATION FairSpec
CONSTANTS
  e1 = e1
  e2 = e2
  e3 = e3
  k1 = k1
  k2 = k2
  NoEvent = NoEvent
  NoSlot = NoSlot
  Events = {e1, e2, e3}
  Malformed = {e3}
  Slots = {k1, k2}
  MaxTimeouts = 2
  MaxFaults = 1
  MaxAttempts = 2
  MaxQueue = 2
INVARIANTS
  TypeOK
  AnsweredIsSeen
  NothingForgotten
PROPERTIES
  FeedSpec
  EveryEventIsPublished
CHECK_DEADLOCK FALSE
