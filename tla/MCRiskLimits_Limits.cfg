SPECIFICATION Spec
CONSTANTS
  t1 = t1
  t2 = t2
  t3 = t3
  gold = gold
  euro = euro
  Null = Null
  MultiplierScale = 10000
  Symbols = {gold, euro}
  Trades = {t1, t2, t3}
  Closing = {t1}
  SymbolOf <- MCSymbolOf
  VolumeOf <- MCVolumeOf
  SettingsUsed <- MCSettings
  MastersUsed <- MCMasters
  MaxChanges = 1
SYMMETRY MCSymmetry
CONSTRAINT OneAtATime
INVARIANTS
  LimitsHold
  RoomIsMade
  SizedAsConfigured
CHECK_DEADLOCK FALSE
