SPECIFICATION FairSpec
CONSTANTS
  MaxSockets = 3
  MaxCrashes = 1
INVARIANTS
  LastRegisteredIsUsed
PROPERTIES
  SilentGoesOffline
  GoneIsNotConnected
  ConnectedComesOnline
