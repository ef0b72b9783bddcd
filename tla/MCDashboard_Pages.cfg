SPECIFICATION Spec
CONSTANTS
  k1 = k1
  k2 = k2
  c1 = c1
  c2 = c2
  Nothing = Nothing
  NoToken = NoToken
  Tokens = {k1, k2}
  Calls = {c1, c2}
  MaxFailures = 1
  MaxRevisions = 2
  MaxVersions = 2
INVARIANTS
  LiveIsCurrentUnlessMissed
PROPERTIES
  ViewCatchesUp
  ExpiredIsNoticed
CHECK_DEADLOCK FALSE
