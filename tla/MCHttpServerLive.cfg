SPECIFICATION FairSpec
CONSTANTS
  c1 = c1
  c2 = c2
  w1 = w1
  Conns = {c1, c2}
  WorkIds = {w1}
  IoTimeout = 1
  RequestTimeout = 2
  MaxConnections = 1
  MaxInflightWork = 1
INVARIANT
  LiveBounded
PROPERTIES
  StalledWriteEnds
  DrainCompletes
