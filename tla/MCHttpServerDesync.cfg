SPECIFICATION Spec
CONSTANTS
  c1 = c1
  w1 = w1
  Conns = {c1}
  WorkIds = {w1}
  IoTimeout = 1
  RequestTimeout = 2
  MaxConnections = 1
  MaxInflightWork = 1
INVARIANT DroppedInputCloses
