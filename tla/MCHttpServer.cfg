SPECIFICATION Spec
CONSTANTS
  c1 = c1
  c2 = c2
  w1 = w1
  w2 = w2
  Conns = {c1, c2}
  WorkIds = {w1, w2}
  IoTimeout = 1
  RequestTimeout = 2
  MaxConnections = 2
  MaxInflightWork = 2
SYMMETRY Symmetry
INVARIANTS
  NoDanglingPointer
  HandleCountExact
  InflightExact
  OneReplyPending
  DropBeforeReplyCloses
  TimerArmed
  AssemblyBounded
  DrainLeavesNothing
PROPERTIES
  ClosingIsFinal
