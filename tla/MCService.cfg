SPECIFICATION ServiceSpec
CONSTANTS
  t1 = t1
  t2 = t2
  t3 = t3
  Threads = {t1, t2, t3}
  Airports <- MCAirports
  Strangers <- MCStrangers
  WithProcedures <- MCWithProcedures
  None = None
  Loaded = Loaded
  Nil = Nil
  Err = Err
  Upper <- MCUpper
  Long <- MCLong
  Garbage = Garbage
  NonFinite = NonFinite
  kMaxIdListSize = 2
  kMaxForcedPoints = 2
  kMaxRules = 2
  kMaxK = 3
  kMaxFl = 5
  MaxInt = 9
  MaxUint = 12
  Vertices <- MCVertices
  Published <- MCPublished
  ProcedureNames <- MCProcedureNames
  Lookups <- MCLookups
  RouteQueries <- MCRouteQueries
  Workloads <- MCWorkloads
CHECK_DEADLOCK FALSE
INVARIANTS
  AnswersAreTrue
  FrontEndsAgree
PROPERTY
  Refinement
