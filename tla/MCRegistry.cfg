SPECIFICATION FairSpec
CONSTANTS
  t1 = t1
  t2 = t2
  t3 = t3
  Threads = {t1, t2, t3}
  Cycles = {2401, 2402}
  Requests = {2401, 2403}
  Latest = Latest
  Nil = Nil
  Err = Err
  MaxGets = 2
  MayThrow = TRUE
INVARIANTS
  OneOpenPerCycle
PROPERTIES
  Refinement
  GetReturnsUnlessThrown
