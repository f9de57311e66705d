SPECIFICATION FairSpec
CONSTANTS
  t1 = t1
  t2 = t2
  Threads = {t1, t2}
  Cycles = {2401}
  Requests = {2401}
  Latest = Latest
  Nil = Nil
  Err = Err
  MaxGets = 2
  MayThrow = TRUE
PROPERTY
  EveryGetReturns
