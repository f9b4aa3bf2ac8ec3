CONSTANTS
  Callers = {u1, u2, u3}
  Owners = {o1, o2}
  Builder = builder
  Compilers = {c1, c2}
  Nobody = nobody
SPECIFICATION PoolFairSpec
INVARIANTS
  ExclusiveUse
  FreeListConserved
  NothingSurvivesClose
PROPERTIES
  CompileReturns
  CloseReturns
CHECK_DEADLOCK FALSE
