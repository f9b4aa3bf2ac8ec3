CONSTANTS
  Callers = {c1, c2}
  Closers = {k1, k2}
  Starter = starter
  None = none
  Exited = exited
  Error = error
  Noise = noise
  Capacity = 1
  MaxCalls = 3
  MaxNoise = 1
SPECIFICATION FairSpec
INVARIANTS
  RightAnswer
  DispatcherFree
  NothingLeft
PROPERTIES
  CallsEnd
  Answered
  CloseReturns
CHECK_DEADLOCK FALSE
