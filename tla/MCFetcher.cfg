CONSTANTS
  sa = sa
  sb = sb
  sc = sc
  icon = icon
  qa = qa
  a = a
  b = b
  qc = qc
  c = c
  qi = qi
  none = none
  failed = failed
  URLs <- MCURLs
  Specs <- MCSpecs
  Root <- sa
  None <- none
  Failed <- failed
  ReqURL <- MCReqURL
  Resolved <- MCResolved
  Entry <- MCEntry
  Graphs <- AllGraphs
  Concurrency = 2
  MaxAttempts = 2
  MaxFaults = 2
SPECIFICATION FairSpec
INVARIANTS
  RequestsBounded
  OneDownload
  SuccessIsClosure
  NothingLeftBehind
  FailureSurfaces
PROPERTIES
  FetchReturns
  CancelUnblocks
CHECK_DEADLOCK FALSE
