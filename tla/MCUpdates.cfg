CONSTANTS
  Files = {component, html}
  Hot = {component}
  Html = html
  Pages = {p1}
  Capacity = 1
  MaxSaves = 3
  MaxDrops = 1
  MaxImports = 2
  Absent = absent
  Torn = torn
  None = none
SPECIFICATION FairSpec
INVARIANTS
  StaleExplained
PROPERTIES
  OnlyForward
  WatcherRuns
CHECK_DEADLOCK FALSE
