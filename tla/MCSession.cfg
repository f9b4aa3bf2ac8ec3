CONSTANTS
  dev = dev
  build = build
  Sessions <- Both
  Builds <- OneBuild
  MaxUpsets = 2
SPECIFICATION SessionSpec
INVARIANTS
  LeaksExplained
  PluginsExplained
PROPERTIES
  CallsReturn
CHECK_DEADLOCK FALSE
