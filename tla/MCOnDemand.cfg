CONSTANTS
  react = react
  reactdom = reactdom
  dev = dev
  b1 = b1
  b2 = b2
  w1 = w1
  w2 = w2
  w3 = w3
  Specs <- MCSpecs
  Latest <- MCLatest
  Declared <- MCDeclared
  Needs <- MCNeeds
  Builds = {b1, b2}
  Devs = {dev}
  Imports <- MCImports
  Handlers = {w1, w2, w3}
  Homes <- MCHomes
  Shipped <- MCShipped
  Nobody = nobody
  MaxImports = 3
  MaxFaults = 1
SPECIFICATION Spec
INVARIANTS
  PinsExplained
  PinsAreCached
  Repeatable
