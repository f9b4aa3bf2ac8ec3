CONSTANTS
  e1 = e1
  e2 = e2
  e3 = e3
  m = m
  n = n
  Entries <- Three
  Modules <- MCModules
  Uses <- ThreeUses
  Reqs = {r1, r2}
  Manifest = manifest
  None = none
  MaxFaults = 0
  MaxRestarts = 1
  Persistent = FALSE
SPECIFICATION Spec
SYMMETRY HandlersAndTwins
INVARIANTS
  MissesExplained
  ForksExplained
