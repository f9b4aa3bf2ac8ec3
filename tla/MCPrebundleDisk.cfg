CONSTANTS
  e1 = e1
  e2 = e2
  e3 = e3
  m = m
  n = n
  Entries <- One
  Modules <- MCModules
  Uses <- OneUses
  Reqs = {r1, r2}
  Manifest = manifest
  None = none
  MaxFaults = 2
  MaxRestarts = 2
  Persistent = TRUE
SPECIFICATION Spec
SYMMETRY Handlers
INVARIANTS
  TypeOK
  DiskComplete
