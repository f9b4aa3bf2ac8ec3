CONSTANTS
  Procs = {p1, p2}
  URLs = {u1, u2}
  Bytes = {b1, b2}
  Missing = Missing
  Torn = Torn
SPECIFICATION Spec
SYMMETRY Symmetry
INVARIANTS
  LockProtocol
  RecordedBytesAreThere
  BlobsAreWhole
PROPERTY Atomic
