CONSTANTS
  b1 = b1
  b2 = b2
  js = js
  css = css
  index = index
  c1 = c1
  c2 = c2
  worker = worker
  icon = icon
  Builders <- MCBuilders
  Versions <- MCVersions
  Js <- js
  Css <- css
  Index <- index
  Hashed <- MCHashed
  ChunksOf <- MCChunksOf
  WorkersOf <- MCWorkersOf
  Styled <- MCStyled
  PublicDirs = 2
  PublicFiles <- MCPublicFiles
  Absent = absent
  Torn = torn
  None = none
  MaxUpsets = 2
SYMMETRY MCSymmetry
SPECIFICATION Spec
INVARIANTS
  SiteIsWhole
  StyleExplained
