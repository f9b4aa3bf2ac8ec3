CONSTANTS
  react = react
  dom = dom
  other = other
  nReact = nReact
  nDom = nDom
  Specs <- MCSpecs
  Names <- MCNames
  Imports <- MCImports
  NameOf <- MCNameOf
  Family <- MCFamily
  Elsewhere <- MCElsewhere
  Late <- MCLate
  Servers = {v1, v2}
  Home = v1
  None = none
  MaxUpsets = 2
SPECIFICATION Spec
INVARIANTS
  RightModule
  ForksExplained
  MissesExplained
