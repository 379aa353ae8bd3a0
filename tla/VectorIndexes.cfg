SPECIFICATION FairSpec
CONSTANTS
  x1 = x1
  x2 = x2
  s1 = s1
  s2 = s2
  p1 = p1
  p2 = p2
  Nobody = Nobody
  NoIndex = NoIndex
  Processes = {p1, p2}
  Properties = {x1, x2}
  Shapes = {s1, s2}
  Breadths = {16, 64}
  Schemas <- MCSchemas
  MaxCrashes = 2
CHECK_DEADLOCK FALSE
INVARIANTS OpenIndexesAreDeclared
PROPERTIES CommitsAreWhole EventuallyOpens
