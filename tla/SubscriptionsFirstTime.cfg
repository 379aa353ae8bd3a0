SPECIFICATION Spec
CONSTANTS
  r1 = r1
  r2 = r2
  q1 = q1
  q2 = q2
  person = person
  c1 = c1
  c2 = c2
  n1 = n1
  EmptyName = EmptyName
  NoName = NoName
  Names = {n1, EmptyName}
  ClassOf <- MCClassOf
  Results = {r1, r2}
  QueryOf <- MCQueryOf
  Options <- FirstOptions
  Handles = {h1}
  Calls = {c1, c2, c3}
  MaxVersion = 3
CHECK_DEADLOCK FALSE
INVARIANTS FirstTimeWaits
