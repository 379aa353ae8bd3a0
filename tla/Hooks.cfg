SPECIFICATION Spec
CONSTANTS
  PartsToCheck = {"object", "query"}
  Keys = {k1, k2}
  MaxBorn = 2
  MaxAsks = 1
  Barqs = {b1, b2}
  Items = {i1}
  Tags = {t1, t2}
  All = All
  MaxCalls = 1
SYMMETRY MCSymmetry
CHECK_DEADLOCK FALSE
INVARIANTS HooksAreFresh AwaitedIsShown ListenersRemoved
