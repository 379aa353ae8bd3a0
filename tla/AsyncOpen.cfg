SPECIFICATION Spec
CONSTANTS
  o1 = o1
  o2 = o2
  p1 = p1
  Opens = {o1, o2}
  Paths = {p1}
  PathOf <- OnePath
  Configs <- SafeConfigs
  BarqThrows = {"plain", "coded"}
  Watched = {o1}
  AllowClearTestState = TRUE
CHECK_DEADLOCK FALSE
INVARIANTS NothingLeaks ResolvesSynchronized SeededOnce
PROPERTIES KeepsPromise
