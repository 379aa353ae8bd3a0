SPECIFICATION LoopSpec
CONSTANTS
  o1 = o1
  o2 = o2
  p1 = p1
  Opens = {o1, o2}
  Paths = {p1}
  PathOf <- OnePath
  Configs <- SettlingConfigs
  BarqThrows = {"plain"}
  Watched = {}
  AllowClearTestState = FALSE
CHECK_DEADLOCK FALSE
PROPERTIES Settles
