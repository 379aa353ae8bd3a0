SPECIFICATION Spec
CONSTANTS
  PartsToCheck = {"users", "sessions"}
  NativeUsers = {n1}
  Wrappers = {w1}
  UserListeners = {l1, l2}
  MaxEmissions = 2
  MaxUserChanges = 2
  SafeCharacters <- MCSafe
  Sessions = {s1, s2}
  Configs <- MCConfigs
  Callbacks = {c1}
  MaxTokens = 2
  MaxInbox = 1
  MaxEvents = 1
SYMMETRY MCSymmetry
CHECK_DEADLOCK FALSE
INVARIANTS EmissionReachesAll SessionsReleased CallbacksReached

