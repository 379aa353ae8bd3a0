SPECIFICATION FairSpec
CONSTANTS
  file1 = file1
  file2 = file2
  ann = ann
  bob = bob
  NoUser = NoUser
  Configs <- MCConfigs
  MaxChanges = 2
CHECK_DEADLOCK FALSE
INVARIANTS ChildrenGetTheirBarq CalmIsInOrder
PROPERTIES EventuallyShown
