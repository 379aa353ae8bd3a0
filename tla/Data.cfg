SPECIFICATION Spec
CONSTANTS
  PartsToCheck = {"collections", "objects", "barq", "reads", "json", "transactions", "classes"}
  Values = {a, b}
  Bad = Bad
  Own = Own
  Undefined = Undefined
  Keys = {k1, k2}
  Kinds = {"list", "mixedList", "set", "dictionary", "mixedDictionary", "mixed"}
  MaxLength = 3
  MaxGiven = 2
  MaxNested = 1
  Ids = {n1, n2}
  Amounts = {x, y}
  Unfit = Unfit
  NotGiven = NotGiven
  Gone = Gone
  Zero = Zero
  Null = Null
  Singleton = n1
  Schemas <- MCSchemas
  Models = {m1, m2}
  PropertyNames = {p1}
  Defaults = {d1}
  NoDefault = NoDefault
  Callbacks = {c1, c2}
  Holders = {h1}
  MaxOperations = 4
  Numbers = {1, 2}
  NoValue = NoValue
  Absent = Absent
  Stranger = Stranger
  DictionaryKeys = {k1, k2}
  MaxSize = 3
  Walkers = {l1}
  MaxChanges = 2
  Entities <- MCEntities
  Root <- MCRoot
  Graphs <- MCGraphs
  Tables <- MCTables
  TableType <- MCTableType
  PrimaryKeyed <- MCPrimaryKeyed
  LinksTo <- MCLinksTo
  RowKeys = {r1, r2}
  PrimaryKeys = {i1, i2}
  NoKey = NoKey
  NoRow = NoRow
  NotAllowed = NotAllowed
  MaxWrites = 2
  MaxEdits = 5
  ModelNames <- MCModelNames
  OwnClasses = {o1, o2}
  BarqObject = BarqObject
  SchemaOf <- MCSchemaOf
  TableKeyOf <- MCTableKeyOf
  ObjectSchemas <- MCObjectSchemas
  MaxMaps = 2
  MaxWrappers = 1
SYMMETRY MCSymmetry
CHECK_DEADLOCK FALSE
INVARIANTS ListsActLikeArrays AssignedReadsBack CreatesAsTold WalksReachAll CalledOnce ClassesFollowSchema
  ReadsAreConsistent JsonMirrorsGraph
