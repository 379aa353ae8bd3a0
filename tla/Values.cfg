SPECIFICATION Spec
CONSTANTS
  PartsToCheck = {"schemas", "values", "decimals", "calls", "plugin", "configurations", "files", "types", "ids"}
  Classes = {Dog}
  Marked = Marked
  Missing = Missing
  Mistyped = Mistyped
  SomeVector = SomeVector
  PartialVector = PartialVector
  FilledVector = FilledVector
  SomeDefault = SomeDefault
  PropertyName = p
  OtherName = q
  DeclaredModels <- MCDeclarations
  Word = 4
  Exact = 4
  FloatExact = 8
  NaN = NaN
  PerSecond = 4
  Platforms = {"node", "hermes"}
  PropertyTypes = {"int", "counter", "bool", "double", "float", "string", "data", "date", "objectId",
                   "uuid", "decimal128", "mixed"}
  Assignable <- MCAssignable
  CppTypes <- MCCppTypes
  MaxDigits = 2
  ExponentBias = 2
  ExponentMax = 1
  PlainZeros = 1
  Specials = {Inf}
  Unrepresentable = Unrepresentable
  Texts <- MCTexts
  Wrappers = {w1, w2}
  MaxDepth = 3
  MaxStrings = 1
  MaxPosted = 1
  DeclaredProperties <- MCDeclaredProperties
  SafeCharacters = {"t", "u"}
  Unset = Unset
  WrongType = WrongType
  Openings <- MCOpenings
  Systems = {"node", "android", "apple"}
  Documents <- MCDocuments
  DefaultDirectories <- MCDirectories
  NoPath = NoPath
  NoUser = NoUser
  AskedFor <- MCAsked
  Bundled <- MCBundled
  MaxFileCalls = 4
  Seconds = 4
  Counts = 3
  LeftOut = LeftOut
  Wrong = Wrong
  Samples <- MCSamples
  MaxMade = 4
SYMMETRY MCSymmetry
CHECK_DEADLOCK FALSE
INVARIANTS SchemaIsKept ValuesReadBack ConversionsAgree NotationsAgree BorrowedIsKept PluginKeepsTypes AcceptedIsOpened FilesGoTogether
