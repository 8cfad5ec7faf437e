CONSTANTS
  FieldTypes = {"TEXT", "BYTEA", "INT4", "INT8", "LO_UNDEFINED"}
  Values <- MCValues
  CTypes = {"CHAR", "WCHAR", "BINARY"}
  BufferSizes = {0, 1, 2, 3, 4, 5, 6, 20}
  MaxReads = 3
  LowerOf <- MCLowerOf
  Args <- MCArgs
  Existing <- MCExisting
  NoPointer = NoPointer
  WideNames <- MCNames
  WideBuffers = {0, 1, 2, 3, 4, 5, 6, 7, 8, 9}
  InfoConns <- MCInfoConns
  InfoSizes = {0, 1, 2, 3, 7, 8, 30}
  OdbcIni <- MCOdbcIni
  ConnectStrings <- MCConnectStrings
  OutSizes = {0, 30, 70, 255, 2048}
  DiagStatements = {s1}
  StmtNumbers <- MCStmtNumbers
  StmtTexts <- MCStmtTexts
  ConnNumbers = {209}
  ConnTexts <- MCConnTexts
  DescNumbers = {8}
  DescTexts <- MCDescTexts
  DescBuffers = {0}
  DiagBuffers = {0, 2, 4}
  MaxRecord = 9
  Envs = {e1}
  Conns = {c1, c2}
  Stmts = {a1, a2}
  Descs = {d1}
  Blocks = {b1, b2}
  None = None
  MaxConnections = 2
  BindMax = 1
  Rowsets = {0}
  CursorTypes = {"FORWARD_ONLY"}
SPECIFICATION Application
SYMMETRY HandleSymmetry
INVARIANTS ValuesArrive FoundUnlessAbsent WideTextArrives ReconnectsToTheSame
  RecordIsItsOwn MessageComesWhole Registered BindingsOwned
PROPERTIES FailureIsTold LostOnlyUntyped
CHECK_DEADLOCK FALSE
