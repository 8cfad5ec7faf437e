CONSTANTS
  Columns <- MCColumns
  TypeOf <- MCTypeOf
  PartSize = 1
  NULL = NULL
  TableNames <- MCTableNames
  Programs = {p1, p2}
  Contents <- MCContents
  Budgets <- MCEmptyLine
SPECIFICATION Spec
INVARIANT PushRestores
SYMMETRY Symmetry
CHECK_DEADLOCK FALSE
