CONSTANTS
  Columns <- MCColumns
  TypeOf <- MCTypeOf
  PartSize = 1
  NULL = NULL
  TableNames <- MCTableNames
  Programs = {p1, p2}
  Contents <- MCContents
  Budgets <- MCBudgets
SPECIFICATION Spec
INVARIANTS PushRestores SelfTestCleansUp
SYMMETRY Symmetry
CHECK_DEADLOCK FALSE
