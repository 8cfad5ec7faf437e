SPECIFICATION Spec
CONSTANTS
  Results <- MCRowResults
  MaxCol = 1
  BindCols = {1}
  RowsetSizes = {1}
  MaxRowsValues = {0, 1}
  Offsets <- MCNone
  Directions <- MCNext
  StatementTypes = {"SELECT", "OTHER"}
  Bookmark = 2
  RetrieveValues = {TRUE}
PROPERTIES EndIsFinal
