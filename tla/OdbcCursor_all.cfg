SPECIFICATION Spec
CONSTANTS
  Results <- MCResults
  MaxCol = 2
  BindCols = {1}
  RowsetSizes = {1, 2}
  MaxRowsValues = {0}
  Offsets <- MCOffsets
  Directions <- MCDirections
  StatementTypes = {"SELECT"}
  Bookmark = 2
  RetrieveValues = {TRUE, FALSE}
INVARIANTS CacheFollowsRowset
PROPERTIES NextFollows GetDataFromItsStart SuccessMeansWhole
