CONSTANTS
  Columns = {"a", "b", "c"}
  Indexes = {"i"}
  Plans <- AllPlans
  MaxFails = 1
  MaxRuns = 2
SPECIFICATION Spec
INVARIANTS DataKept CleanMeansExact FailuresLeaveNothing DestructiveIsExact
