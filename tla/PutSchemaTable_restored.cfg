CONSTANTS
  Columns = {"a", "b"}
  Indexes = {"i"}
  Plans <- MCPlans
  MaxFails = 1
  MaxRuns = 1
SPECIFICATION Spec
INVARIANT RestoredByHand
