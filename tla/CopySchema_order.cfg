CONSTANTS
  Keys = {"view1", "view2", "view3"}
  Tables = {}
  Triggers = {}
  Needs <- Chain
  Versions = {v1, v2}
  Directions = {"push"}
  Options <- PlainOnly
  Reuse = FALSE
  Flaky = TRUE
  MaxEdits = 1
  MaxFails = 0
  MaxCopies = 1
SPECIFICATION FairSpec
INVARIANT RetryIsEnough
PROPERTY CopyEnds
