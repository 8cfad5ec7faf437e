CONSTANTS
  Keys = {"table", "trigger"}
  Tables = {"table"}
  Triggers = {"trigger"}
  Needs <- TableFirst
  Versions = {v1, v2}
  Directions = {"push"}
  Options <- ForceOnly
  Reuse = FALSE
  Flaky = FALSE
  MaxEdits = 2
  MaxFails = 1
  MaxCopies = 2
SPECIFICATION Spec
INVARIANT ForceIsExact
