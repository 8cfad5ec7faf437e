CONSTANTS
  Keys = {"view"}
  Tables = {}
  Triggers = {}
  Needs <- TableFirst
  Versions = {v1, v2}
  Directions = {"pull"}
  Options <- PlainOnly
  Reuse = TRUE
  Flaky = FALSE
  MaxEdits = 2
  MaxFails = 0
  MaxCopies = 2
SPECIFICATION Spec
INVARIANT LooksLikeSource
