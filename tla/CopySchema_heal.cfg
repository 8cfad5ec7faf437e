CONSTANTS
  Keys = {"table", "view"}
  Tables = {"table"}
  Triggers = {}
  Needs <- TableFirst
  Versions = {v1, v2, v3}
  Directions = {"push", "pull"}
  Options <- AllOptions
  Reuse = FALSE
  Flaky = FALSE
  MaxEdits = 2
  MaxFails = 1
  MaxCopies = 2
SYMMETRY VersionSymmetry
SPECIFICATION Spec
INVARIANTS CopyInv CopySettles
PROPERTIES OnlyDifferences TableKept
