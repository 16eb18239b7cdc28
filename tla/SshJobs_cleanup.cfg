SPECIFICATION Spec
CONSTANTS
  c1 = c1
  c2 = c2
  unit = unit
  Client <- MCClient1
  Unit = unit
  NumSteps = 1
  Outcomes = {"ready", "failed"}
  MaxCrashes = 1
INVARIANT CleanupRepeatable
