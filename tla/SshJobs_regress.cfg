SPECIFICATION Spec
CONSTANTS
  c1 = c1
  c2 = c2
  unit = unit
  Client <- MCClient2
  Unit = unit
  NumSteps = 1
  Outcomes = {"ready", "failed"}
  MaxCrashes = 0
PROPERTY CleanedIsFinal
