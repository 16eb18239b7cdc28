SPECIFICATION Spec
CONSTANTS
  c1 = c1
  c2 = c2
  unit = unit
  Client <- MCClient2
  Unit = unit
  NumSteps = 2
  Outcomes = {"ready", "failed"}
  MaxCrashes = 2
SYMMETRY ClientSymmetry
INVARIANT TypeOK
INVARIANT NoStepTwice
INVARIANT SettledIsBacked
INVARIANT NothingLostByCleanup
INVARIANT AnswerIsTruthful
PROPERTY AnswerIsFinal
PROPERTY ImplementsLifecycle
