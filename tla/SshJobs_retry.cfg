SPECIFICATION FairSpec
CONSTANTS
  c1 = c1
  c2 = c2
  unit = unit
  Client <- MCClient2
  Unit = unit
  NumSteps = 1
  Outcomes = {"ready", "failed"}
  MaxCrashes = 1
CONSTRAINT OneFault
PROPERTY AcceptedIsTaken
PROPERTY SettlesOrStranded
PROPERTY EveryJobSettles
