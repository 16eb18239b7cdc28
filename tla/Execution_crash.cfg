SPECIFICATION FairSpec
CONSTANTS
  d1 = d1
  d2 = d2
  w1 = w1
  w2 = w2
  Call = {1, 2}
  NumSteps = 2
  Executor = {d1, d2}
  Worker = {w1, w2}
  CallBatch = 1
  TaskBatch = 2
  MaxCrashes = 1
  MaxErrors = 1
CHECK_DEADLOCK FALSE
INVARIANT TypeOK
INVARIANT OneToken
PROPERTY ImplementsLifecycle
PROPERTY EveryCallEnds
CONSTRAINT OneFault OneSound
