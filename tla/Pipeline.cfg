SPECIFICATION Spec
CONSTANTS
  k1 = k1
  k2 = k2
  readyQueued = readyQueued
  readyDirect = readyDirect
  failedQueued = failedQueued
  plan1 = plan1
  NoPlan = NoPlan
  BadPlan = BadPlan
  NoInput = NoInput
  d1 = d1
  w1 = w1
  w2 = w2
  Caller <- Callers
  LedgerDb = ledger
  Input <- Inputs
  CallFor <- OneCall
  Ready = {readyQueued, readyDirect}
  Queued = {readyQueued, failedQueued}
  Plan = {plan1}
  NumSteps = 2
  Executor = {d1}
  Worker = {w1, w2}
  CallBatch = 1
  TaskBatch = 1
  MaxStops = 1
  MaxCrashes = 1
  MaxErrors = 1
CHECK_DEADLOCK FALSE
INVARIANT OneVerdictOneExecution
PROPERTY ImplementsParts
PROPERTY PromiseKept
SYMMETRY AnyWorker
CONSTRAINT OneStop
