SPECIFICATION FairSpec
CONSTANTS
  k1 = k1
  k2 = k2
  l1 = l1
  l2 = l2
  readyQueued = readyQueued
  readyDirect = readyDirect
  plan1 = plan1
  plan2 = plan2
  NoPlan = NoPlan
  BadPlan = BadPlan
  NoInput = NoInput
  Caller <- MCCallers
  Ledger = {l1, l2}
  LedgerOf <- TwoLedgers
  Input <- TwoInputs
  CallOf <- OneCall
  Ready <- TwoInputs
  Queued = {readyQueued}
  Plan = {plan1, plan2}
  MaxCrashes = 1
INVARIANT TypeOK
INVARIANT QueuedOnce
INVARIANT QueueIsExecutable
INVARIANT QueuedMeansFinished
INVARIANT VerdictsAgree
PROPERTY BindingsStay
PROPERTY BoundGetsThrough
