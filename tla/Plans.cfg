SPECIFICATION Spec
CONSTANTS
  StepId = {1, 2, 3}
  Position <- Gapped
  NoStep = NoStep
  MaxRows = 3
CHECK_DEADLOCK FALSE
INVARIANT TypeOK
INVARIANT ChainInOrder
INVARIANT DriversAgree
