SPECIFICATION Spec
CONSTANTS
  NumLines = 2
  MaxDefects = 2
CHECK_DEADLOCK FALSE
INVARIANT TypeOK
INVARIANT PreparedIsAccepted
INVARIANT OnlyWholeIsReady
INVARIANT LinesAnswered
