SPECIFICATION Spec
CONSTANTS
  r1 = r1
  r2 = r2
  r3 = r3
  NoRun = NoRun
  Run = {r1, r2, r3}
  Submission = {1, 2}
CHECK_DEADLOCK FALSE
INVARIANT TypeOK
INVARIANT RestorableFromBackup
INVARIANT WholeWhenReached
PROPERTY NeverRepaired
SYMMETRY AnyRun
