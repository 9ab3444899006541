SPECIFICATION Spec
CONSTANTS
  Run = {r1}
  MaxEdits = 0
  MaxWrites = 1
INVARIANT VerifiedUnderLocks
CHECK_DEADLOCK FALSE
