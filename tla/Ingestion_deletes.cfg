SPECIFICATION Spec
CONSTANTS
  Task = {t1, t2}
  Reader = {}
  NoTask = NoTask
  MaxAttempts = 2
  MaxRetries = 1
  MaxMessages = 1
  Budget <- Deletes
SYMMETRY TaskSymmetry
INVARIANT ReadyIsSearchable
INVARIANT DeletedLeavesNothing
CHECK_DEADLOCK FALSE
