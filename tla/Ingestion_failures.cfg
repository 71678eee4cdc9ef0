SPECIFICATION Spec
CONSTANTS
  Task = {t1, t2, t3}
  Reader = {r1}
  NoTask = NoTask
  MaxAttempts = 2
  MaxRetries = 1
  MaxMessages = 2
  Budget <- Failures
SYMMETRY TaskSymmetry
INVARIANT TypeOK
INVARIANT AttemptCap
INVARIANT SoleOwner
INVARIANT OwnerSeesProcessing
PROPERTY OthersLeaseUntouched
PROPERTY ImplementsLifecycle
CHECK_DEADLOCK FALSE
