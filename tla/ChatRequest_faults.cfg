SPECIFICATION Spec
CONSTANTS
  Task = {t1, t2}
  Post = {p1}
  NoTask = NoTask
  MaxAttempts = 2
  Budget <- Faults
SYMMETRY TaskSymmetry
INVARIANT TypeOK
INVARIANT BilledCap
INVARIANT OneAnswerInStream
INVARIANT ToldIsPersisted
PROPERTY CompletedIsFinal
CHECK_DEADLOCK FALSE
