SPECIFICATION Spec
CONSTANTS
  Task = {t1, t2, t3}
  Reader = {r1}
  NoTask = NoTask
  MaxAttempts = 2
  MaxRetries = 1
  MaxMessages = 2
  Budget <- OneCrash
SYMMETRY TaskSymmetry
PROPERTY ReadyNeverFails
CHECK_DEADLOCK FALSE
