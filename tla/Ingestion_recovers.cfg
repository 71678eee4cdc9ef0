SPECIFICATION FairSpec
CONSTANTS
  Task = {t1, t2, t3}
  Reader = {r1}
  NoTask = NoTask
  MaxAttempts = 2
  MaxRetries = 1
  MaxMessages = 1
  Budget <- Recovery
PROPERTY Recovers
CHECK_DEADLOCK FALSE
