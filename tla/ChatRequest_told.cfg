SPECIFICATION FairSpec
CONSTANTS
  Task = {t1}
  Post = {p1, p2}
  NoTask = NoTask
  MaxAttempts = 2
  Budget <- Deaths
INVARIANT OneEnqueue
PROPERTY EveryReaderIsTold
CHECK_DEADLOCK FALSE
