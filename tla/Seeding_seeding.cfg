SPECIFICATION Spec
CONSTANTS
  d1 = d1
  o1 = o1
  w1 = w1
  w2 = w2
  Absent = Absent
  Idle = Idle
  NoOne = NoOne
  Dead = Dead
  Listed <- MCListed
  Unlisted <- MCUnlisted
  Worker <- MCWorker
  MaxAttempts = 3
  BackoffLimit = 6
  MarkerRuns = 4
  MaxFaults = 2
INVARIANTS CorpusIsExact
PROPERTIES SeedConverges
CHECK_DEADLOCK FALSE
