SPECIFICATION Spec
CONSTANTS
  c1 = c1
  c2 = c2
  t1 = t1
  t2 = t2
  Down = Down
  Off = Off
  NoKey = NoKey
  Chunk <- MCChunk
  Topic <- MCTopic
  NotFound <- MCNotFound
  Shapes <- MCShapes
  Blocked <- MCBlocked
  Found <- MCFound
  VectorWeight = 1
  KeywordWeight = 1
  RrfK = 1
  RrfTopK = 2
  Scale = 6
  MaxInput = 2
  RerankTopK = 2
  Models = 2
  MaxIterations = 3
  MaxEmptyRounds = 1
  MaxPlanItems = 1
  MaxChunksPerEntity = 2
  FallbackMaxChunks = 1
  CostBudget = 1
  Deadline = 8
  Reserve = 1
  TurnCap = 2
INVARIANTS TypeOK OneLabel CoveredIsRead BackedByExcerpts
PROPERTIES CallsWithinLimits PromptsExtend ConcludedFromRead
CHECK_DEADLOCK FALSE
