SPECIFICATION Spec
CONSTANTS
  c1 = c1
  c2 = c2
  Down = Down
  Off = Off
  None = None
  Missing = Missing
  Image = Image
  Broken = Broken
  NoAnswer = NoAnswer
  Nothing = Nothing
  NoModel = NoModel
  Chunk <- MCChunk
  VectorWeight = 1
  KeywordWeight = 1
  RrfK = 1
  RrfTopK = 2
  Scale = 12
  MaxInput = 2
  RerankTopK = 2
  Units <- MCUnits
  Absolute = "absolute"
  UnitScale <- MCUnitScale
  Dollar = "USD"
  MinTokens = 3
  MaxTokens = 8
  MergeMultiplier = 2
  DelimTokens = 1
  MaxRunDepth = 3
  ProbeCharsPerPage = 2
  MinSampleChars = 4
  ScanTextObjects = 1
  OcrMaxPages = 2
  IngestMaxPages = 2
  SkipLabels <- MCSkipLabels
  ChartLabels <- MCChartLabels
  BatchSize = 2
  MaxAttempts = 2
  Model <- MCModel
  Config <- MCConfig
  FakeOnly = FALSE
  Ref <- MCRef
  Comma = ","
  OpenMark = "["
  ShutMark = "]"
  ThinkOn = "<think>"
  ThinkOff = "</think>"
  Newline = "newline"
  Fact = "9.5"
  Period = "."
  Item = "-"
  Lead = "#"
  MaxBracketLen = 3
  MarkerTokens = 1
  MaxInheritHops = 1
INVARIANTS HonestSearch AnswerIsExtreme WrongScaleIsCaught NothingMisplaced StatusIsHonest AnswersStayWithTheirOwn ExchangeIsWhole WindowAdvances
CHECK_DEADLOCK FALSE
