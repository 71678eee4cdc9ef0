SPECIFICATION Spec
CONSTANTS
  acme = acme
  bolt = bolt
  AcmeName = AcmeName
  Vague = Vague
  All = All
  NoAnswer = NoAnswer
  Entity = {AcmeName, Vague}
  Company = {acme, bolt}
  Named = {AcmeName, Vague}
  Matches <- MCMatches
  Exact <- MCExact
  Asked <- MCAsked
  Scopes <- MCScopes
  Answers <- MCAnswers
  MaxCompanies = 1
  StartCorpora <- MCCorpora
  Replies = {r1, r2}
  MaxQuestions = 1
  MaxRuns = 3
  MaxChanges = 1
INVARIANTS PicksKept ReplyIsHeeded ScopeRespected
SYMMETRY MCSymmetry
CHECK_DEADLOCK FALSE
