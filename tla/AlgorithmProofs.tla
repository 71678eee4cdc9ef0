---------------------------- MODULE AlgorithmProofs ----------------------------
(***************************************************************************)
(* Theorems about the algorithms, for inputs of any size: each says that a *)
(* property of MCAlgorithms holds of every input of its kind, and so of    *)
(* those the run takes.                                                    *)
(***************************************************************************)
EXTENDS MCAlgorithms, SequenceLemmas
-----------------------------------------------------------------------------
(* The inputs of the run.                                                  *)

\* The action that picks an input is known by its kind.
LEMMA TakenByKind ==
  ASSUME Next
  PROVE  /\ case'.kind = "search" => TakeSearch
         /\ case'.kind = "comparison" => TakeComparison
         /\ case'.kind = "number" => TakeNumber
         /\ case'.kind = "document" => TakeDocument
         /\ case'.kind = "headers" => TakeHeaders
         /\ case'.kind = "parse" => TakeParse
         /\ case'.kind = "pictures" => TakePictures
         /\ case'.kind = "tables" => TakeTables
         /\ case'.kind = "history" => TakeHistory
<1>1. CASE TakeSearch
  <2>1. case'.kind = "search"
    BY <1>1 DEF TakeSearch
  <2> QED
    BY <1>1, <2>1
<1>2. CASE TakeComparison
  <2>1. case'.kind = "comparison"
    BY <1>2 DEF TakeComparison
  <2> QED
    BY <1>2, <2>1
<1>3. CASE TakeNumber
  <2>1. case'.kind = "number"
    BY <1>3 DEF TakeNumber
  <2> QED
    BY <1>3, <2>1
<1>4. CASE TakeDocument
  <2>1. case'.kind = "document"
    BY <1>4 DEF TakeDocument
  <2> QED
    BY <1>4, <2>1
<1>5. CASE TakeHeaders
  <2>1. case'.kind = "headers"
    BY <1>5 DEF TakeHeaders
  <2> QED
    BY <1>5, <2>1
<1>6. CASE TakeParse
  <2>1. case'.kind = "parse"
    BY <1>6 DEF TakeParse
  <2> QED
    BY <1>6, <2>1
<1>7. CASE TakePictures
  <2>1. case'.kind = "pictures"
    BY <1>7 DEF TakePictures
  <2> QED
    BY <1>7, <2>1
<1>8. CASE TakeTables
  <2>1. case'.kind = "tables"
    BY <1>8 DEF TakeTables
  <2> QED
    BY <1>8, <2>1
<1>9. CASE TakeCuts
  <2>1. case'.kind = "stream"
    BY <1>9 DEF TakeCuts
  <2> QED
    BY <1>9, <2>1
<1>10. CASE TakeChain
  <2>1. case'.kind = "stream"
    BY <1>10 DEF TakeChain
  <2> QED
    BY <1>10, <2>1
<1>11. CASE TakeHistory
  <2>1. case'.kind = "history"
    BY <1>11 DEF TakeHistory
  <2> QED
    BY <1>11, <2>1
<1>12. CASE TakeFollowup
  <2>1. case'.kind = "followup"
    BY <1>12 DEF TakeFollowup
  <2> QED
    BY <1>12, <2>1
<1>13. CASE TakeTurns
  <2>1. case'.kind \in {"tools", "request"}
    BY <1>13 DEF TakeTurns
  <2> QED
    BY <2>1
<1> QED
  BY <1>1, <1>2, <1>3, <1>4, <1>5, <1>6, <1>7, <1>8, <1>9, <1>10, <1>11, <1>12, <1>13 DEF Next
-----------------------------------------------------------------------------
(* Parses.                                                                 *)

AnyConversion ==
  [status : {"success", "partial_success", "failure"}, abandoned : Nat,
   pages : Nat, chars : Nat, glyphs : BOOLEAN, worded : BOOLEAN]
\* Two conversions of a file of any pages.
AnyParse(c) ==
  /\ c.kind = "parse" /\ c.first \in AnyConversion /\ c.ocr \in AnyConversion
  /\ c.scan \in BOOLEAN /\ c.fallback \in BOOLEAN

\* A second conversion is named by its way and its verdict.
LEMMA RetryNamed ==
  ASSUME NEW bad \in BOOLEAN, NEW worst, NEW retry \in AnyConversion, CheckStatus(retry),
         NEW path \in {"scan_ocr", "ocr_fallback"}
  PROVE  LET status == RetryStatus(bad, worst, retry, path) IN
         /\ bad => status = worst
         /\ ~bad /\ path = "scan_ocr" =>
              status = IF retry.status = "success" THEN "success_scan_ocr" ELSE "partial_success_scan_ocr"
         /\ ~bad /\ path = "ocr_fallback" =>
              status = IF retry.status = "success" THEN "success_ocr_fallback"
                       ELSE "partial_success_ocr_fallback"
<1>1. retry.status \in {"success", "partial_success"}
  BY DEF CheckStatus
<1> QED
  BY <1>1 DEF RetryStatus, Via

\* The kinds of page content.
LEMMA Verdicts == ASSUME NEW pdf PROVE ClassifyPageContent(pdf) \in {"text", "scanned", "blank"}
BY DEF ClassifyPageContent

\* Nothing is served when the parse raises.
LEMMA RaisedHonest ==
  ASSUME NEW out, NEW read \in BOOLEAN, out = Raised(read),
         read => OcrMaxPages = 0 \/ case.first.pages <= OcrMaxPages
  PROVE  Honest(out)
<1>1. ~out.raised => FALSE
  BY DEF Raised
<1>2. out.ocr => OcrMaxPages = 0 \/ case.first.pages <= OcrMaxPages
  BY DEF Raised
<1>3. out.status \in {"success", "success_scan_ocr", "success_ocr_fallback"} => FALSE
  BY DEF Raised
<1> QED
  BY <1>1, <1>2, <1>3, Zenon DEF Honest

\* Any parse at all is honest about its status.
LEMMA ParseHonest ==
  ASSUME AnyParse(case)
  PROVE  Honest(ParsePdf(case.first, case.ocr, case.pdf, case.scan, case.fallback))
<1> DEFINE first == case.first
           ocr == case.ocr
           verdict == IF LooksTextless(first) THEN ClassifyPageContent(case.pdf) ELSE "text"
           garbled == case.fallback /\ Assess(first)
<1>0. first \in AnyConversion /\ ocr \in AnyConversion /\ OcrMaxPages \in Nat /\ IngestMaxPages \in Nat
      /\ case.scan \in BOOLEAN /\ case.fallback \in BOOLEAN
  BY ParsingAssumption DEF AnyParse
<1> SUFFICES ASSUME NEW out, out = ParsePdf(first, ocr, case.pdf, case.scan, case.fallback)
             PROVE  Honest(out)
  OBVIOUS
<1>1. CASE ~EnforcePageLimit(case.pdf) \/ ~CheckStatus(first)
  <2>1. out = Raised(FALSE)
    BY <1>1 DEF ParsePdf, Parse
  <2> QED
    BY <2>1, RaisedHonest
<1>2. CASE EnforcePageLimit(case.pdf) /\ CheckStatus(first)
  <2>1. IngestMaxPages = 0 \/ case.pdf = Broken \/ Len(case.pdf) <= IngestMaxPages
    BY <1>0, <1>2 DEF EnforcePageLimit, ProbePageCount
  <2>2. out = Parse(first, ocr, case.pdf, case.scan, case.fallback)
    BY <1>2 DEF ParsePdf
  <2>3. CASE verdict = "scanned" /\ case.scan /\ OcrRetryAllowed(first.pages) /\ CheckStatus(ocr)
    <3>1. ocr.status \in {"success", "partial_success"} /\ LooksTextless(ocr) \in BOOLEAN
      BY <2>3 DEF CheckStatus, LooksTextless
    <3> DEFINE status == RetryStatus(LooksTextless(ocr), "scanned_no_text", ocr, "scan_ocr")
    <3>2. out = Served(ocr, status, TRUE)
      BY <1>2, <2>2, <2>3 DEF Parse, ParseScan
    <3>3. status # "success" /\ status # "success_ocr_fallback"
          /\ (status = "success_scan_ocr" => ocr.status = "success" /\ ~LooksTextless(ocr))
      BY <1>0, <2>3, <3>1, RetryNamed
    <3> HIDE DEF status
    <3>4. OcrMaxPages = 0 \/ first.pages <= OcrMaxPages
      BY <1>0, <2>3 DEF OcrRetryAllowed, AnyConversion
    <3>5. out.raised = FALSE /\ out.conv = ocr /\ out.status = status
      BY <3>2 DEF Served
    <3>6. CheckStatus(out.conv) /\ (out.status = "success_scan_ocr" => ~LooksTextless(out.conv))
      BY <2>3, <3>3, <3>5
    <3>7. out.status \in {"success", "success_scan_ocr", "success_ocr_fallback"} =>
            out.status = "success_scan_ocr" /\ out.conv.status = "success"
      BY <3>3, <3>5
    <3> QED
      BY <2>1, <3>4, <3>5, <3>6, <3>7 DEF Honest
  <2>4. CASE verdict = "scanned" /\ ~(case.scan /\ OcrRetryAllowed(first.pages))
    <3>1. out = Served(first, "scanned_no_text", FALSE)
      BY <1>2, <2>2, <2>4 DEF Parse, ParseScan
    <3> QED
      BY <1>2, <2>1, <3>1 DEF Honest, Served
  <2>5. CASE /\ (verdict = "scanned" /\ case.scan) \/ (verdict \notin {"scanned", "blank"} /\ garbled)
             /\ OcrRetryAllowed(first.pages) /\ ~CheckStatus(ocr)
    <3>1. out = Raised(TRUE)
      BY <1>2, <2>2, <2>5 DEF Parse, ParseScan, ParseGarbled
    <3>2. OcrMaxPages = 0 \/ first.pages <= OcrMaxPages
      BY <1>0, <2>5 DEF OcrRetryAllowed, AnyConversion
    <3> QED
      BY <3>1, <3>2, RaisedHonest
  <2>6. CASE verdict = "blank"
    <3>1. out = Served(first, "empty", FALSE)
      BY <1>2, <2>2, <2>6 DEF Parse
    <3> QED
      BY <1>2, <2>1, <3>1 DEF Honest, Served
  <2>7. CASE verdict \notin {"scanned", "blank"} /\ ~garbled
    <3>1. out = Served(first, first.status, FALSE)
      BY <1>2, <2>2, <2>7 DEF Parse
    <3>2. first.status \in {"success", "partial_success"}
      BY <1>2 DEF CheckStatus
    <3>3. LooksTextless(first) => ClassifyPageContent(case.pdf) = "text"
      BY <2>7, Verdicts
    <3> QED
      BY <1>2, <2>1, <2>7, <3>1, <3>2, <3>3 DEF Honest, Served
  <2>8. CASE verdict \notin {"scanned", "blank"} /\ garbled /\ ~OcrRetryAllowed(first.pages)
    <3>1. out = Served(first, "garbled_text", FALSE)
      BY <1>2, <2>2, <2>8 DEF Parse, ParseGarbled
    <3> QED
      BY <1>2, <2>1, <3>1 DEF Honest, Served
  <2>9. CASE verdict \notin {"scanned", "blank"} /\ garbled /\ OcrRetryAllowed(first.pages)
             /\ CheckStatus(ocr)
    <3>1. ocr.status \in {"success", "partial_success"} /\ Assess(ocr) \in BOOLEAN
      BY <1>0, <2>9 DEF CheckStatus, Assess, AnyConversion
    <3> DEFINE status == RetryStatus(Assess(ocr), "garbled_text", ocr, "ocr_fallback")
    <3>2. out = Served(ocr, status, TRUE)
      BY <1>2, <2>2, <2>9 DEF Parse, ParseGarbled
    <3>3. status # "success" /\ status # "success_scan_ocr"
          /\ (status = "success_ocr_fallback" => ocr.status = "success" /\ ~Assess(ocr))
      BY <1>0, <2>9, <3>1, RetryNamed
    <3> HIDE DEF status
    <3>4. OcrMaxPages = 0 \/ first.pages <= OcrMaxPages
      BY <1>0, <2>9 DEF OcrRetryAllowed, AnyConversion
    <3>5. out.raised = FALSE /\ out.conv = ocr /\ out.status = status
      BY <3>2 DEF Served
    <3>6. CheckStatus(out.conv) /\ (out.status = "success_ocr_fallback" => ~Assess(out.conv))
      BY <2>9, <3>3, <3>5
    <3>7. out.status \in {"success", "success_scan_ocr", "success_ocr_fallback"} =>
            out.status = "success_ocr_fallback" /\ out.conv.status = "success"
      BY <3>3, <3>5
    <3> QED
      BY <2>1, <3>4, <3>6, <3>7 DEF Honest
  <2> QED
    BY <2>3, <2>4, <2>5, <2>6, <2>7, <2>8, <2>9
<1> QED
  BY <1>1, <1>2

\* Whatever the run takes to parse is of that kind.
LEMMA ParsesTaken == Spec => [](case.kind = "parse" => AnyParse(case))
<1> DEFINE Ofkind == case.kind = "parse" => AnyParse(case)
<1>1. Init => Ofkind
  BY DEF Init
<1>2. Ofkind /\ [Next]_case => Ofkind'
  <2> SUFFICES ASSUME Ofkind, [Next]_case PROVE Ofkind'
    OBVIOUS
  <2>1. CASE Next /\ case'.kind = "parse"
    <3>1. TakeParse
      BY <2>1, TakenByKind
    <3> QED
      BY <3>1 DEF TakeParse, AnyParse, AnyConversion, Conversions
  <2>2. CASE UNCHANGED case
    BY <2>2 DEF AnyParse
  <2> QED
    BY <2>1, <2>2
<1> QED
  BY <1>1, <1>2, PTL DEF Spec

\* However long a file is and whatever its two conversions found, what is served
\* is under an honest status, and so it is of all inputs of the run
\* (docling_parser.py).
THEOREM AnyStatusIsHonest ==
  (AnyParse(case) => StatusIsHonest) /\ (Spec => []StatusIsHonest)
<1>1. AnyParse(case) => StatusIsHonest
  BY ParseHonest DEF StatusIsHonest
<1>2. (case.kind = "parse" => AnyParse(case)) => StatusIsHonest
  BY <1>1 DEF StatusIsHonest
<1> QED
  BY <1>1, <1>2, ParsesTaken, PTL
-----------------------------------------------------------------------------
(* Number grounding.                                                       *)

\* Any figure but nil, and a text that states a scale.
AnyNumber(c) ==
  /\ c.kind = "number" /\ c.value \in Int \ {0} /\ c.unit \in Units
  /\ c.text.stated \in Units

\* Half a percent does not reach from one number to one twice as far from zero.
LEMMA TwiceIsFar ==
  ASSUME NEW v \in Int \ {0}, NEW s \in Nat \ {0}, NEW t \in Nat \ {0}, 2 * s <= t
  PROVE  ~Matches(v * s, v * t) /\ ~Matches(v * t, v * s)
<1> DEFINE x == Magnitude(v * s)
           y == Magnitude(v * t)
           m == Magnitude(v)
<1>1. m \in Nat /\ m > 0
  BY DEF Magnitude
<1>2. x = m * s /\ y = m * t
  <2>1. CASE v > 0
    <3>1. v * s > 0 /\ v * t > 0
      BY <2>1
    <3> QED
      BY <2>1, <3>1 DEF Magnitude
  <2>2. CASE v < 0
    <3>1. v * s < 0 /\ v * t < 0 /\ v * s \in Int /\ v * t \in Int
      BY <2>2
    <3>2. -(v * s) = (-v) * s /\ -(v * t) = (-v) * t
      OBVIOUS
    <3> QED
      BY <2>2, <3>1, <3>2 DEF Magnitude
  <2> QED
    BY <2>1, <2>2
<1>3. x \in Nat /\ y \in Nat /\ 0 < x /\ 2 * x <= y
  <2>1. m * s > 0 /\ m * (2 * s) <= m * t /\ m * (2 * s) = 2 * (m * s)
    BY <1>1
  <2>2. m * s \in Nat /\ m * t \in Nat
    BY <1>1
  <2> QED
    BY <1>2, <2>1, <2>2
<1> HIDE DEF x, y, m
<1>4. Magnitude(x - y) = y - x /\ Magnitude(y - x) = y - x
  BY <1>3 DEF Magnitude
<1>5. ~((y - x) * 200 <= y)
  BY <1>3
<1> QED
  BY <1>3, <1>4, <1>5 DEF Matches, x, y

\* A value is near itself.
LEMMA SameMatches == ASSUME NEW v \in Int PROVE Matches(v, v)
BY DEF Matches, Magnitude

\* Any number at the wrong scale is caught.
LEMMA NumberCaught ==
  ASSUME AnyNumber(case)
  PROVE  WrongScaleIsCaught
<1> DEFINE value == case.value
           unit == case.unit
           stated == case.text.stated
           number == [value |-> value, word |-> None]
           verdict == VerifyValue(value, unit, {case.text})
           Found == \/ value = 0 /\ case.text.nil
                    \/ Matches(value * UnitScale[unit], value)
                    \/ Matches(value * UnitScale[unit], value * UnitScale[stated])
<1> SUFFICES ASSUME case.text.numbers = {number}
             PROVE  /\ unit = stated => verdict = "grounded"
                    /\ unit \notin {stated, Absolute} => verdict = "not found"
  BY DEF WrongScaleIsCaught
<1>1. value \in Int /\ value # 0 /\ unit \in Units /\ stated \in Units /\ unit # None /\ stated # None
  BY NoneAssumption DEF AnyNumber
<1>2. UnitScale[unit] \in Nat \ {0} /\ UnitScale[stated] \in Nat \ {0}
      /\ UnitScale[Absolute] \in Nat \ {0} /\ Absolute \in Units
  BY <1>1, UnitAssumption
<1>3. verdict = IF Found THEN "grounded" ELSE "not found"
  <2>1. TextUnit(case.text, unit) = stated
    BY <1>1 DEF TextUnit
  <2>2. Candidates(number, stated) = {value, value * UnitScale[stated]}
    BY DEF Candidates, ToScale
  <2>3. (\E n \in case.text.numbers : \E c \in Candidates(n, TextUnit(case.text, unit)) :
           Matches(ToScale(value, unit), c))
        <=> \/ Matches(value * UnitScale[unit], value)
            \/ Matches(value * UnitScale[unit], value * UnitScale[stated])
    BY <2>1, <2>2 DEF ToScale
  <2>4. verdict = IF \/ value = 0 /\ case.text.nil
                     \/ \E n \in case.text.numbers :
                          \E c \in Candidates(n, TextUnit(case.text, unit)) :
                            Matches(ToScale(value, unit), c)
                  THEN "grounded" ELSE "not found"
    BY <1>1 DEF VerifyValue
  <2> QED
    BY <2>3, <2>4
<1> HIDE DEF verdict
<1>4. ASSUME unit = stated PROVE Found
  BY <1>1, <1>2, <1>4, SameMatches
<1>5. ASSUME unit \notin {stated, Absolute} PROVE ~Found
  <2>1. 2 * UnitScale[unit] <= UnitScale[stated] \/ 2 * UnitScale[stated] <= UnitScale[unit]
    BY <1>1, <1>5, UnitAssumption
  <2>2. 2 * UnitScale[Absolute] <= UnitScale[unit]
    <3>1. 2 * UnitScale[unit] <= UnitScale[Absolute] \/ 2 * UnitScale[Absolute] <= UnitScale[unit]
      BY <1>1, <1>2, <1>5, UnitAssumption
    <3>2. UnitScale[Absolute] = 1
      BY UnitAssumption
    <3> QED
      BY <1>2, <3>1, <3>2
  <2>3. ~Matches(value * UnitScale[unit], value * UnitScale[stated])
    BY <1>1, <1>2, <2>1, TwiceIsFar
  <2>4. ~Matches(value * UnitScale[unit], value * UnitScale[Absolute])
    BY <1>1, <1>2, <2>2, TwiceIsFar
  <2>5. value * UnitScale[Absolute] = value
    BY <1>1, UnitAssumption
  <2> QED
    BY <1>1, <2>3, <2>4, <2>5
<1> QED
  BY <1>3, <1>4, <1>5

\* Whatever the run takes to verify is of that kind.
LEMMA NumbersTaken == Spec => [](case.kind = "number" => AnyNumber(case))
<1> DEFINE Ofkind == case.kind = "number" => AnyNumber(case)
<1>1. Init => Ofkind
  BY DEF Init
<1>2. Ofkind /\ [Next]_case => Ofkind'
  <2> SUFFICES ASSUME Ofkind, [Next]_case PROVE Ofkind'
    OBVIOUS
  <2>1. CASE Next /\ case'.kind = "number"
    <3>1. TakeNumber
      BY <2>1, TakenByKind
    <3> QED
      BY <3>1 DEF TakeNumber, AnyNumber
  <2>2. CASE UNCHANGED case
    BY <2>2 DEF AnyNumber
  <2> QED
    BY <2>1, <2>2
<1> QED
  BY <1>1, <1>2, PTL DEF Spec

\* Whatever figure but nil is copied from whatever text that states a scale, the
\* wrong scale is caught, and so it is for all inputs of the run
\* (number_grounding.py).
THEOREM AnyWrongScaleIsCaught ==
  (AnyNumber(case) => WrongScaleIsCaught) /\ (Spec => []WrongScaleIsCaught)
<1>1. AnyNumber(case) => WrongScaleIsCaught
  BY NumberCaught
<1>2. (case.kind = "number" => AnyNumber(case)) => WrongScaleIsCaught
  BY <1>1 DEF WrongScaleIsCaught
<1> QED
  BY <1>1, <1>2, NumbersTaken, PTL
-----------------------------------------------------------------------------
(* Comparisons.                                                            *)

\* A figure of an agent's finding.
AnyFigure(Key, Metric, Currency, Date) ==
  [key : Key, metric : Metric, amount : Int, unit : Units \cup {None},
   currency : Currency \cup {None}, date : Date]
\* Findings in any number, each with any number of figures.
AnyComparison(c, Key, Metric, Currency, Date) ==
  /\ c.kind = "comparison"
  /\ c.findings \in Seq([supported : BOOLEAN, figures : Seq(AnyFigure(Key, Metric, Currency, Date))])
  /\ c.rates \in [Currency \X Date -> Int \cup {Missing}]

\* The rows are figures of the findings, whichever are supported.
LEMMA RowsAreFigures ==
  ASSUME NEW D, NEW findings \in Seq([supported : BOOLEAN, figures : Seq(D)])
  PROVE  Rows(findings) \in Seq(D)
<1> DEFINE N == Len(findings)
           Step(a, n) == IF findings[n].supported THEN a \o findings[n].figures ELSE a
           F == [x \in Seq(D) \X (1..N) |-> Step(x[1], x[2])]
           Equal(f) == f = [n \in 0..N |-> CASE n = 0 -> <<>>
                                             [] n # 0 /\ findings[n].supported ->
                                                  f[n - 1] \o findings[n].figures
                                             [] OTHER -> f[n - 1]]
           after == CHOOSE f : Equal(f)
<1>1. Rows(findings) = after[N]
  BY DEF Rows
<1>2. N \in Nat /\ \A n \in 1..N : findings[n].figures \in Seq(D)
  <2>1. N \in Nat /\ findings \in [1..N -> [supported : BOOLEAN, figures : Seq(D)]]
    BY LenProperties
  <2> HIDE DEF N
  <2>2. \A n \in 1..N : findings[n] \in [supported : BOOLEAN, figures : Seq(D)]
    BY <2>1
  <2> QED
    BY <2>1, <2>2
<1> HIDE DEF N
<1>3. \A a \in Seq(D), n \in 1..N : Step(a, n) \in Seq(D)
  <2> SUFFICES ASSUME NEW a \in Seq(D), NEW n \in 1..N PROVE Step(a, n) \in Seq(D)
    OBVIOUS
  <2>1. a \o findings[n].figures \in Seq(D)
    BY <1>2, ConcatProperties
  <2> QED
    BY <2>1
<1>4. F \in [Seq(D) \X (1..N) -> Seq(D)] /\ <<>> \in Seq(D)
  BY <1>3, EmptySeq
<1>5. \A a \in Seq(D), n \in 1..N : F[<<a, n>>] = Step(a, n)
  OBVIOUS
<1> HIDE DEF F
<1>6. \E f : Equal(f)
  <2>0. PICK f : Chained(f, Seq(D), <<>>, N, F)
    BY <1>2, <1>4, Chain
  <2>1. f \in [0..N -> Seq(D)] /\ f[0] = <<>> /\ \A n \in 1..N : f[n] = F[<<f[n - 1], n>>]
    BY <2>0 DEF Chained
  <2>2. ASSUME NEW n \in 1..N PROVE f[n] = Step(f[n - 1], n)
    <3>1. f[n - 1] \in Seq(D)
      BY <1>2, <2>1
    <3> QED
      BY <1>5, <2>1, <3>1
  <2>3. Equal(f)
    BY <1>2, <2>1, <2>2, SMTT(30)
  <2> QED
    BY <2>3
<1>7. Equal(after)
  BY <1>6
<1> HIDE DEF after
<1>8. after[0] = <<>> /\ \A n \in 1..N : after[n] = Step(after[n - 1], n)
  <2>1. 0 \in 0..N /\ \A n \in 1..N : n \in 0..N /\ n # 0
    BY <1>2
  <2>2. after[0] = <<>>
    BY <1>7, <2>1
  <2>3. ASSUME NEW n \in 1..N PROVE after[n] = Step(after[n - 1], n)
    BY <1>7, <2>1
  <2> QED
    BY <2>2, <2>3
<1> DEFINE G == {n \in 0..N : after[n] \in Seq(D)}
<1>9. 0 \in G /\ \A n \in 1..N : n - 1 \in G => n \in G
  <2>1. 0 \in 0..N /\ \A n \in 1..N : n \in 0..N /\ n - 1 \in 0..N
    BY <1>2
  <2>2. 0 \in G
    BY <1>4, <1>8, <2>1
  <2>3. ASSUME NEW n \in 1..N, n - 1 \in G PROVE n \in G
    <3>1. Step(after[n - 1], n) \in Seq(D)
      BY <1>3, <2>3
    <3> QED
      BY <1>8, <2>1, <3>1
  <2> QED
    BY <2>2, <2>3
<1>10. N \in G
  <2> HIDE DEF G
  <2>1. \A n \in 0..N : n \in G
    BY <1>2, <1>9, Upwards
  <2> QED
    BY <1>2, <2>1
<1> QED
  BY <1>1, <1>10

\* What is picked is at one of the places, and no less extreme than any.
LEMMA PickIsExtreme ==
  ASSUME NEW n \in Nat, NEW P \in SUBSET (1..n), P # {}, NEW ns, NEW op \in {"argmin", "argmax"},
         \A i \in P : RankKey(ns[i]) \in Int
  PROVE  \E i \in P : /\ Pick(op, ns, P) = ns[i]
                      /\ \A j \in P : IF op = "argmin" THEN RankKey(ns[i]) <= RankKey(ns[j])
                                      ELSE RankKey(ns[i]) >= RankKey(ns[j])
<1> DEFINE key == [i \in P |-> IF op = "argmin" THEN RankKey(ns[i]) ELSE -RankKey(ns[i])]
           Better(i, j) == IF op = "argmin" THEN RankKey(ns[i]) < RankKey(ns[j])
                           ELSE RankKey(ns[i]) > RankKey(ns[j])
           Best(i) == \A j \in P : ~Better(j, i) /\ (j < i => Better(i, j))
           best == CHOOSE i \in P : Best(i)
<1>1. key \in [P -> Int]
  OBVIOUS
<1>2. PICK i \in P : \A j \in P : key[i] <= key[j] /\ (j < i => key[i] < key[j])
  <2> HIDE DEF key
  <2> QED
    BY <1>1, FirstOfLeast
<1>3. Best(i)
  <2>1. \A j \in P : key[j] = (IF op = "argmin" THEN RankKey(ns[j]) ELSE -RankKey(ns[j]))
    OBVIOUS
  <2> HIDE DEF key
  <2> SUFFICES ASSUME NEW j \in P PROVE ~Better(j, i) /\ (j < i => Better(i, j))
    OBVIOUS
  <2>4. RankKey(ns[i]) \in Int /\ RankKey(ns[j]) \in Int
    OBVIOUS
  <2>2. CASE op = "argmin"
    <3>1. key[i] = RankKey(ns[i]) /\ key[j] = RankKey(ns[j])
      BY <2>1, <2>2
    <3> QED
      BY <1>2, <2>2, <2>4, <3>1
  <2>3. CASE op = "argmax"
    <3>1. key[i] = -RankKey(ns[i]) /\ key[j] = -RankKey(ns[j])
      BY <2>1, <2>3
    <3> QED
      BY <1>2, <2>3, <2>4, <3>1
  <2> QED
    BY <2>2, <2>3
<1>4. best \in P /\ Best(best)
  BY <1>3
<1>5. Pick(op, ns, P) = ns[best]
  BY DEF Pick
<1> HIDE DEF best
<1> QED
  BY <1>4, <1>5

\* Converting and scaling is the same as scaling and converting.
LEMMA KeyIsWorth ==
  ASSUME NEW r, r.amount \in Int, r.unit \in Units, r.currency # None, NEW target, NEW rates,
         Converts(r, target) => rates[<<r.currency, r.date>>] \in Int
  PROVE  LET ns == Normalized(r, target, rates) IN
         /\ ns.figure = r /\ ns.amount \in Int
         /\ RankKey(ns) = Worth(r, target, rates) /\ RankKey(ns) \in Int
<1> DEFINE ns == Normalized(r, target, rates)
           scale == UnitScale[r.unit]
<1>0. scale \in Int
  BY UnitAssumption
<1>1. Converts(r, target) <=> ~(target = None \/ r.currency = target)
  BY DEF Converts
<1>2. ns.figure = r
  BY DEF Normalized
<1>3. CASE Converts(r, target)
  <2> DEFINE rate == rates[<<r.currency, r.date>>]
  <2>1. rate \in Int /\ rate # Missing
    BY <1>3, NoneAssumption
  <2>2. ns.amount = r.amount * rate
    BY <1>3, <2>1 DEF Normalized
  <2>3. RankKey(ns) = (r.amount * rate) * scale
    BY <1>2, <2>2 DEF RankKey, ToScale
  <2>4. Worth(r, target, rates) = (r.amount * scale) * rate
    BY <1>1, <1>3 DEF Worth
  <2> HIDE DEF rate, scale, ns
  <2>5. (r.amount * rate) * scale = (r.amount * scale) * rate /\ (r.amount * rate) * scale \in Int
        /\ r.amount * rate \in Int
    BY <1>0, <2>1
  <2> QED
    BY <1>2, <2>2, <2>3, <2>4, <2>5 DEF ns
<1>4. CASE ~Converts(r, target)
  <2>1. ns.amount = r.amount
    BY <1>4 DEF Normalized
  <2>2. RankKey(ns) = r.amount * scale
    BY <1>2, <2>1 DEF RankKey, ToScale
  <2>3. Worth(r, target, rates) = (r.amount * scale) * 1
    BY <1>1, <1>4 DEF Worth
  <2> HIDE DEF scale, ns
  <2>4. (r.amount * scale) * 1 = r.amount * scale /\ r.amount * scale \in Int
    BY <1>0
  <2> QED
    BY <1>2, <2>1, <2>2, <2>3, <2>4 DEF ns
<1> QED
  BY <1>3, <1>4

\* With no currency to convert to, the rows of a comparison are in one.
LEMMA OneCurrency ==
  ASSUME NEW D, NEW rows \in Seq(D), NEW op, Comparison(op), NEW requested,
         Target(rows, op, requested) = None, NEW i \in DOMAIN rows, NEW j \in DOMAIN rows,
         rows[i].currency # None, rows[j].currency # None
  PROVE  rows[i].currency = rows[j].currency
<1> DEFINE C == Currencies(rows)
           f == [k \in 1..Len(rows) |-> rows[k].currency]
<1>1. Len(rows) \in Nat /\ DOMAIN rows = 1..Len(rows)
  BY LenProperties
<1>2. \A c \in C : \E k \in 1..Len(rows) : f[k] = c
  BY <1>1 DEF Currencies, Elements
<1>5. IsFiniteSet(C) /\ Cardinality(C) \in Nat
  <2> HIDE DEF C, f
  <2>1. DOMAIN f = 1..Len(rows)
    BY DEF f
  <2> QED
    BY <1>1, <1>2, <2>1, FiniteRange
<1>6. rows[i].currency \in C /\ rows[j].currency \in C
  BY DEF Currencies, Elements
<1>7. ~(Cardinality(C) > 1)
  BY NoneAssumption DEF Target
<1> HIDE DEF C
<1> SUFFICES ASSUME rows[i].currency # rows[j].currency PROVE FALSE
  OBVIOUS
<1> DEFINE two == {rows[i].currency, rows[j].currency}
<1>8. Cardinality(two) = 2
  <2>1. two = {rows[i].currency} \cup {rows[j].currency}
    OBVIOUS
  <2>2. IsFiniteSet({rows[i].currency}) /\ Cardinality({rows[i].currency}) = 1
    BY FS_Singleton
  <2>3. Cardinality({rows[i].currency} \cup {rows[j].currency}) = 2
    <3>1. rows[j].currency \notin {rows[i].currency}
      OBVIOUS
    <3>2. 1 + 1 = 2
      OBVIOUS
    <3> HIDE DEF two
    <3> QED
      BY <2>2, <3>1, <3>2, FS_AddElement, ZenonT(40)
  <2> QED
    BY <2>1, <2>3
<1>9. two \subseteq C
  BY <1>6
<1>10. Cardinality(two) <= Cardinality(C)
  BY <1>5, <1>9, FS_Subset
<1> QED
  BY <1>5, <1>7, <1>8, <1>10

\* Of any findings the comparison names an extreme, or nothing.
LEMMA ComparisonExtreme ==
  ASSUME NEW Key, NEW Metric, NEW Currency, NEW Date,
         AnyComparison(case, Key, Metric, Currency, Date)
  PROVE  AnswerIsExtreme
<1> DEFINE D == AnyFigure(Key, Metric, Currency, Date)
           rows == Rows(case.findings)
           rates == case.rates
           op == case.op
           target == Target(rows, op, case.requested)
           failed == Failed(rows, target, rates)
           ns == [i \in DOMAIN rows |-> Normalized(rows[i], target, rates)]
           places == {i \in DOMAIN rows : Rankable(ns[i])}
           result == ProcessFindings(case.findings, op, case.requested, rates, TRUE)
<1>1. rows \in Seq(D)
  BY RowsAreFigures DEF AnyComparison
<1>2. /\ rates \in [Currency \X Date -> Int \cup {Missing}]
      /\ \A r \in D : r.amount \in Int /\ r.unit \in Units \cup {None}
                      /\ r.currency \in Currency \cup {None} /\ r.date \in Date
  BY DEF AnyComparison, AnyFigure
<1>3. result.target = target
  BY DEF ProcessFindings
<1>4. result.answer # None =>
        /\ op \in {"argmin", "argmax"} /\ failed = {}
        /\ result.answer = Pick(op, ns, places)
  BY DEF ProcessFindings, Aborts, Comparison
<1> HIDE DEF rows, ns, places, failed, target, D
<1> SUFFICES ASSUME NEW out, out.target = target, out.answer # None, failed = {},
                    op \in {"argmin", "argmax"}, out.answer = Pick(op, ns, places)
             PROVE  Extreme(rows, out)
  <2>1. case.kind = "comparison" => Extreme(rows, result)
    <3> HIDE DEF result
    <3> QED
      BY <1>3, <1>4 DEF Extreme
  <2> QED
    BY <2>1 DEF AnswerIsExtreme, rows
<1>5. Len(rows) \in Nat /\ DOMAIN rows = 1..Len(rows) /\ \A i \in 1..Len(rows) : rows[i] \in D
  BY <1>1, LenProperties
<1>6. places \subseteq 1..Len(rows) /\ places # {}
  BY <1>5 DEF places, Pick
<1>7. ASSUME NEW i \in 1..Len(rows), rows[i].currency # None, rows[i].unit # None
      PROVE  /\ ns[i].figure = rows[i] /\ i \in places
             /\ RankKey(ns[i]) = Worth(rows[i], target, rates) /\ RankKey(ns[i]) \in Int
  <2> DEFINE r == rows[i]
  <2>1. r.amount \in Int /\ r.unit \in Units /\ r.currency \in Currency /\ r.date \in Date
    BY <1>2, <1>5, <1>7
  <2>2. Converts(r, target) => rates[<<r.currency, r.date>>] \in Int
    <3>1. <<r.currency, r.date>> \in Currency \X Date
      BY <2>1
    <3>2. rates[<<r.currency, r.date>>] \in Int \cup {Missing}
      BY <1>2, <3>1
    <3>3. Converts(r, target) => rates[<<r.currency, r.date>>] # Missing
      BY <1>5 DEF failed, Failed, ToSet
    <3> QED
      BY <3>2, <3>3
  <2>3. ns[i] = Normalized(r, target, rates)
    BY <1>5 DEF ns
  <2>4. /\ ns[i].figure = r /\ ns[i].amount \in Int
        /\ RankKey(ns[i]) = Worth(r, target, rates) /\ RankKey(ns[i]) \in Int
    BY <1>7, <2>1, <2>2, <2>3, KeyIsWorth
  <2>5. Rankable(ns[i])
    BY <1>7, <2>4, NoneAssumption DEF Rankable
  <2> QED
    BY <1>5, <2>4, <2>5 DEF places
<1>8. \A i \in places : rows[i].currency # None /\ rows[i].unit # None
  BY <1>5 DEF places, Rankable, ns, Normalized
<1>9. PICK i \in places :
        /\ out.answer = ns[i]
        /\ \A j \in places : IF op = "argmin" THEN RankKey(ns[i]) <= RankKey(ns[j])
                             ELSE RankKey(ns[i]) >= RankKey(ns[j])
  <2>1. \A j \in places : RankKey(ns[j]) \in Int
    BY <1>6, <1>7, <1>8
  <2>2. Len(rows) \in Nat /\ places \in SUBSET (1..Len(rows)) /\ places # {}
        /\ op \in {"argmin", "argmax"}
    BY <1>5, <1>6
  <2> HIDE DEF op
  <2>3. \E i \in places :
          /\ Pick(op, ns, places) = ns[i]
          /\ \A j \in places : IF op = "argmin" THEN RankKey(ns[i]) <= RankKey(ns[j])
                               ELSE RankKey(ns[i]) >= RankKey(ns[j])
    BY <2>1, <2>2, PickIsExtreme, ZenonT(40)
  <2> QED
    BY <2>3
<1>10. out.answer.figure = rows[i] /\ RankKey(ns[i]) = Worth(rows[i], target, rates)
  BY <1>6, <1>7, <1>8, <1>9
<1>11. out.answer.figure \in ToSet(rows)
  BY <1>5, <1>6, <1>10 DEF ToSet
<1>12. ASSUME NEW r \in ToSet(rows), r.currency # None, r.unit # None
       PROVE  /\ IF op = "argmin" THEN Worth(rows[i], target, rates) <= Worth(r, target, rates)
                 ELSE Worth(rows[i], target, rates) >= Worth(r, target, rates)
              /\ target = None => r.currency = rows[i].currency
  <2>1. PICK j \in 1..Len(rows) : r = rows[j]
    BY <1>5 DEF ToSet
  <2>2. j \in places /\ RankKey(ns[j]) = Worth(r, target, rates)
    BY <1>7, <1>12, <2>1
  <2>3. ASSUME target = None PROVE r.currency = rows[i].currency
    <3>1. Target(rows, op, case.requested) = None /\ Comparison(op)
      BY <2>3 DEF target, Comparison
    <3>2. i \in DOMAIN rows /\ j \in DOMAIN rows
      BY <1>5, <1>6
    <3> QED
      BY <1>1, <1>8, <1>12, <2>1, <3>1, <3>2, OneCurrency
  <2> QED
    BY <1>9, <1>10, <2>2, <2>3
<1> HIDE DEF op, rates
<1> QED
  BY <1>10, <1>11, <1>12 DEF Extreme, failed, op, rates

\* Whatever the run takes to compare is of that kind.
LEMMA ComparisonsTaken ==
  Spec => [](case.kind = "comparison" =>
               AnyComparison(case, {"k1", "k2"}, {"m"}, {Dollar, "EUR"}, {"d"}))
<1> DEFINE Suits(c) == AnyComparison(c, {"k1", "k2"}, {"m"}, {Dollar, "EUR"}, {"d"})
           Ofkind == case.kind = "comparison" => Suits(case)
<1>1. Init => Ofkind
  BY DEF Init
<1>2. Ofkind /\ [Next]_case => Ofkind'
  <2> SUFFICES ASSUME Ofkind, [Next]_case PROVE Ofkind'
    OBVIOUS
  <2>1. CASE Next /\ case'.kind = "comparison"
    <3> DEFINE D == AnyFigure({"k1", "k2"}, {"m"}, {Dollar, "EUR"}, {"d"})
               R == [supported : BOOLEAN, figures : Seq(D)]
    <3>1. PICK f \in Figure, g \in Figure, rates \in Rates, op \in {"argmin", "argmax", "list"},
               requested \in {None, Dollar}, supported \in BOOLEAN :
            case' = [kind |-> "comparison", rates |-> rates, op |-> op, requested |-> requested,
                     findings |-> <<Reported(f), [Reported(g) EXCEPT !.supported = supported]>>]
      BY <2>1, TakenByKind DEF TakeComparison
    <3>2. f \in D /\ g \in D
      BY DEF Figure, AnyFigure
    <3>3. rates \in [{Dollar, "EUR"} \X {"d"} -> Int \cup {Missing}]
      BY DEF Rates
    <3> HIDE DEF D
    <3>4. <<f>> \in Seq(D) /\ <<g>> \in Seq(D)
      BY <3>2
    <3>5. Reported(f) \in R /\ [Reported(g) EXCEPT !.supported = supported] \in R
      BY <3>4 DEF Reported
    <3> HIDE DEF R
    <3>6. <<Reported(f), [Reported(g) EXCEPT !.supported = supported]>> \in Seq(R)
      BY <3>5
    <3>7. case'.kind = "comparison" /\ case'.findings \in Seq(R)
          /\ case'.rates \in [{Dollar, "EUR"} \X {"d"} -> Int \cup {Missing}]
      BY <3>1, <3>3, <3>6
    <3> QED
      BY <3>7 DEF AnyComparison, R, D
  <2>2. CASE UNCHANGED case
    BY <2>2 DEF AnyComparison
  <2> QED
    BY <2>1, <2>2
<1> QED
  BY <1>1, <1>2, PTL DEF Spec

\* However many findings report however many figures, in whatever currencies, at
\* whatever scales and rates, the figure a comparison names is an extreme of
\* them all, and so it is for all inputs of the run (processor.py).
THEOREM AnyAnswerIsExtreme ==
  /\ \A Key, Metric, Currency, Date :
       AnyComparison(case, Key, Metric, Currency, Date) => AnswerIsExtreme
  /\ Spec => []AnswerIsExtreme
<1> DEFINE Suits == AnyComparison(case, {"k1", "k2"}, {"m"}, {Dollar, "EUR"}, {"d"})
<1>1. \A Key, Metric, Currency, Date :
        AnyComparison(case, Key, Metric, Currency, Date) => AnswerIsExtreme
  BY ComparisonExtreme
<1>2. (case.kind = "comparison" => Suits) => AnswerIsExtreme
  BY <1>1 DEF AnswerIsExtreme
<1>3. Spec => [](case.kind = "comparison" => Suits)
  BY ComparisonsTaken
<1> QED
  BY <1>1, <1>2, <1>3, PTL
-----------------------------------------------------------------------------
(* Searches.                                                               *)

\* The rank of a chunk is its first place in a ranking.
LEMMA RankIsFirst ==
  ASSUME NEW D, NEW s \in Seq(D), NEW c
  PROVE  /\ Rank(s, c) \in 0..Len(s) /\ Len(s) \in Nat
         /\ c \in ToSet(s) <=> Rank(s, c) > 0
         /\ Rank(s, c) > 0 => s[Rank(s, c)] = c
         /\ \A i \in 1..Len(s) : s[i] = c => Rank(s, c) <= i
<1> DEFINE I == {i \in 1..Len(s) : s[i] = c}
<1>1. Rank(s, c) = IF I # {} THEN CHOOSE x \in I : \A y \in I : x <= y ELSE 0
  BY DEF Rank, SelectInSeq, Min
<1>2. Len(s) \in Nat /\ DOMAIN s = 1..Len(s)
  BY LenProperties
<1>3. c \in ToSet(s) <=> I # {}
  BY <1>2 DEF ToSet
<1>4. I # {} => \E x \in I : \A y \in I : x <= y
  <2>1. I \in SUBSET Nat
    BY <1>2
  <2> HIDE DEF I
  <2> QED
    BY <2>1, LeastNumber
<1> DEFINE least == CHOOSE x \in I : \A y \in I : x <= y
<1>5. I # {} => least \in I /\ \A y \in I : least <= y
  BY <1>4
<1> HIDE DEF least
<1> QED
  BY <1>1, <1>2, <1>3, <1>5 DEF least

\* The places of what two rankings list, one after the other.
LEMMA BothParts ==
  ASSUME NEW D, NEW s \in Seq(D), NEW t \in Seq(D), NEW x
  PROVE  x \in ToSet(s \o t) <=> x \in ToSet(s) \/ x \in ToSet(t)
<1>1. Len(s) \in Nat /\ Len(t) \in Nat /\ DOMAIN s = 1..Len(s) /\ DOMAIN t = 1..Len(t)
  BY LenProperties
<1>2. s \o t \in Seq(D) /\ Len(s \o t) = Len(s) + Len(t)
      /\ \A i \in 1..Len(s) + Len(t) : (s \o t)[i] = IF i <= Len(s) THEN s[i] ELSE t[i - Len(s)]
  BY ConcatProperties
<1>3. DOMAIN (s \o t) = 1..Len(s) + Len(t)
  BY <1>2, LenProperties
<1>4. ASSUME NEW i \in 1..Len(s) PROVE (s \o t)[i] = s[i] /\ i \in 1..Len(s) + Len(t)
  BY <1>1, <1>2
<1>5. ASSUME NEW i \in 1..Len(t)
      PROVE  (s \o t)[Len(s) + i] = t[i] /\ Len(s) + i \in 1..Len(s) + Len(t)
  <2>1. Len(s) + i \in 1..Len(s) + Len(t) /\ ~(Len(s) + i <= Len(s)) /\ Len(s) + i - Len(s) = i
    BY <1>1
  <2> QED
    BY <1>2, <2>1
<1>6. ASSUME NEW i \in 1..Len(s) + Len(t) PROVE (s \o t)[i] \in ToSet(s) \cup ToSet(t)
  <2>1. CASE i <= Len(s)
    <3>1. i \in 1..Len(s) /\ (s \o t)[i] = s[i]
      BY <1>1, <1>2, <2>1
    <3> QED
      BY <1>1, <3>1 DEF ToSet
  <2>2. CASE ~(i <= Len(s))
    <3>1. i - Len(s) \in 1..Len(t) /\ (s \o t)[i] = t[i - Len(s)]
      BY <1>1, <1>2, <2>2
    <3> QED
      BY <1>1, <3>1 DEF ToSet
  <2> QED
    BY <2>1, <2>2
<1>7. ASSUME x \in ToSet(s) PROVE x \in ToSet(s \o t)
  <2>1. PICK i \in 1..Len(s) : s[i] = x
    BY <1>1, <1>7 DEF ToSet
  <2> QED
    BY <1>3, <1>4, <2>1 DEF ToSet
<1>8. ASSUME x \in ToSet(t) PROVE x \in ToSet(s \o t)
  <2>1. PICK i \in 1..Len(t) : t[i] = x
    BY <1>1, <1>8 DEF ToSet
  <2>2. Len(s) + i \in DOMAIN (s \o t) /\ (s \o t)[Len(s) + i] = x
    BY <1>3, <1>5, <2>1
  <2> QED
    BY <2>2 DEF ToSet
<1>9. ASSUME x \in ToSet(s \o t) PROVE x \in ToSet(s) \cup ToSet(t)
  <2>1. PICK i \in 1..Len(s) + Len(t) : (s \o t)[i] = x
    BY <1>3, <1>9 DEF ToSet
  <2> QED
    BY <1>6, <2>1
<1> QED
  BY <1>7, <1>8, <1>9

\* A chunk of the first part is found there, one of the second part behind it.
LEMMA RankInFront ==
  ASSUME NEW D, NEW s \in Seq(D), NEW t \in Seq(D), NEW c \in ToSet(s)
  PROVE  Rank(s \o t, c) = Rank(s, c)
<1> DEFINE a == Rank(s, c) b == Rank(s \o t, c)
<1>1. Len(s) \in Nat /\ Len(t) \in Nat
  BY LenProperties
<1>2. s \o t \in Seq(D) /\ Len(s \o t) = Len(s) + Len(t)
      /\ \A i \in 1..Len(s) + Len(t) : (s \o t)[i] = IF i <= Len(s) THEN s[i] ELSE t[i - Len(s)]
  BY ConcatProperties
<1>3. a \in 1..Len(s) /\ s[a] = c /\ \A i \in 1..Len(s) : s[i] = c => a <= i
  BY <1>1, RankIsFirst
<1>4. c \in ToSet(s \o t)
  BY BothParts
<1>5. b \in 1..Len(s) + Len(t) /\ (s \o t)[b] = c
      /\ \A i \in 1..Len(s) + Len(t) : (s \o t)[i] = c => b <= i
  <2> DEFINE u == s \o t
  <2> HIDE DEF u
  <2>1. Rank(u, c) \in 0..Len(u) /\ Rank(u, c) > 0 /\ u[Rank(u, c)] = c
        /\ \A i \in 1..Len(u) : u[i] = c => Rank(u, c) <= i
    BY <1>2, <1>4, RankIsFirst DEF u
  <2>2. Len(u) = Len(s) + Len(t)
    BY <1>2 DEF u
  <2> QED
    BY <1>1, <2>1, <2>2 DEF u
<1> HIDE DEF a, b
<1>6. a \in 1..Len(s) + Len(t) /\ (s \o t)[a] = c
  BY <1>1, <1>2, <1>3
<1>7. b <= a
  BY <1>5, <1>6
<1>8. b \in 1..Len(s) /\ s[b] = c
  BY <1>1, <1>2, <1>3, <1>5, <1>7
<1> QED
  BY <1>3, <1>7, <1>8 DEF a, b

\* What only the other ranking lists comes behind all of this one.
LEMMA RankBehind ==
  ASSUME NEW D, NEW s \in Seq(D), NEW t \in Seq(D), NEW c \in ToSet(t), c \notin ToSet(s)
  PROVE  Rank(s \o t, c) = Len(s) + Rank(t, c)
<1> DEFINE a == Rank(t, c) b == Rank(s \o t, c)
<1>1. Len(s) \in Nat /\ Len(t) \in Nat /\ DOMAIN s = 1..Len(s)
  BY LenProperties
<1>2. s \o t \in Seq(D) /\ Len(s \o t) = Len(s) + Len(t)
      /\ \A i \in 1..Len(s) + Len(t) : (s \o t)[i] = IF i <= Len(s) THEN s[i] ELSE t[i - Len(s)]
  BY ConcatProperties
<1>3. a \in 1..Len(t) /\ t[a] = c /\ \A i \in 1..Len(t) : t[i] = c => a <= i
  BY <1>1, RankIsFirst
<1>4. c \in ToSet(s \o t)
  BY BothParts
<1>5. b \in 1..Len(s) + Len(t) /\ (s \o t)[b] = c
      /\ \A i \in 1..Len(s) + Len(t) : (s \o t)[i] = c => b <= i
  <2> DEFINE u == s \o t
  <2> HIDE DEF u
  <2>1. Rank(u, c) \in 0..Len(u) /\ Rank(u, c) > 0 /\ u[Rank(u, c)] = c
        /\ \A i \in 1..Len(u) : u[i] = c => Rank(u, c) <= i
    BY <1>2, <1>4, RankIsFirst DEF u
  <2>2. Len(u) = Len(s) + Len(t)
    BY <1>2 DEF u
  <2> QED
    BY <1>1, <2>1, <2>2 DEF u
<1>6. \A i \in 1..Len(s) : s[i] # c
  BY <1>1 DEF ToSet
<1> HIDE DEF a, b
<1>7. Len(s) + a \in 1..Len(s) + Len(t) /\ (s \o t)[Len(s) + a] = c
  <2>1. Len(s) + a \in 1..Len(s) + Len(t) /\ ~(Len(s) + a <= Len(s)) /\ Len(s) + a - Len(s) = a
    BY <1>1, <1>3
  <2> QED
    BY <1>2, <1>3, <2>1
<1>8. b <= Len(s) + a
  BY <1>5, <1>7
<1>9. ~(b <= Len(s))
  BY <1>1, <1>2, <1>5, <1>6
<1>10. b - Len(s) \in 1..Len(t) /\ t[b - Len(s)] = c
  BY <1>1, <1>2, <1>5, <1>9
<1>11. a <= b - Len(s)
  BY <1>3, <1>10
<1> QED
  BY <1>1, <1>3, <1>5, <1>8, <1>11, SMTT(30) DEF a, b

\* The beginning of a ranking.
LEMMA FirstFacts ==
  ASSUME NEW D, NEW s \in Seq(D), NEW n \in Nat
  PROVE  /\ First(s, n) \in Seq(D)
         /\ Len(First(s, n)) = IF n < Len(s) THEN n ELSE Len(s)
         /\ \A i \in 1..Len(First(s, n)) : i \in 1..Len(s) /\ First(s, n)[i] = s[i]
<1> DEFINE m == IF n < Len(s) THEN n ELSE Len(s)
<1>1. Len(s) \in Nat
  BY LenProperties
<1>2. m \in Nat /\ m <= Len(s) /\ \A i \in 1..m : i \in 1..Len(s)
  BY <1>1
<1>3. First(s, n) = SubSeq(s, 1, m)
  BY DEF First
<1> HIDE DEF m
<1>4. 1 \in 1..Len(s) + 1 /\ m \in 0..Len(s)
  BY <1>1, <1>2
<1>5. SubSeq(s, 1, m) \in Seq(D) /\ Len(SubSeq(s, 1, m)) = m /\ \A i \in 1..m : SubSeq(s, 1, m)[i] = s[i]
  BY <1>1, <1>2
<1> QED
  BY <1>2, <1>3, <1>5 DEF m

\* A better place is worth no less, and what a ranking has not is worth nothing.
LEMMA ShareFacts ==
  ASSUME NEW w \in Nat, NEW D, NEW s \in Seq(D), NEW c, NEW d
  PROVE  /\ Share(w, s, c) \in Nat
         /\ Rank(s, c) > 0 /\ Rank(s, c) < Rank(s, d) => Share(w, s, c) >= Share(w, s, d)
         /\ d \notin ToSet(s) => Share(w, s, d) = 0
<1> DEFINE a == Rank(s, c) b == Rank(s, d) x == w * Scale
<1>1. a \in Nat /\ b \in Nat /\ RrfK \in Nat
  BY RankIsFirst, RrfAssumption
<1>2. d \notin ToSet(s) => ~(b > 0)
  BY RankIsFirst
<1>3. x \in Nat
  BY RrfAssumption
<1>4. Share(w, s, c) = IF w > 0 /\ a > 0 THEN x \div (RrfK + a) ELSE 0
  BY DEF Share
<1>5. Share(w, s, d) = IF w > 0 /\ b > 0 THEN x \div (RrfK + b) ELSE 0
  BY DEF Share
<1> HIDE DEF a, b, x
<1>6. a > 0 => x \div (RrfK + a) \in Nat
  BY <1>1, <1>3
<1>7. a > 0 /\ a < b => x \div (RrfK + a) >= x \div (RrfK + b)
  BY <1>1, <1>3
<1> QED
  BY <1>1, <1>2, <1>4, <1>5, <1>6, <1>7 DEF a, b

\* The fusion lists chunks that were found, each once, by their scores.
LEMMA FusionFacts ==
  ASSUME NEW D, NEW vector \in Seq(D), NEW keyword \in Seq(D)
  PROVE  LET v == IF VectorWeight > 0 THEN vector ELSE <<>>
             k == IF KeywordWeight > 0 THEN keyword ELSE <<>>
             f == FuseRrf(vector, keyword)
         IN  /\ f \in Seq(D)
             /\ ToSet(f) \subseteq ToSet(v \o k)
             /\ \A c, d \in ToSet(f) :
                  \/ Fused(v, k, c) > Fused(v, k, d)
                  \/ Fused(v, k, c) = Fused(v, k, d) /\ Rank(v \o k, c) < Rank(v \o k, d)
                  => Rank(f, c) < Rank(f, d)
             /\ RrfTopK > 0 /\ v \o k # <<>> => f # <<>>
<1> DEFINE v == IF VectorWeight > 0 THEN vector ELSE <<>>
           k == IF KeywordWeight > 0 THEN keyword ELSE <<>>
           f == FuseRrf(vector, keyword)
           all == v \o k
           seen == ToSet(all)
           score == [c \in seen |-> Fused(v, k, c)]
           place == [c \in seen |-> Rank(all, c)]
           R == {p \in seen \X seen : \/ Fused(v, k, p[1]) > Fused(v, k, p[2])
                                      \/ Fused(v, k, p[1]) = Fused(v, k, p[2])
                                         /\ Rank(all, p[1]) < Rank(all, p[2])}
           sorted == Sorted(seen, R)
           N == Cardinality(seen)
<1>1. f = IF RrfTopK <= 0 THEN <<>> ELSE First(sorted, RrfTopK)
  BY DEF FuseRrf
<1>2. v \in Seq(D) /\ k \in Seq(D)
  BY EmptySeq
<1> HIDE DEF v, k
<1>3. all \in Seq(D) /\ Len(all) \in Nat /\ DOMAIN all = 1..Len(all)
  BY <1>2, ConcatProperties, LenProperties
<1> HIDE DEF all
<1>4. seen \subseteq D /\ \A c \in seen : \E i \in 1..Len(all) : all[i] = c
  BY <1>3, LenProperties DEF ToSet
<1>5. IsFiniteSet(seen)
  <2> HIDE DEF seen
  <2> QED
    BY <1>3, <1>4, FiniteRange
<1>6. \A c \in seen : Rank(all, c) \in Nat /\ Rank(all, c) > 0 /\ all[Rank(all, c)] = c
  BY <1>3, RankIsFirst
<1>7. \A c : Fused(v, k, c) \in Nat
  <2> SUFFICES ASSUME NEW c PROVE Fused(v, k, c) \in Nat
    OBVIOUS
  <2>1. VectorWeight \in Nat /\ KeywordWeight \in Nat
    BY WeightAssumption
  <2>2. Share(VectorWeight, v, c) \in Nat /\ Share(KeywordWeight, k, c) \in Nat
    BY <1>2, <2>1, ShareFacts
  <2> QED
    BY <2>2 DEF Fused
<1>8. score \in [seen -> Int] /\ place \in [seen -> Int]
      /\ \A c, d \in seen : place[c] = place[d] => c = d
  BY <1>6, <1>7
<1>9. StrictOrder(R, seen)
  <2>1. \A c, d \in seen : <<c, d>> \in R <=> \/ score[c] > score[d]
                                              \/ score[c] = score[d] /\ place[c] < place[d]
    OBVIOUS
  <2> HIDE DEF R, score, place, seen
  <2>2. ByScoreAndPlace(R, seen, score, place)
    BY <1>8, <2>1 DEF ByScoreAndPlace
  <2> QED
    BY <2>2, ScoreOrder
<1>10. /\ N \in Nat /\ sorted \in [1..N -> seen]
       /\ \A m, n \in 1..N : m < n <=> <<sorted[m], sorted[n]>> \in R
       /\ \A m, n \in 1..N : sorted[m] = sorted[n] => m = n
       /\ \A x \in seen : \E n \in 1..N : sorted[n] = x
  <2> HIDE DEF R, seen
  <2> QED
    BY <1>5, <1>9, SortedFacts
<1>11. \A c, d \in seen : <<c, d>> \in R <=>
          \/ Fused(v, k, c) > Fused(v, k, d)
          \/ Fused(v, k, c) = Fused(v, k, d) /\ Rank(all, c) < Rank(all, d)
  OBVIOUS
<1> HIDE DEF R, sorted, N
<1>12. sorted \in Seq(D) /\ Len(sorted) = N
  <2>1. sorted \in [1..N -> D]
    BY <1>4, <1>10
  <2> QED
    BY <1>10, <2>1, FunctionIsSeq
<1>13. CASE RrfTopK <= 0
  <2>1. f = <<>>
    BY <1>1, <1>13
  <2>2. ToSet(f) = {} /\ f \in Seq(D)
    BY <2>1, EmptySeq DEF ToSet
  <2>3. ~(RrfTopK > 0)
    BY <1>13, RrfAssumption
  <2> QED
    BY <2>2, <2>3
<1>14. CASE RrfTopK > 0
  <2> DEFINE M == Len(f)
  <2>0. RrfTopK \in Nat /\ f = First(sorted, RrfTopK)
    BY <1>1, <1>14, RrfAssumption
  <2>1. f \in Seq(D) /\ M = (IF RrfTopK < N THEN RrfTopK ELSE N)
        /\ \A i \in 1..M : i \in 1..N /\ f[i] = sorted[i]
    BY <1>12, <2>0, FirstFacts
  <2>2. M \in Nat /\ DOMAIN f = 1..M
    BY <2>1, LenProperties
  <2> HIDE DEF M, f
  <2>3. ToSet(f) \subseteq seen
    <3>1. \A i \in 1..M : f[i] \in seen
      BY <1>10, <2>1
    <3> QED
      BY <2>2, <3>1 DEF ToSet
  <2>4. ASSUME NEW c \in ToSet(f), NEW d \in ToSet(f), <<c, d>> \in R
        PROVE  Rank(f, c) < Rank(f, d)
    <3>1. Rank(f, c) \in 1..M /\ f[Rank(f, c)] = c /\ Rank(f, d) \in 1..M /\ f[Rank(f, d)] = d
      BY <2>1, RankIsFirst DEF M
    <3>2. Rank(f, c) \in 1..N /\ Rank(f, d) \in 1..N /\ sorted[Rank(f, c)] = c /\ sorted[Rank(f, d)] = d
      BY <2>1, <3>1
    <3> QED
      BY <1>10, <2>4, <3>2
  <2>5. ASSUME all # <<>> PROVE f # <<>>
    <3>1. Len(all) # 0
      BY <1>3, <2>5, EmptySeq
    <3>2. all[1] \in seen
      BY <1>3, <3>1 DEF ToSet
    <3>3. N # 0
      BY <1>10, <3>2
    <3>4. M # 0
      BY <1>10, <1>14, <2>0, <2>1, <3>3
    <3> QED
      BY <3>4, EmptySeq DEF M
  <2>6. \A c, d \in ToSet(f) :
          \/ Fused(v, k, c) > Fused(v, k, d)
          \/ Fused(v, k, c) = Fused(v, k, d) /\ Rank(all, c) < Rank(all, d)
          => Rank(f, c) < Rank(f, d)
    BY <1>11, <2>3, <2>4
  <2> QED
    BY <2>1, <2>3, <2>5, <2>6 DEF f, seen, all, v, k
<1> QED
  BY <1>13, <1>14, RrfAssumption DEF all, v, k

\* What both found is ahead of what one of them ranked behind it.
LEMMA FusionFair ==
  ASSUME NEW D, NEW vector \in Seq(D), NEW keyword \in Seq(D)
  PROVE  Fair(vector, keyword, FuseRrf(vector, keyword))
<1> DEFINE v == IF VectorWeight > 0 THEN vector ELSE <<>>
           k == IF KeywordWeight > 0 THEN keyword ELSE <<>>
           f == FuseRrf(vector, keyword)
           all == v \o k
<1>1. v \in Seq(D) /\ k \in Seq(D)
  BY EmptySeq
<1>2. /\ ToSet(f) \subseteq ToSet(all)
      /\ \A c, d \in ToSet(f) :
           \/ Fused(v, k, c) > Fused(v, k, d)
           \/ Fused(v, k, c) = Fused(v, k, d) /\ Rank(all, c) < Rank(all, d)
           => Rank(f, c) < Rank(f, d)
  BY FusionFacts
<1>3. VectorWeight \in Nat /\ KeywordWeight \in Nat
  BY WeightAssumption
<1>4. (v = vector \/ v = <<>>) /\ (k = keyword \/ k = <<>>)
  OBVIOUS
<1>5. (VectorWeight > 0 => v = vector) /\ (KeywordWeight > 0 => k = keyword)
      /\ (~(VectorWeight > 0) => v = <<>>) /\ (~(KeywordWeight > 0) => k = <<>>)
  OBVIOUS
<1> HIDE DEF v, k, f
<1> SUFFICES ASSUME NEW c \in ToSet(f), NEW d \in ToSet(f),
                    c \in ToSet(vector) \cap ToSet(keyword),
                    \/ d \notin ToSet(keyword) /\ Rank(vector, c) < Rank(vector, d)
                    \/ d \notin ToSet(vector) /\ Rank(keyword, c) < Rank(keyword, d)
             PROVE  Rank(f, c) < Rank(f, d)
  BY DEF Fair, f
<1>6. \A x : x \in ToSet(all) <=> x \in ToSet(v) \/ x \in ToSet(k)
  BY <1>1, BothParts
<1>7. ToSet(<<>>) = {}
  BY DEF ToSet
<1> DEFINE vc == Share(VectorWeight, v, c) vd == Share(VectorWeight, v, d)
           kc == Share(KeywordWeight, k, c) kd == Share(KeywordWeight, k, d)
<1>8. vc \in Nat /\ vd \in Nat /\ kc \in Nat /\ kd \in Nat
  BY <1>1, <1>3, ShareFacts
<1>9. Fused(v, k, c) = vc + kc /\ Fused(v, k, d) = vd + kd
  BY DEF Fused
<1>10. Rank(vector, c) > 0 /\ Rank(keyword, c) > 0
  BY RankIsFirst
<1>11. CASE d \notin ToSet(keyword) /\ Rank(vector, c) < Rank(vector, d)
  <2>1. d \notin ToSet(k)
    BY <1>4, <1>7, <1>11
  <2>2. d \in ToSet(v) /\ v = vector
    BY <1>2, <1>4, <1>6, <1>7, <2>1
  <2>3. vc >= vd
    BY <1>1, <1>3, <1>10, <1>11, <2>2, ShareFacts
  <2>4. kd = 0
    BY <1>1, <1>3, <2>1, ShareFacts
  <2>5. Rank(all, c) < Rank(all, d)
    <3>1. c \in ToSet(v)
      BY <2>2
    <3>2. Rank(all, c) = Rank(v, c) /\ Rank(all, d) = Rank(v, d)
      BY <1>1, <2>2, <3>1, RankInFront
    <3> QED
      BY <1>11, <2>2, <3>2
  <2>6. Fused(v, k, c) > Fused(v, k, d) \/ Fused(v, k, c) = Fused(v, k, d)
    <3> HIDE DEF vc, vd, kc, kd
    <3> QED
      BY <1>8, <1>9, <2>3, <2>4
  <2> QED
    BY <1>2, <2>5, <2>6
<1>12. CASE d \notin ToSet(vector) /\ Rank(keyword, c) < Rank(keyword, d)
  <2>1. d \notin ToSet(v)
    BY <1>4, <1>7, <1>12
  <2>2. d \in ToSet(k) /\ k = keyword
    BY <1>2, <1>4, <1>6, <1>7, <2>1
  <2>3. kc >= kd
    BY <1>1, <1>3, <1>10, <1>12, <2>2, ShareFacts
  <2>4. vd = 0
    BY <1>1, <1>3, <2>1, ShareFacts
  <2>5. Rank(all, c) < Rank(all, d)
    <3>1. Rank(all, d) = Len(v) + Rank(k, d)
      BY <1>1, <2>1, <2>2, RankBehind
    <3>2. Rank(k, c) \in Nat /\ Rank(k, d) \in Nat /\ Rank(v, c) \in 0..Len(v) /\ Len(v) \in Nat
      BY <1>1, RankIsFirst
    <3>3. CASE c \in ToSet(v)
      <4>1. Rank(all, c) = Rank(v, c)
        BY <1>1, <3>3, RankInFront
      <4>2. Rank(k, d) > 0
        BY <1>1, <2>2, RankIsFirst
      <4> QED
        BY <3>1, <3>2, <4>1, <4>2
    <3>4. CASE c \notin ToSet(v)
      <4>1. Rank(all, c) = Len(v) + Rank(k, c)
        BY <1>1, <2>2, <3>4, RankBehind
      <4> QED
        BY <1>12, <2>2, <3>1, <3>2, <4>1
    <3> QED
      BY <3>3, <3>4
  <2>6. Fused(v, k, c) > Fused(v, k, d) \/ Fused(v, k, c) = Fused(v, k, d)
    <3> HIDE DEF vc, vd, kc, kd
    <3> QED
      BY <1>8, <1>9, <2>3, <2>4
  <2> QED
    BY <1>2, <2>5, <2>6
<1> QED
  BY <1>11, <1>12

\* One search, whatever its backends do.  Points are what the indexes hold.
AnySearch(c, Point) ==
  /\ c.kind = "search"
  /\ c.leg.vector \in {Down} \cup Seq(Point) /\ c.leg.keyword \in {Down} \cup Seq(Point)
  /\ {c.leg.embedded, c.leg.scoped, c.leg.worded, c.leg.dbDown} \subseteq BOOLEAN
\* The fusion and the reranking keep something, and the keyword index counts.
Keeping == RrfTopK > 0 /\ MaxInput > 0 /\ RerankTopK > 0 /\ KeywordWeight > 0

\* An index answers with chunks.
LEMMA HitsAreChunks ==
  ASSUME NEW Point, NEW points \in Seq(Point)
  PROVE  Hits(points) \in Seq(Chunk) /\ Hits(points) # Down
<1> DEFINE P == {i \in DOMAIN points : points[i] \in Chunk}
           N == Cardinality(P)
           picked == Picked(points, P)
<1>1. Len(points) \in Nat /\ DOMAIN points = 1..Len(points)
  BY LenProperties
<1>2. P \in SUBSET (1..Len(points)) /\ \A i \in P : points[i] \in Chunk
  BY <1>1
<1> HIDE DEF P, N, picked
<1>3. IsPicked(picked, points, P)
  <2> DEFINE hi == Len(points)
  <2>1. hi \in Nat /\ P \in SUBSET (1..hi)
    BY <1>1, <1>2
  <2> HIDE DEF hi
  <2> QED
    BY <2>1, PickedFacts DEF picked
<1>4. N \in Nat /\ \A n \in 1..N : picked[n] \in Chunk
  BY <1>2, <1>3 DEF IsPicked, N
<1>5. picked = [n \in 1..N |-> picked[n]]
  BY <1>3 DEF IsPicked, N
<1>6. picked \in [1..N -> Chunk]
  BY <1>4, <1>5
<1>7. picked \in Seq(Chunk)
  BY <1>4, <1>6, FunctionIsSeq
<1> QED
  BY <1>7, DownAssumption DEF Hits, picked, P

\* An index that did not answer has no hits.
LEMMA NoHits == Hits(<<>>) = <<>>
<1> DEFINE P == {i \in DOMAIN <<>> : <<>>[i] \in Chunk}
           picked == Picked(<<>>, P)
<1>1. P = {}
  OBVIOUS
<1>2. Cardinality(P) = 0
  BY <1>1, FS_EmptySet
<1>3. P \in SUBSET (1..0)
  BY <1>1
<1> HIDE DEF P, picked
<1>4. IsPicked(picked, <<>>, P)
  BY <1>3, PickedFacts DEF picked
<1>5. picked \in [1..0 -> {}]
  BY <1>2, <1>4 DEF IsPicked
<1>6. picked \in Seq({}) /\ Len(picked) = 0
  BY <1>5, FunctionIsSeq
<1>7. picked = <<>>
  BY <1>6, EmptySeq
<1> QED
  BY <1>7 DEF Hits, picked, P

\* Some of a ranking is kept where anything may be.
LEMMA FirstKeeps ==
  ASSUME NEW D, NEW s \in Seq(D), s # <<>>, NEW n \in Nat, n > 0
  PROVE  First(s, n) # <<>>
<1>1. Len(s) \in Nat /\ Len(s) # 0
  BY EmptySeq, LenProperties
<1>2. Len(First(s, n)) # 0
  BY <1>1, FirstFacts
<1> QED
  BY <1>2, EmptySeq

\* The first of a list are in the list.
LEMMA FirstIsPart ==
  ASSUME NEW D, NEW s \in Seq(D), NEW n \in Nat
  PROVE  ToSet(First(s, n)) \subseteq ToSet(s)
<1> DEFINE f == First(s, n)
<1>1. /\ f \in Seq(D) /\ DOMAIN s = 1..Len(s)
      /\ \A i \in 1..Len(f) : i \in 1..Len(s) /\ f[i] = s[i]
  BY FirstFacts, LenProperties
<1> HIDE DEF f
<1>2. DOMAIN f = 1..Len(f)
  BY <1>1, LenProperties
<1>3. ToSet(f) \subseteq ToSet(s)
  BY <1>1, <1>2 DEF ToSet
<1> QED
  BY <1>3 DEF f

\* Nothing that is sorted is lost.
LEMMA SortedKeeps ==
  ASSUME NEW S, IsFiniteSet(S), S # {}, NEW R, NEW n \in Nat, n > 0
  PROVE  First(Sorted(S, R), n) # <<>>
<1> DEFINE N == Cardinality(S)
           sorted == Sorted(S, R)
           D == {sorted[i] : i \in 1..N}
<1>1. N \in Nat /\ N # 0
  BY FS_CardinalityType, FS_EmptySet
<1>2. sorted = [i \in 1..N |-> sorted[i]]
  <2> DEFINE Nth(i) == CHOOSE x \in S : Cardinality({y \in S : <<y, x>> \in R}) = i - 1
  <2>1. sorted = [i \in 1..N |-> Nth(i)]
    BY DEF Sorted
  <2> HIDE DEF Nth, sorted
  <2> QED
    BY <2>1
<1> HIDE DEF N, sorted
<1>3. sorted \in [1..N -> D]
  BY <1>2
<1> HIDE DEF D
<1>4. sorted \in Seq(D) /\ Len(sorted) = N
  BY <1>1, <1>3, FunctionIsSeq
<1>5. sorted # <<>>
  BY <1>1, <1>4, EmptySeq
<1> QED
  BY <1>4, <1>5, FirstKeeps DEF sorted

\* A reranking of something keeps some of it, and says that it failed unless
\* nothing of it could be scored.
LEMMA RerankFacts ==
  ASSUME NEW scores, NEW chunks \in Seq(Chunk), NEW hydrated, chunks # <<>>
  PROVE  LET out == Rerank(scores, chunks, hydrated) IN
         /\ Keeping => out.chunks # <<>>
         /\ scores = Down => \/ out.degraded
                             \/ /\ ToSet(out.chunks) \cap hydrated = {}
                                /\ ToSet(out.chunks) \subseteq ToSet(chunks)
<1> DEFINE asked == First(chunks, MaxInput)
           out == Rerank(scores, chunks, hydrated)
<1>1. MaxInput \in Nat /\ RerankTopK \in Nat
  BY RerankAssumption
<1>2. asked \in Seq(Chunk) /\ (Keeping => asked # <<>>) /\ ToSet(asked) \subseteq ToSet(chunks)
  BY <1>1, FirstFacts, FirstKeeps, FirstIsPart DEF Keeping
<1> HIDE DEF asked
<1>3. CASE scores = Off
  <2>1. out = Outcome(chunks, FALSE, FALSE)
    BY <1>3 DEF Rerank
  <2>2. out.chunks = chunks
    BY <2>1 DEF Outcome
  <2> QED
    BY <1>3, <2>2, DownAssumption
<1>4. CASE scores # Off /\ ToSet(asked) \cap hydrated = {}
  <2>1. out = Outcome(asked, FALSE, FALSE)
    BY <1>4 DEF Rerank, asked
  <2>2. out.chunks = asked
    BY <2>1 DEF Outcome
  <2> QED
    BY <1>2, <1>4, <2>2
<1>5. CASE scores # Off /\ ToSet(asked) \cap hydrated # {}
  <2>1. CASE scores = Down \/ Cardinality(DOMAIN scores) # Len(asked)
    <3>1. out = Outcome(First(chunks, RerankTopK), FALSE, TRUE)
      BY <1>5, <2>1 DEF Rerank, asked
    <3>2. out.chunks = First(chunks, RerankTopK) /\ out.degraded
      BY <3>1 DEF Outcome
    <3>3. Keeping => First(chunks, RerankTopK) # <<>>
      BY <1>1, FirstKeeps DEF Keeping
    <3> QED
      BY <3>2, <3>3
  <2>2. CASE ~(scores = Down \/ Cardinality(DOMAIN scores) # Len(asked))
    <3>1. out = Outcome(First(ByScore(scores, asked), RerankTopK), TRUE, FALSE)
      BY <1>5, <2>2 DEF Rerank, asked
    <3>2. out.chunks = First(ByScore(scores, asked), RerankTopK)
      BY <3>1 DEF Outcome
    <3> DEFINE S == ToSet(asked)
    <3>3. IsFiniteSet(S)
      <4>1. Len(asked) \in Nat /\ DOMAIN asked = 1..Len(asked)
        BY <1>2, LenProperties
      <4>2. \A c \in S : \E i \in 1..Len(asked) : asked[i] = c
        BY <4>1 DEF ToSet
      <4> HIDE DEF S
      <4> QED
        BY <4>1, <4>2, FiniteRange
    <3>4. \E R : ByScore(scores, asked) = Sorted(S, R)
      BY DEF ByScore
    <3>5. S # {}
      BY <1>5
    <3> HIDE DEF S
    <3>6. Keeping => First(ByScore(scores, asked), RerankTopK) # <<>>
      BY <1>1, <3>3, <3>4, <3>5, SortedKeeps DEF Keeping
    <3> QED
      BY <2>2, <3>2, <3>6
  <2> QED
    BY <2>1, <2>2
<1> QED
  BY <1>3, <1>4, <1>5

\* The fields of a pass.
LEMMA PassFields ==
  ASSUME NEW fused, NEW a \in BOOLEAN, NEW b \in BOOLEAN, NEW c \in BOOLEAN,
         NEW pass, pass = Pass(fused, a, b, c)
  PROVE  /\ pass.fused = fused
         /\ pass.vectorOk <=> a
         /\ pass.keywordOk <=> b
         /\ pass.allFailed <=> c
BY DEF Pass

\* What one pass gives, by whether the query could be embedded.
LEMMA PassFacts ==
  ASSUME NEW vector \in {Down} \cup Seq(Chunk), NEW keyword \in {Down} \cup Seq(Chunk),
         NEW embedded \in BOOLEAN
  PROVE  LET pass == RunSinglePass(embedded, vector, keyword, "hybrid") IN
         /\ pass.fused \in Seq(Chunk)
         /\ pass.vectorOk <=> ~embedded \/ vector # Down
         /\ pass.keywordOk <=> keyword # Down
         /\ pass.allFailed <=> (~embedded \/ vector = Down) /\ keyword = Down
         /\ Keeping /\ keyword # Down /\ keyword # <<>> => pass.fused # <<>>
<1> DEFINE pass == RunSinglePass(embedded, vector, keyword, "hybrid")
           fused == FuseRrf(Listed(vector), Listed(keyword))
<1>1. Listed(vector) \in Seq(Chunk) /\ Listed(keyword) \in Seq(Chunk)
      /\ (keyword # Down => Listed(keyword) = keyword)
  BY EmptySeq DEF Listed
<1> DEFINE yes == TRUE
           a == Answered(vector)
           b == Answered(keyword)
           none == ~(a \/ b)
<1>0. yes \in BOOLEAN /\ a \in BOOLEAN /\ b \in BOOLEAN /\ none \in BOOLEAN
  <2>1. yes \in BOOLEAN
    OBVIOUS
  <2>2. a \in BOOLEAN /\ b \in BOOLEAN
    BY DEF Answered
  <2>3. none \in BOOLEAN
    OBVIOUS
  <2> QED
    BY <2>1, <2>2, <2>3
<1>2. yes /\ (a <=> vector # Down) /\ (b <=> keyword # Down)
      /\ (none <=> vector = Down /\ keyword = Down)
  <2>1. a <=> vector # Down
    BY DEF Answered
  <2>2. b <=> keyword # Down
    BY DEF Answered
  <2> HIDE DEF a, b
  <2> QED
    BY <2>1, <2>2
<1>3. CASE ~embedded
  <2> DEFINE nb == ~b
  <2>1. pass = Pass(Listed(keyword), yes, b, nb)
    BY <1>3 DEF RunSinglePass
  <2>2. nb \in BOOLEAN
    OBVIOUS
  <2>5. nb <=> ~b
    OBVIOUS
  <2> HIDE DEF pass, yes, a, b, nb, none
  <2>3. /\ pass.fused = Listed(keyword)
        /\ pass.vectorOk <=> yes
        /\ pass.keywordOk <=> b
        /\ pass.allFailed <=> nb
    BY <1>0, <2>1, <2>2, PassFields
  <2>4. /\ pass.vectorOk
        /\ pass.keywordOk <=> keyword # Down
        /\ pass.allFailed <=> keyword = Down
    BY <1>2, <2>3, <2>5
  <2>6. /\ pass.fused \in Seq(Chunk)
        /\ keyword # Down => pass.fused = keyword
    BY <1>1, <2>3
  <2> QED
    BY <1>3, <2>4, <2>6 DEF pass
<1>4. CASE embedded
  <2>1. pass = Pass(fused, a, b, none)
    BY <1>4 DEF RunSinglePass
  <2> HIDE DEF fused, pass, a, b, none
  <2>2. /\ pass.fused = fused
        /\ pass.vectorOk <=> a
        /\ pass.keywordOk <=> b
        /\ pass.allFailed <=> none
    BY <1>0, <2>1, PassFields
  <2>3. fused \in Seq(Chunk)
    BY <1>1, FusionFacts DEF fused
  <2>4. Keeping /\ Listed(keyword) # <<>> => fused # <<>>
    <3> DEFINE v == IF VectorWeight > 0 THEN Listed(vector) ELSE <<>>
               k == IF KeywordWeight > 0 THEN Listed(keyword) ELSE <<>>
    <3> SUFFICES ASSUME Keeping, Listed(keyword) # <<>> PROVE fused # <<>>
      OBVIOUS
    <3>1. v \in Seq(Chunk) /\ k = Listed(keyword) /\ RrfTopK > 0
      BY <1>1, EmptySeq DEF Keeping
    <3>2. RrfTopK > 0 /\ v \o k # <<>> => fused # <<>>
      BY <1>1, FusionFacts DEF fused
    <3> HIDE DEF v, k
    <3>3. Len(v \o k) = Len(v) + Len(k) /\ Len(v) \in Nat /\ Len(k) \in Nat /\ Len(k) # 0
      BY <1>1, <3>1, ConcatProperties, LenProperties, EmptySeq
    <3>4. v \o k # <<>>
      BY <3>3, EmptySeq
    <3> QED
      BY <3>1, <3>2, <3>4
  <2> QED
    BY <1>1, <1>2, <1>4, <2>2, <2>3, <2>4 DEF pass
<1> QED
  BY <1>3, <1>4

\* What is down is named, and what the keyword index found is not lost.
LEMMA SearchJudged ==
  ASSUME NEW Point, AnySearch(case, Point), Keeping
  PROVE  Judged(case.leg, SearchResult(case.leg))
<1> DEFINE leg == case.leg
           vector == VectorLeg(leg.vector, leg.scoped)
           keyword == KeywordLeg(leg.keyword, leg.scoped, leg.worded)
           pass == RunSinglePass(leg.embedded, vector, keyword, "hybrid")
           capped == First(pass.fused, MaxInput)
           payloads == Hydrate(ToSet(capped), leg.rows, leg.docs)
           ranked == RankPass(leg, capped, payloads)
           rag == RunChatRag(leg, "hybrid")
           found == IF leg.scoped /\ leg.worded THEN ToSet(Hits(Listed(leg.keyword))) ELSE {}
<1>1. /\ leg.vector \in {Down} \cup Seq(Point) /\ leg.keyword \in {Down} \cup Seq(Point)
      /\ leg.embedded \in BOOLEAN /\ leg.scoped \in BOOLEAN /\ leg.worded \in BOOLEAN
      /\ leg.dbDown \in BOOLEAN
  BY DEF AnySearch
<1>2. <<>> \in Seq(Chunk) /\ <<>> # Down
  BY EmptySeq, DownAssumption
<1>3. vector \in {Down} \cup Seq(Chunk) /\ (vector = Down <=> leg.scoped /\ leg.vector = Down)
  BY <1>1, <1>2, HitsAreChunks DEF VectorLeg
<1>4. /\ keyword \in {Down} \cup Seq(Chunk)
      /\ keyword = Down <=> leg.scoped /\ leg.worded /\ leg.keyword = Down
  BY <1>1, <1>2, HitsAreChunks DEF KeywordLeg
<1>5. found # {} => keyword # Down /\ keyword # <<>>
  <2> SUFFICES ASSUME found # {} PROVE keyword # Down /\ keyword # <<>>
    OBVIOUS
  <2>1. leg.scoped /\ leg.worded /\ Hits(Listed(leg.keyword)) # <<>>
    <3>1. leg.scoped /\ leg.worded /\ ToSet(Hits(Listed(leg.keyword))) # {}
      OBVIOUS
    <3> QED
      BY <3>1 DEF ToSet
  <2>2. CASE leg.keyword = Down
    <3>1. Hits(<<>>) = <<>>
      BY NoHits
    <3> QED
      BY <2>1, <2>2, <3>1 DEF Listed
  <2>3. CASE leg.keyword # Down
    <3>1. keyword = Hits(leg.keyword)
      BY <2>1, <2>3 DEF KeywordLeg
    <3> QED
      BY <1>1, <2>1, <2>3, <3>1, HitsAreChunks DEF Listed
  <2> QED
    BY <2>2, <2>3
<1> HIDE DEF vector, keyword, found
<1>6. /\ pass.fused \in Seq(Chunk)
      /\ pass.vectorOk <=> ~leg.embedded \/ vector # Down
      /\ pass.keywordOk <=> keyword # Down
      /\ pass.allFailed <=> (~leg.embedded \/ vector = Down) /\ keyword = Down
      /\ keyword # Down /\ keyword # <<>> => pass.fused # <<>>
  BY <1>1, <1>3, <1>4, PassFacts, ZenonT(40)
<1>7. rag = RagOfPass(leg, pass)
  BY DEF RunChatRag, vector, keyword
<1> HIDE DEF pass
<1>8. capped \in Seq(Chunk) /\ (pass.fused # <<>> => capped # <<>>)
  BY <1>6, RerankAssumption, FirstFacts, FirstKeeps DEF Keeping
<1>9. /\ rag.chunks = ranked.chunks
      /\ rag.allFailed <=> pass.allFailed
      /\ rag.embedOk <=> leg.embedded
      /\ rag.vectorOk <=> pass.vectorOk /\ leg.embedded
      /\ rag.keywordOk <=> pass.keywordOk
      /\ rag.rerankOk <=> ~ranked.degraded
      /\ rag.raised <=> capped # <<>> /\ leg.dbDown
  <2> HIDE DEF rag, ranked, capped, payloads
  <2> QED
    BY <1>7 DEF RagOfPass, ranked, capped, payloads
<1>10. DOMAIN payloads = ToSet(capped) \cap DOMAIN leg.rows
  BY DEF Hydrate
<1>11. /\ capped # <<>> => ranked.chunks # <<>>
       /\ leg.scores = Down => \/ ranked.degraded
                               \/ /\ ToSet(ranked.chunks) \cap DOMAIN payloads = {}
                                  /\ ToSet(ranked.chunks) \subseteq ToSet(capped)
  <2> HIDE DEF payloads, capped
  <2>1. CASE capped = <<>>
    <3>1. ranked = Outcome(<<>>, TRUE, FALSE)
      BY <2>1 DEF RankPass
    <3>2. ToSet(ranked.chunks) = {}
      BY <3>1 DEF Outcome, ToSet
    <3> QED
      BY <2>1, <3>2
  <2>2. CASE capped # <<>>
    <3>1. ranked = Rerank(leg.scores, capped, DOMAIN payloads)
      BY <2>2 DEF RankPass
    <3> DEFINE chunks == capped hydrated == DOMAIN payloads again == Rerank(leg.scores, chunks, hydrated)
    <3>2. chunks \in Seq(Chunk) /\ chunks # <<>> /\ ranked = again
      BY <1>8, <2>2, <3>1
    <3> HIDE DEF chunks, hydrated, ranked
    <3>3. /\ Keeping => again.chunks # <<>>
          /\ leg.scores = Down => \/ again.degraded
                                  \/ /\ ToSet(again.chunks) \cap hydrated = {}
                                     /\ ToSet(again.chunks) \subseteq ToSet(chunks)
      BY <3>2, RerankFacts
    <3> QED
      BY <3>2, <3>3 DEF chunks, hydrated
  <2> QED
    BY <2>1, <2>2
<1> DEFINE out == SearchResult(leg)
           Missed(n) == CASE n = "dense" -> ~(rag.embedOk /\ rag.vectorOk)
                          [] n = "keyword" -> ~rag.keywordOk
                          [] n = "rerank" -> ~rag.rerankOk
<1>12. CASE rag.raised \/ rag.allFailed
  <2>1. out.kind = "down"
    BY <1>12 DEF SearchResult, ResultOfRag
  <2> HIDE DEF out, rag, ranked, capped, payloads
  <2>2. ~leg.dbDown => Silent(leg) = {"dense", "keyword"}
    <3> SUFFICES ASSUME ~leg.dbDown PROVE Silent(leg) = {"dense", "keyword"}
      OBVIOUS
    <3>1. (~leg.embedded \/ vector = Down) /\ keyword = Down
      BY <1>6, <1>9, <1>12
    <3> QED
      BY <1>3, <1>4, <3>1 DEF Silent
  <2>3. ~leg.dbDown => found = {}
    BY <1>5, <1>6, <1>9, <1>12
  <2> QED
    BY <2>1, <2>2, <2>3 DEF Judged, out, found
<1>13. CASE ~(rag.raised \/ rag.allFailed)
  <2>1. out.kind = "ok" /\ out.chunks = rag.chunks
        /\ out.degraded = {n \in {"dense", "keyword", "rerank"} : Missed(n)}
    <3> HIDE DEF rag
    <3> QED
      BY <1>13 DEF SearchResult, ResultOfRag, rag
  <2> HIDE DEF out, rag, ranked, capped, payloads
  <2>2. Silent(leg) \subseteq out.degraded
    BY <1>1, <1>3, <1>4, <1>6, <1>9, <2>1 DEF Silent
  <2>3. leg.scores = Down /\ ToSet(out.chunks) \cap DOMAIN leg.rows # {} => "rerank" \in out.degraded
    BY <1>9, <1>10, <1>11, <2>1
  <2>4. found # {} => out.chunks # <<>>
    BY <1>5, <1>6, <1>8, <1>9, <1>11, <2>1
  <2> QED
    BY <2>1, <2>2, <2>3, <2>4 DEF Judged, out, found
<1> QED
  BY <1>12, <1>13

\* Any search at all is honest.
LEMMA SearchHonest ==
  ASSUME NEW Point, AnySearch(case, Point), Keeping
  PROVE  HonestSearch
<1>1. /\ case.leg.vector \in {Down} \cup Seq(Point)
      /\ case.leg.keyword \in {Down} \cup Seq(Point)
  BY DEF AnySearch
<1>2. Listed(case.leg.vector) \in Seq(Point) /\ Listed(case.leg.keyword) \in Seq(Point)
  BY <1>1, EmptySeq DEF Listed
<1>3. Fair(Listed(case.leg.vector), Listed(case.leg.keyword),
           FuseRrf(Listed(case.leg.vector), Listed(case.leg.keyword)))
  BY <1>2, FusionFair
<1>4. Judged(case.leg, SearchResult(case.leg))
  BY SearchJudged
<1> QED
  BY <1>3, <1>4 DEF HonestSearch

\* Whatever the run searches is of that kind.
LEMMA SearchesTaken == Spec => [](case.kind = "search" => AnySearch(case, Chunk))
<1> DEFINE Ofkind == case.kind = "search" => AnySearch(case, Chunk)
<1>1. Init => Ofkind
  BY DEF Init
<1>2. Ofkind /\ [Next]_case => Ofkind'
  <2> SUFFICES ASSUME Ofkind, [Next]_case PROVE Ofkind'
    OBVIOUS
  <2>1. CASE Next /\ case'.kind = "search"
    <3>1. PICK leg \in Legs : case' = [kind |-> "search", leg |-> leg]
      BY <2>1, TakenByKind DEF TakeSearch
    <3>2. leg.vector \in Rankings /\ leg.keyword \in Rankings
          /\ {leg.embedded, leg.scoped, leg.worded, leg.dbDown} \subseteq BOOLEAN
      BY DEF Legs
    <3>3. Rankings \subseteq {Down} \cup Seq(Chunk)
      <4>1. ASSUME NEW s \in SeqOf(Chunk, 2) PROVE s \in Seq(Chunk)
        <5>1. PICK m \in 0..2 : s \in [1..m -> Chunk]
          BY <4>1 DEF SeqOf
        <5>2. m \in Nat
          OBVIOUS
        <5> QED
          BY <5>1, <5>2, FunctionIsSeq
      <4> QED
        BY <4>1 DEF Rankings
    <3>4. case'.leg = leg /\ case'.kind = "search"
      BY <3>1
    <3> QED
      BY <3>2, <3>3, <3>4 DEF AnySearch
  <2>2. CASE UNCHANGED case
    BY <2>2 DEF AnySearch
  <2> QED
    BY <2>1, <2>2
<1> QED
  BY <1>1, <1>2, PTL DEF Spec

\* Whatever two indexes of any content answer, whatever is down and whatever the
\* limits are, if they keep anything, a search is honest about it and the fusion
\* fair, and so they are for all inputs of the run (chat_rag.py,
\* hybrid_retriever.py, reranker.py).
THEOREM AnyHonestSearch ==
  Keeping => /\ \A Point : AnySearch(case, Point) => HonestSearch
             /\ Spec => []HonestSearch
<1> SUFFICES ASSUME Keeping
             PROVE  /\ \A Point : AnySearch(case, Point) => HonestSearch
                    /\ Spec => []HonestSearch
  OBVIOUS
<1>1. \A Point : AnySearch(case, Point) => HonestSearch
  BY SearchHonest
<1>2. (case.kind = "search" => AnySearch(case, Chunk)) => HonestSearch
  BY SearchHonest DEF HonestSearch
<1> QED
  BY <1>1, <1>2, SearchesTaken, PTL
-----------------------------------------------------------------------------
(* Histories.                                                              *)

\* A turn of any size, refused or not, answered or not.
AnyTurn == [index : Nat, blocked : BOOLEAN, question : Nat, answer : Nat \cup {Nothing}]

\* What the last n turns cost is what the last n - 1 do and one turn more.
Priced(cost, turns) ==
  LET N == Len(turns)
  IN  /\ N \in Nat /\ cost \in [0..N -> Nat] /\ cost[0] = 0
      /\ \A n \in 1..N : /\ cost[n] = cost[n - 1] + TurnTokens(turns[N - n + 1])
                         /\ TurnTokens(turns[N - n + 1]) \in Nat

\* A turn costs a number of tokens.
LEMMA TurnCost == ASSUME NEW t \in AnyTurn PROVE TurnTokens(t) \in Nat
<1>1. t.question \in Nat /\ (t.answer = Nothing \/ t.answer \in Nat)
  BY DEF AnyTurn
<1> QED
  BY <1>1 DEF TurnTokens

\* The costs of a conversation exist.
LEMMA CostFacts ==
  ASSUME NEW turns \in Seq(AnyTurn)
  PROVE  Priced(Costs(turns), turns)
<1> DEFINE N == Len(turns)
           F == [x \in Nat \X (1..N) |-> x[1] + TurnTokens(turns[N - x[2] + 1])]
           Equal(f) == f = [n \in 0..N |-> IF n = 0 THEN 0
                                           ELSE f[n - 1] + TurnTokens(turns[N - n + 1])]
           cost == CHOOSE f : Equal(f)
<1>1. Costs(turns) = cost
  BY DEF Costs
<1>2. N \in Nat /\ turns \in [1..N -> AnyTurn]
  BY LenProperties
<1>3. \A n \in 1..N : TurnTokens(turns[N - n + 1]) \in Nat
  <2> SUFFICES ASSUME NEW n \in 1..N PROVE TurnTokens(turns[N - n + 1]) \in Nat
    OBVIOUS
  <2>1. N - n + 1 \in 1..N
    BY <1>2
  <2>2. turns[N - n + 1] \in AnyTurn
    BY <1>2, <2>1
  <2> QED
    BY <2>2, TurnCost
<1> HIDE DEF N
<1>4. F \in [Nat \X (1..N) -> Nat] /\ \A a \in Nat, n \in 1..N :
        F[<<a, n>>] = a + TurnTokens(turns[N - n + 1])
  BY <1>3
<1> HIDE DEF F
<1>5. \E f : Equal(f)
  <2>0. PICK f : Chained(f, Nat, 0, N, F)
    <3>1. 0 \in Nat
      OBVIOUS
    <3> QED
      BY <1>2, <1>4, <3>1, Chain
  <2>1. f \in [0..N -> Nat] /\ f[0] = 0 /\ \A n \in 1..N : f[n] = F[<<f[n - 1], n>>]
    BY <2>0 DEF Chained
  <2>2. ASSUME NEW n \in 1..N PROVE f[n] = f[n - 1] + TurnTokens(turns[N - n + 1])
    <3>1. f[n - 1] \in Nat
      BY <1>2, <2>1
    <3> QED
      BY <1>4, <2>1, <3>1
  <2>3. Equal(f)
    BY <1>2, <2>1, <2>2
  <2> QED
    BY <2>3
<1>6. Equal(cost)
  BY <1>5
<1> HIDE DEF cost
<1>7. cost[0] = 0 /\ \A n \in 1..N : cost[n] = cost[n - 1] + TurnTokens(turns[N - n + 1])
  <2>1. 0 \in 0..N /\ \A n \in 1..N : n \in 0..N /\ n # 0
    BY <1>2
  <2>2. cost[0] = 0
    BY <1>6, <2>1
  <2>3. ASSUME NEW n \in 1..N PROVE cost[n] = cost[n - 1] + TurnTokens(turns[N - n + 1])
    BY <1>6, <2>1
  <2> QED
    BY <2>2, <2>3
<1> DEFINE G == {n \in 0..N : cost[n] \in Nat}
<1>8. 0 \in G /\ \A n \in 1..N : n - 1 \in G => n \in G
  BY <1>2, <1>3, <1>7
<1>9. \A n \in 0..N : n \in G
  <2> HIDE DEF G
  <2> QED
    BY <1>2, <1>8, Upwards
<1>10. cost \in [0..N -> Nat]
  <2>1. DOMAIN cost = 0..N /\ cost = [n \in 0..N |-> cost[n]]
    BY <1>6
  <2> QED
    BY <1>9, <2>1
<1> QED
  BY <1>1, <1>2, <1>3, <1>7, <1>10 DEF Priced, N

\* More turns cost more.
LEMMA CostsGrow ==
  ASSUME NEW turns \in Seq(AnyTurn), NEW m \in 0..Len(turns), NEW n \in 0..Len(turns), m <= n
  PROVE  Costs(turns)[m] <= Costs(turns)[n]
<1> DEFINE N == Len(turns) cost == Costs(turns)
<1>1. Priced(cost, turns)
  BY CostFacts
<1>2. N \in Nat /\ \A k \in 0..N : cost[k] \in Nat
  BY <1>1 DEF Priced
<1>3. \A k \in 1..N : cost[k - 1] <= cost[k]
  <2> SUFFICES ASSUME NEW k \in 1..N PROVE cost[k - 1] <= cost[k]
    OBVIOUS
  <2>1. cost[k] = cost[k - 1] + TurnTokens(turns[N - k + 1]) /\ TurnTokens(turns[N - k + 1]) \in Nat
    BY <1>1 DEF Priced
  <2>2. cost[k - 1] \in Nat
    BY <1>2
  <2> QED
    BY <2>1, <2>2
<1> DEFINE G == {k \in 0..N : m <= k => cost[m] <= cost[k]}
<1> HIDE DEF N, cost
<1>4. 0 \in G
  BY <1>2 DEF N
<1>5. \A k \in 1..N : k - 1 \in G => k \in G
  <2> SUFFICES ASSUME NEW k \in 1..N, k - 1 \in G PROVE k \in G
    OBVIOUS
  <2>1. k \in 0..N /\ k - 1 \in 0..N /\ m \in 0..N
    BY <1>2 DEF N
  <2>2. cost[k - 1] <= cost[k] /\ cost[k] \in Nat /\ cost[k - 1] \in Nat /\ cost[m] \in Nat
    BY <1>2, <1>3, <2>1
  <2>3. m <= k - 1 => cost[m] <= cost[k - 1]
    BY <2>1
  <2>4. m <= k => m <= k - 1 \/ m = k
    BY <2>1
  <2> QED
    BY <2>1, <2>2, <2>3, <2>4
<1>6. n \in G
  <2> HIDE DEF G
  <2>1. \A k \in 0..N : k \in G
    BY <1>2, <1>4, <1>5, Upwards
  <2> QED
    BY <2>1 DEF N
<1> QED
  BY <1>6 DEF cost

\* The last turns of a conversation cost the same on their own.
LEMMA SameEnd ==
  ASSUME NEW s \in Seq(AnyTurn), NEW t \in Seq(AnyTurn), Len(s) <= Len(t),
         \A i \in 1..Len(s) : s[i] = t[Len(t) - Len(s) + i],
         NEW n \in 0..Len(s)
  PROVE  Costs(s)[n] = Costs(t)[n]
<1> DEFINE M == Len(s) N == Len(t) short == Costs(s) long == Costs(t)
<1>1. Priced(short, s) /\ Priced(long, t)
  BY CostFacts
<1>2. M \in Nat /\ N \in Nat
  BY <1>1 DEF Priced
<1>3. short[0] = 0 /\ long[0] = 0
  BY <1>1 DEF Priced
<1>4. \A k \in 1..M : /\ short[k] = short[k - 1] + TurnTokens(s[M - k + 1])
                      /\ long[k] = long[k - 1] + TurnTokens(t[N - k + 1])
  BY <1>1, <1>2 DEF Priced
<1>5. \A k \in 1..M : s[M - k + 1] = t[N - k + 1]
  <2> SUFFICES ASSUME NEW k \in 1..M PROVE s[M - k + 1] = t[N - k + 1]
    OBVIOUS
  <2>1. M - k + 1 \in 1..M /\ N - M + (M - k + 1) = N - k + 1
    BY <1>2
  <2> QED
    BY <2>1
<1> DEFINE G == {k \in 0..M : short[k] = long[k]}
<1> HIDE DEF M, N, short, long
<1>6. 0 \in G /\ \A k \in 1..M : k - 1 \in G => k \in G
  BY <1>2, <1>3, <1>4, <1>5
<1>7. n \in G
  <2> HIDE DEF G
  <2>1. \A k \in 0..M : k \in G
    BY <1>2, <1>6, Upwards
  <2> QED
    BY <2>1 DEF M
<1> QED
  BY <1>7 DEF short, long

\* Turns and what follows them cost more than the turns.
LEMMA MoreTurns ==
  ASSUME NEW s \in Seq(AnyTurn), NEW t \in Seq(AnyTurn), Len(s) <= Len(t),
         \A i \in 1..Len(s) : s[i] = t[i],
         NEW n \in 0..Len(s)
  PROVE  Costs(s)[n] <= Costs(t)[n + (Len(t) - Len(s))]
<1> DEFINE M == Len(s) N == Len(t) d == N - M short == Costs(s) long == Costs(t)
<1>1. Priced(short, s) /\ Priced(long, t)
  BY CostFacts
<1>2. M \in Nat /\ N \in Nat /\ d \in Nat
  BY <1>1 DEF Priced
<1>3. short[0] = 0 /\ (\A k \in 0..M : short[k] \in Nat) /\ (\A k \in 0..N : long[k] \in Nat)
  BY <1>1 DEF Priced
<1>4. ASSUME NEW k \in 1..M
      PROVE  /\ short[k] = short[k - 1] + TurnTokens(s[M - k + 1])
             /\ long[k + d] = long[k - 1 + d] + TurnTokens(s[M - k + 1])
             /\ TurnTokens(s[M - k + 1]) \in Nat
  <2>1. M - k + 1 \in 1..M /\ k + d \in 1..N /\ N - (k + d) + 1 = M - k + 1 /\ k + d - 1 = k - 1 + d
    BY <1>2
  <2>2. short[k] = short[k - 1] + TurnTokens(s[M - k + 1]) /\ TurnTokens(s[M - k + 1]) \in Nat
    BY <1>1 DEF Priced
  <2>3. long[k + d] = long[k + d - 1] + TurnTokens(t[N - (k + d) + 1])
    <3>1. \A j \in 1..N : long[j] = long[j - 1] + TurnTokens(t[N - j + 1])
      BY <1>1 DEF Priced
    <3> HIDE DEF M, N, d, long
    <3> QED
      BY <1>2, <2>1, <3>1
  <2>4. s[M - k + 1] = t[M - k + 1]
    BY <2>1
  <2> QED
    BY <2>1, <2>2, <2>3, <2>4
<1> DEFINE G == {k \in 0..M : short[k] <= long[k + d]}
<1>5. \A k \in 0..M : k + d \in 0..N
  BY <1>2
<1> HIDE DEF M, N, d, short, long
<1>6. 0 \in G
  <2>1. 0 \in 0..M /\ 0 + d \in 0..N
    BY <1>2, <1>5
  <2>2. long[0 + d] \in Nat
    BY <1>3, <2>1
  <2> QED
    BY <1>3, <2>1, <2>2
<1>7. \A k \in 1..M : k - 1 \in G => k \in G
  <2> SUFFICES ASSUME NEW k \in 1..M, k - 1 \in G PROVE k \in G
    OBVIOUS
  <2>1. k \in 0..M /\ k - 1 \in 0..M
    BY <1>2
  <2>2. k + d \in 0..N /\ k - 1 + d \in 0..N
    BY <1>5, <2>1
  <2>3. short[k] \in Nat /\ short[k - 1] \in Nat /\ long[k + d] \in Nat /\ long[k - 1 + d] \in Nat
    BY <1>3, <2>1, <2>2
  <2>4. short[k - 1] <= long[k - 1 + d]
    OBVIOUS
  <2>5. short[k] <= long[k + d]
    BY <1>4, <2>3, <2>4
  <2> QED
    BY <2>1, <2>5
<1>8. n \in G
  <2> HIDE DEF G
  <2>1. \A k \in 0..M : k \in G
    BY <1>2, <1>6, <1>7, Upwards
  <2> QED
    BY <2>1 DEF M
<1> QED
  BY <1>8 DEF short, long, d, M, N

\* Where the turns that fit begin.
Begins(from, turns, budget) ==
  LET N == Len(turns) cost == Costs(turns)
  IN  /\ from \in 1..N + 1 /\ cost[N + 1 - from] <= budget
      /\ from > 1 => cost[N + 2 - from] > budget

\* The suffix that fits exists: the longest one within the budget.
LEMMA FitsFromFacts ==
  ASSUME NEW turns \in Seq(AnyTurn), NEW budget \in Nat
  PROVE  Begins(FitsFrom(turns, budget), turns, budget)
<1> DEFINE N == Len(turns) cost == Costs(turns)
           T == {n \in 1..N + 1 : cost[N + 1 - n] <= budget}
<1>1. N \in Nat /\ cost[0] = 0 /\ \A k \in 0..N : cost[k] \in Nat
  BY CostFacts DEF Priced
<1> HIDE DEF N, cost
<1>2. N + 1 \in T
  BY <1>1
<1>3. PICK n \in T : \A k \in T : n <= k
  <2>1. T \in SUBSET Nat /\ T # {}
    BY <1>2
  <2> HIDE DEF T
  <2> QED
    BY <2>1, LeastNumber
<1>4. n \in 1..N + 1 /\ cost[N + 1 - n] <= budget
  BY <1>3
<1>5. n > 1 => cost[N + 2 - n] > budget
  <2> SUFFICES ASSUME n > 1 PROVE cost[N + 2 - n] > budget
    OBVIOUS
  <2>1. n - 1 \in 1..N + 1 /\ N + 1 - (n - 1) = N + 2 - n /\ N + 2 - n \in 0..N
    BY <1>1, <1>4
  <2>2. n - 1 \notin T
    <3>1. n \in Nat /\ ~(n <= n - 1)
      BY <1>4
    <3> HIDE DEF T
    <3> QED
      BY <1>3, <3>1
  <2>3. ~(cost[N + 2 - n] <= budget)
    BY <2>1, <2>2
  <2>4. cost[N + 2 - n] \in Nat
    BY <1>1, <2>1
  <2> QED
    BY <2>3, <2>4
<1>6. FitsFrom(turns, budget) = CHOOSE k \in 1..N + 1 :
        cost[N + 1 - k] <= budget /\ (k > 1 => cost[N + 2 - k] > budget)
  BY DEF FitsFrom, N, cost
<1>7. \E k \in 1..N + 1 : cost[N + 1 - k] <= budget /\ (k > 1 => cost[N + 2 - k] > budget)
  BY <1>4, <1>5
<1> QED
  BY <1>6, <1>7 DEF Begins, N, cost

\* The places from one on, picked, are the rest of a sequence.
LEMMA PickedRest ==
  ASSUME NEW D, NEW s \in Seq(D), NEW m \in 1..Len(s) + 1
  PROVE  Picked(s, m..Len(s)) = SubSeq(s, m, Len(s))
<1> DEFINE L == Len(s) P == m..L N == L - m + 1
           R == {p \in P \X P : p[1] < p[2]}
           at == Sorted(P, R)
<1>1. L \in Nat /\ m \in 1..L + 1 /\ N \in Nat
  BY LenProperties
<1> HIDE DEF L
<1>2. IsFiniteSet(P) /\ Cardinality(P) = N
  <2>1. m \in Int /\ L \in Int
    BY <1>1
  <2>2. IsFiniteSet(m..L) /\ Cardinality(m..L) = IF m > L THEN 0 ELSE L - m + 1
    BY <2>1, FS_Interval
  <2>3. (IF m > L THEN 0 ELSE L - m + 1) = N
    BY <1>1
  <2> QED
    BY <2>2, <2>3
<1>3. \A i, j \in P : <<i, j>> \in R <=> i < j
  OBVIOUS
<1>4. P \subseteq Nat
  BY <1>1
<1> HIDE DEF R
<1>5. StrictOrder(R, P)
  <2> HIDE DEF P
  <2> QED
    BY <1>3, <1>4 DEF StrictOrder
<1>6. at \in [1..N -> P] /\ \A j, k \in 1..N : j < k <=> <<at[j], at[k]>> \in R
  BY <1>2, <1>5, SortedFacts
<1> DEFINE Before(y) == {z \in P : <<z, y>> \in R}
<1>7. \A y \in P : Cardinality(Before(y)) = y - m
  <2> SUFFICES ASSUME NEW y \in P PROVE Cardinality(Before(y)) = y - m
    OBVIOUS
  <2>1. m \in Int /\ y \in Int /\ y - 1 \in Int /\ m <= y
    BY <1>1
  <2>2. \A z : z \in P /\ <<z, y>> \in R <=> z \in m..y - 1
    BY <1>1, <1>3
  <2>3. Before(y) = m..y - 1
    <3> HIDE DEF P
    <3> QED
      BY <2>2
  <2>4. Cardinality(m..y - 1) = IF m > y - 1 THEN 0 ELSE y - 1 - m + 1
    BY <2>1, FS_Interval
  <2>5. (IF m > y - 1 THEN 0 ELSE y - 1 - m + 1) = y - m
    BY <2>1
  <2> HIDE DEF P, Before
  <2> QED
    BY <2>3, <2>4, <2>5
<1> HIDE DEF Before
<1>11. ASSUME NEW n \in 1..N PROVE at[n] = m + n - 1
  <2> DEFINE x == CHOOSE x \in P : Cardinality(Before(x)) = n - 1
  <2>1. at[n] = x
    BY <1>2 DEF Sorted, Before
  <2>2. m + n - 1 \in P /\ m + n - 1 - m = n - 1
    BY <1>1
  <2>3. Cardinality(Before(m + n - 1)) = n - 1
    <3> HIDE DEF P
    <3> QED
      BY <1>7, <2>2
  <2>4. x \in P /\ Cardinality(Before(x)) = n - 1
    BY <2>2, <2>3
  <2> HIDE DEF x
  <2>5. x - m = n - 1 /\ x \in Int
    <3>1. Cardinality(Before(x)) = x - m
      BY <1>7, <2>4
    <3> QED
      BY <1>4, <2>4, <3>1
  <2> QED
    BY <1>1, <2>1, <2>5
<1> HIDE DEF at
<1>8. Picked(s, P) = [n \in 1..N |-> s[at[n]]]
  BY <1>2 DEF Picked, at, R
<1>9. SubSeq(s, m, L) = [n \in 1..N |-> s[m + n - 1]]
  BY <1>1
<1>10. Picked(s, P) = SubSeq(s, m, L)
  BY <1>8, <1>9, <1>11
<1> QED
  BY <1>10 DEF L

\* Turns whose numbers rise.
Rising(turns) == \A i, j \in 1..Len(turns) : i < j => turns[i].index < turns[j].index

\* A turn with its answer cut.
SameTurn(t, u) == t.index = u.index /\ t.blocked = u.blocked

\* Capping the answers leaves the turns' numbers, order and refusals.
LEMMA CapFacts ==
  ASSUME NEW turns \in Seq(AnyTurn), NEW limit \in Nat
  PROVE  LET capped == CapAnswers(turns, limit)
         IN  /\ capped \in Seq(AnyTurn) /\ Len(capped) = Len(turns)
             /\ \A i \in 1..Len(turns) : SameTurn(capped[i], turns[i])
<1> DEFINE capped == CapAnswers(turns, limit) N == Len(turns)
<1>1. N \in Nat /\ turns \in [1..N -> AnyTurn] /\ DOMAIN turns = 1..N
  BY LenProperties
<1>2. capped = [i \in 1..N |-> IF limit = 0 \/ turns[i].answer = Nothing THEN turns[i]
                               ELSE [turns[i] EXCEPT !.answer = TruncateTokens(@, limit)]]
  BY <1>1 DEF CapAnswers
<1> HIDE DEF capped, N
<1>3. ASSUME NEW i \in 1..N PROVE capped[i] \in AnyTurn /\ SameTurn(capped[i], turns[i])
  <2>1. turns[i] \in AnyTurn
    BY <1>1
  <2>2. CASE limit = 0 \/ turns[i].answer = Nothing
    BY <1>2, <2>1, <2>2 DEF SameTurn
  <2>3. CASE ~(limit = 0 \/ turns[i].answer = Nothing)
    <3>1. turns[i].answer \in Nat
      BY <2>1, <2>3 DEF AnyTurn
    <3>2. TruncateTokens(turns[i].answer, limit) \in Nat
      BY <3>1, HistoryAssumption DEF TruncateTokens
    <3>3. capped[i] = [turns[i] EXCEPT !.answer = TruncateTokens(@, limit)]
      BY <1>2, <2>3
    <3> QED
      BY <2>1, <3>2, <3>3 DEF AnyTurn, SameTurn
  <2> QED
    BY <2>2, <2>3
<1>4. capped \in [1..N -> AnyTurn]
  BY <1>2, <1>3
<1>5. capped \in Seq(AnyTurn) /\ Len(capped) = N
  BY <1>1, <1>4, FunctionIsSeq
<1> QED
  BY <1>3, <1>5 DEF capped, N

\* The first multiple of a step that is not before a number.
Boundary(first, step) == ((first + step - 1) \div step) * step

\* Division, by what is left of a number.
LEMMA DivFacts ==
  ASSUME NEW n \in Nat, NEW s \in Nat \ {0}
  PROVE  n \div s \in Nat /\ (n \div s) * s <= n /\ n < (n \div s) * s + s
OBVIOUS

\* The quotient is the only one.
LEMMA DivIs ==
  ASSUME NEW n \in Nat, NEW s \in Nat \ {0}, NEW q \in Nat, q * s <= n, n < q * s + s
  PROVE  n \div s = q
<1> DEFINE p == n \div s
<1>1. p \in Nat /\ p * s <= n /\ n < p * s + s
  BY DivFacts
<1> HIDE DEF p
<1>2. ASSUME p < q PROVE FALSE
  <2>1. (p + 1) * s <= q * s /\ (p + 1) * s = p * s + s
    BY <1>1, <1>2
  <2> QED
    BY <1>1, <2>1
<1>3. ASSUME q < p PROVE FALSE
  <2>1. (q + 1) * s <= p * s /\ (q + 1) * s = q * s + s
    BY <1>1, <1>3
  <2> QED
    BY <1>1, <2>1
<1> QED
  BY <1>1, <1>2, <1>3 DEF p

\* Boundaries move forward with the number they are of; a number short of its
\* boundary is in the block of the number before; and a boundary parts blocks.
LEMMA BoundaryFacts ==
  ASSUME NEW a \in Nat, NEW b \in Nat, NEW s \in Nat \ {0}, a <= b
  PROVE  LET B == Boundary(a, s) C == Boundary(b, s)
         IN  /\ B \in Nat /\ C \in Nat /\ a <= B /\ b <= C /\ B <= C
             /\ b < B => b \div s = a \div s
             /\ B < C => B <= b
             /\ \A n \in Nat : n < B => n \div s < B \div s
             /\ \A n \in Nat : B <= n => B \div s <= n \div s
<1> DEFINE q == (a + s - 1) \div s r == (b + s - 1) \div s B == q * s C == r * s
<1>1. B = Boundary(a, s) /\ C = Boundary(b, s)
  BY DEF Boundary
<1>2. q \in Nat /\ B <= a + s - 1 /\ a + s - 1 < B + s
  BY DivFacts
<1>3. r \in Nat /\ C <= b + s - 1 /\ b + s - 1 < C + s
  BY DivFacts
<1> HIDE DEF q, r
<1>4. B \in Nat /\ C \in Nat
  BY <1>2, <1>3
<1>5. a <= B /\ b <= C
  <2> HIDE DEF B, C
  <2> QED
    BY <1>2, <1>3, <1>4
<1>6. ASSUME r < q PROVE FALSE
  <2>1. (r + 1) * s <= q * s /\ (r + 1) * s = r * s + s
    BY <1>2, <1>3, <1>6
  <2> QED
    BY <1>2, <1>3, <1>4, <2>1
<1>7. B <= C
  BY <1>2, <1>3, <1>6
<1>8. B < C => B <= b
  <2> SUFFICES ASSUME B < C PROVE B <= b
    OBVIOUS
  <2>1. q < r
    BY <1>2, <1>3, <1>7
  <2>2. (q + 1) * s <= r * s /\ (q + 1) * s = q * s + s
    BY <1>2, <1>3, <2>1
  <2> HIDE DEF B, C
  <2>3. B + s <= C
    BY <2>2 DEF B, C
  <2> QED
    BY <1>3, <1>4, <2>3
<1>9. b < B => b \div s = a \div s
  <2> SUFFICES ASSUME b < B PROVE b \div s = a \div s
    OBVIOUS
  <2>1. q # 0
    BY <1>2, <1>4
  <2>2. PICK p \in Nat : q = p + 1
    <3>1. q - 1 \in Nat /\ q = (q - 1) + 1
      BY <1>2, <2>1
    <3> QED
      BY <3>1
  <2>3. B = p * s + s /\ p * s \in Nat
    BY <2>2
  <2>4. p * s <= a /\ a < p * s + s /\ p * s <= b /\ b < p * s + s
    <3> DEFINE x == p * s
    <3> HIDE DEF B, x
    <3>1. x <= a /\ a < x + s /\ x <= b /\ b < x + s
      <4>1. B = x + s /\ x \in Nat
        BY <2>3 DEF x
      <4> QED
        BY <1>2, <1>4, <1>5, <4>1
    <3> QED
      BY <3>1 DEF x
  <2>5. a \div s = p /\ b \div s = p
    BY <2>4, DivIs
  <2> QED
    BY <2>5
<1>10. B \div s = q
  BY <1>2, <1>4, DivIs
<1>11. ASSUME NEW n \in Nat, n < B PROVE n \div s < q
  <2> DEFINE p == n \div s
  <2>1. p \in Nat /\ p * s <= n
    BY DivFacts
  <2> HIDE DEF p
  <2>2. ASSUME q <= p PROVE FALSE
    <3>1. q * s <= p * s
      BY <1>2, <2>1, <2>2
    <3> QED
      BY <1>4, <1>11, <2>1, <3>1
  <2> QED
    BY <1>2, <2>1, <2>2 DEF p
<1>12. ASSUME NEW n \in Nat, B <= n PROVE q <= n \div s
  <2> DEFINE p == n \div s
  <2>1. p \in Nat /\ n < p * s + s
    BY DivFacts
  <2> HIDE DEF p
  <2>2. ASSUME p < q PROVE FALSE
    <3>1. (p + 1) * s <= q * s /\ (p + 1) * s = p * s + s
      BY <1>2, <2>1, <2>2
    <3> QED
      BY <1>4, <1>12, <2>1, <3>1
  <2> QED
    BY <1>2, <2>1, <2>2 DEF p
<1> HIDE DEF B, C
<1> QED
  BY <1>1, <1>4, <1>5, <1>7, <1>8, <1>9, <1>10, <1>11, <1>12

\* The turns from place p on.
LEMMA RestFacts ==
  ASSUME NEW D, NEW s \in Seq(D), NEW p \in 1..Len(s) + 1
  PROVE  LET r == SubSeq(s, p, Len(s))
         IN  /\ r \in Seq(D) /\ Len(r) = Len(s) - p + 1 /\ Len(s) \in Nat
             /\ \A i \in 1..Len(r) : r[i] = s[p + i - 1]
<1>1. Len(s) \in Nat
  BY LenProperties
<1> QED
  BY <1>1, SubSeqProperties

\* What CapTurns returns is the turns from a place on, with their answers cut.
WindowFrom(window, turns, p) ==
  /\ p \in 1..Len(turns) /\ window \in Seq(AnyTurn) /\ Len(window) = Len(turns) - p + 1
  /\ \A i \in 1..Len(window) : SameTurn(window[i], turns[p + i - 1])

\* That place is the first at or past the boundary after the first turn that
\* fits; that turn's own if none is; or the last, if not even that fits.
Opens(p, turns, from, step) ==
  LET N == Len(turns) start == Boundary(turns[from].index, step)
  IN  /\ from = N + 1 => p = N
      /\ from # N + 1 =>
           /\ from <= p
           /\ \/ turns[p].index >= start /\ \A i \in from..p - 1 : turns[i].index < start
              \/ p = from /\ \A i \in from..N : turns[i].index < start

From(turns, b) == FitsFrom(CapAnswers(turns, b.maxAnswer), b.budget)
Budgets == [budget : Nat, maxAnswer : Nat, step : Nat \ {0}]

\* Not even the last turn fits.
LEMMA LastFacts ==
  ASSUME NEW turns \in Seq(AnyTurn), turns # <<>>, NEW budget \in Nat
  PROVE  /\ OnlyLast(turns, budget) \in Seq(AnyTurn) /\ Len(OnlyLast(turns, budget)) = 1
         /\ SameTurn(OnlyLast(turns, budget)[1], turns[Len(turns)])
<1> DEFINE last == turns[Len(turns)]
           room == IF budget > last.question THEN budget - last.question ELSE 0
           kept == IF last.answer = Nothing THEN last
                   ELSE [last EXCEPT !.answer = TruncateTokens(@, room)]
<1>1. last \in AnyTurn
  <2>1. Len(turns) \in 1..Len(turns)
    BY EmptySeq, LenProperties
  <2> QED
    BY <2>1, ElementOfSeq
<1>2. last.question \in Nat /\ room \in Nat
  BY <1>1 DEF AnyTurn
<1> HIDE DEF last, room
<1>3. kept \in AnyTurn /\ SameTurn(kept, last)
  <2>1. CASE last.answer = Nothing
    BY <1>1, <2>1 DEF SameTurn
  <2>2. CASE last.answer # Nothing
    <3>1. last.answer \in Nat
      BY <1>1, <2>2 DEF AnyTurn
    <3>2. TruncateTokens(last.answer, room) \in Nat
      BY <1>2, <3>1, HistoryAssumption DEF TruncateTokens
    <3>3. kept = [last EXCEPT !.answer = TruncateTokens(@, room)]
      BY <2>2
    <3> QED
      BY <1>1, <3>2, <3>3 DEF AnyTurn, SameTurn
  <2> QED
    BY <2>1, <2>2
<1>4. OnlyLast(turns, budget) = <<kept>>
  BY DEF OnlyLast, last, room
<1> HIDE DEF kept
<1> QED
  BY <1>3, <1>4 DEF last

\* The part of the turns that fit from the boundary on.
LEMMA PastFacts ==
  ASSUME NEW fitting \in Seq(AnyTurn), Rising(fitting), NEW start \in Nat
  PROVE  LET past == {i \in DOMAIN fitting : fitting[i].index >= start}
             window == Picked(fitting, past)
         IN  \/ window = <<>> /\ \A i \in 1..Len(fitting) : fitting[i].index < start
             \/ \E m \in 1..Len(fitting) :
                  /\ window = SubSeq(fitting, m, Len(fitting)) /\ window # <<>>
                  /\ fitting[m].index >= start
                  /\ \A i \in 1..m - 1 : fitting[i].index < start
<1> DEFINE L == Len(fitting)
           past == {i \in DOMAIN fitting : fitting[i].index >= start}
           window == Picked(fitting, past)
<1>1. L \in Nat /\ DOMAIN fitting = 1..L /\ \A i \in 1..L : fitting[i].index \in Nat
  <2>1. L \in Nat /\ DOMAIN fitting = 1..L /\ fitting \in [1..L -> AnyTurn]
    BY LenProperties
  <2>2. \A i \in 1..L : fitting[i] \in AnyTurn
    <3> HIDE DEF L
    <3> QED
      BY <2>1
  <2> QED
    BY <2>1, <2>2 DEF AnyTurn
<1>2. \A m \in 1..L + 1 : /\ SubSeq(fitting, m, L) \in Seq(AnyTurn)
                          /\ Len(SubSeq(fitting, m, L)) = L - m + 1
                          /\ Picked(fitting, m..L) = SubSeq(fitting, m, L)
  BY RestFacts, PickedRest
<1>3. CASE past = {}
  <2>1. L + 1 \in 1..L + 1 /\ L + 1..L = {} /\ L - (L + 1) + 1 = 0
    BY <1>1
  <2>2. window = SubSeq(fitting, L + 1, L) /\ Len(SubSeq(fitting, L + 1, L)) = 0
    BY <1>2, <1>3, <2>1
  <2>3. window = <<>>
    BY <1>2, <2>1, <2>2, EmptySeq
  <2>4. \A i \in 1..L : fitting[i].index < start
    <3> SUFFICES ASSUME NEW i \in 1..L PROVE fitting[i].index < start
      OBVIOUS
    <3>1. i \notin past
      BY <1>3
    <3>2. ~(fitting[i].index >= start) /\ fitting[i].index \in Nat
      BY <1>1, <3>1
    <3> QED
      BY <3>2
  <2> QED
    BY <2>3, <2>4
<1>4. CASE past # {}
  <2>1. PICK m \in past : \A i \in past : m <= i
    <3>1. past \in SUBSET Nat
      BY <1>1
    <3> HIDE DEF past
    <3> QED
      BY <1>4, <3>1, LeastNumber
  <2>2. m \in 1..L /\ fitting[m].index >= start
    BY <1>1, <2>1
  <2>3. \A i \in 1..m - 1 : fitting[i].index < start
    <3> SUFFICES ASSUME NEW i \in 1..m - 1 PROVE fitting[i].index < start
      OBVIOUS
    <3>1. i \notin past /\ i \in 1..L
      BY <1>1, <2>1, <2>2
    <3>2. ~(fitting[i].index >= start) /\ fitting[i].index \in Nat
      BY <1>1, <3>1
    <3> QED
      BY <3>2
  <2>4. \A i \in m..L : i \in past
    <3> SUFFICES ASSUME NEW i \in m..L PROVE i \in past
      OBVIOUS
    <3>1. i \in 1..L /\ (m < i \/ i = m)
      BY <1>1, <2>2
    <3>2. m < i => fitting[m].index < fitting[i].index
      BY <2>2, <3>1 DEF Rising
    <3>3. fitting[i].index >= start
      BY <1>1, <2>2, <3>1, <3>2
    <3> QED
      BY <1>1, <3>1, <3>3
  <2>5. past = m..L
    <3>1. \A i \in past : i \in m..L
      BY <1>1, <2>1, <2>2
    <3> HIDE DEF past
    <3> QED
      BY <2>4, <3>1
  <2>6. window = SubSeq(fitting, m, L) /\ Len(window) = L - m + 1 /\ L - m + 1 # 0
    <3>1. window = SubSeq(fitting, m, L) /\ Len(SubSeq(fitting, m, L)) = L - m + 1
      <4>1. m \in 1..L + 1
        BY <1>1, <2>2
      <4> HIDE DEF past
      <4> QED
        BY <1>2, <2>5, <4>1
    <3> QED
      BY <1>1, <2>2, <3>1
  <2>7. window # <<>>
    BY <1>2, <2>2, <2>6, EmptySeq
  <2> HIDE DEF past, L
  <2> QED
    BY <2>2, <2>3, <2>6, <2>7 DEF L, past
<1> QED
  BY <1>3, <1>4

\* What fits of the turns, from where on, and the window in it.
LEMMA CapTurnsFacts ==
  ASSUME NEW turns \in Seq(AnyTurn), turns # <<>>, Rising(turns), NEW b \in Budgets
  PROVE  LET window == CapTurns(turns, b)
         IN  /\ \E p \in 1..Len(turns) :
                  WindowFrom(window, turns, p) /\ Opens(p, turns, From(turns, b), b.step)
             /\ TotalTokens(window) <= b.budget \/ Len(window) = 1
<1> DEFINE N == Len(turns)
           capped == CapAnswers(turns, b.maxAnswer)
           from == FitsFrom(capped, b.budget)
           fitting == SubSeq(capped, from, Len(capped))
           start == ((fitting[1].index + b.step - 1) \div b.step) * b.step
           past == {i \in DOMAIN fitting : fitting[i].index >= start}
           some == Picked(fitting, past)
           window == CapTurns(turns, b)
<1>1. b.budget \in Nat /\ b.maxAnswer \in Nat /\ b.step \in Nat \ {0}
  BY DEF Budgets
<1>2. N \in Nat /\ N # 0 /\ \A i \in 1..N : turns[i].index \in Nat
  <2>1. N \in Nat /\ turns \in [1..N -> AnyTurn] /\ N # 0
    BY LenProperties, EmptySeq
  <2> HIDE DEF N
  <2>2. \A i \in 1..N : turns[i] \in AnyTurn
    BY <2>1
  <2> QED
    BY <2>1, <2>2 DEF AnyTurn
<1>3. capped \in Seq(AnyTurn) /\ Len(capped) = N /\ \A i \in 1..N : SameTurn(capped[i], turns[i])
  BY <1>1, CapFacts
<1>4. window = IF fitting = <<>> THEN OnlyLast(capped, b.budget)
               ELSE IF some = <<>> THEN fitting ELSE some
  BY DEF CapTurns
<1>5. from = From(turns, b)
  BY DEF From
<1> HIDE DEF capped, window
<1>6. Begins(from, capped, b.budget)
  BY <1>1, <1>3, FitsFromFacts
<1> HIDE DEF from
<1>7. from \in 1..N + 1 /\ Costs(capped)[N + 1 - from] <= b.budget
  BY <1>3, <1>6 DEF Begins
<1>8. /\ fitting \in Seq(AnyTurn) /\ Len(fitting) = N - from + 1
      /\ \A i \in 1..Len(fitting) : fitting[i] = capped[from + i - 1]
  BY <1>3, <1>7, RestFacts
<1> HIDE DEF N, fitting
\* The rest of the turns from a place that fits costs no more than the budget.
<1>9. ASSUME NEW p \in from..N
      PROVE  LET rest == SubSeq(capped, p, N)
             IN  WindowFrom(rest, turns, p) /\ TotalTokens(rest) <= b.budget
  <2> DEFINE rest == SubSeq(capped, p, N) k == N - p + 1
  <2>1. p \in 1..N /\ p \in 1..N + 1 /\ k \in 0..N /\ N + 1 - from \in 0..N /\ k <= N + 1 - from
        /\ k \in 0..k
    BY <1>2, <1>7
  <2>2. rest \in Seq(AnyTurn) /\ Len(rest) = k /\ \A i \in 1..k : rest[i] = capped[p + i - 1]
    BY <1>3, <2>1, RestFacts
  <2> HIDE DEF rest
  <2>3. \A i \in 1..k : p + i - 1 \in 1..N
    BY <1>2, <2>1
  <2>4. WindowFrom(rest, turns, p)
    BY <1>3, <2>1, <2>2, <2>3 DEF WindowFrom, N
  <2>5. \A i \in 1..k : rest[i] = capped[N - k + i]
    <3>1. \A i \in 1..k : p + i - 1 = N - k + i
      BY <1>2, <2>1
    <3> HIDE DEF k
    <3> QED
      BY <2>2, <3>1
  <2>6. Costs(rest)[k] = Costs(capped)[k]
    <3>1. k <= N
      BY <2>1
    <3> HIDE DEF k
    <3> QED
      BY <1>3, <2>1, <2>2, <2>5, <3>1, SameEnd
  <2>7. Costs(capped)[k] <= Costs(capped)[N + 1 - from]
    <3> HIDE DEF k
    <3> QED
      BY <1>3, <2>1, CostsGrow
  <2>8. TotalTokens(rest) = Costs(rest)[k]
    BY <2>2 DEF TotalTokens
  <2>9. Priced(Costs(capped), capped)
    BY <1>3, CostFacts
  <2>10. Costs(capped)[k] \in Nat /\ Costs(capped)[N + 1 - from] \in Nat
    BY <1>3, <2>1, <2>9 DEF Priced
  <2> QED
    BY <1>1, <1>7, <2>4, <2>6, <2>7, <2>8, <2>10 DEF rest
<1>10. CASE from = N + 1
  <2>1. fitting = <<>>
    BY <1>2, <1>7, <1>8, <1>10, EmptySeq
  <2>2. capped # <<>>
    BY <1>2, <1>3, EmptySeq
  <2>3. window \in Seq(AnyTurn) /\ Len(window) = 1 /\ SameTurn(window[1], capped[N])
    BY <1>1, <1>3, <1>4, <2>1, <2>2, LastFacts
  <2>4. N \in 1..N /\ N - N + 1 = 1 /\ N + 1 - 1 = N
    BY <1>2
  <2>5. SameTurn(window[1], turns[N])
    BY <1>3, <2>3, <2>4 DEF SameTurn
  <2>6. WindowFrom(window, turns, N)
    BY <2>3, <2>4, <2>5 DEF WindowFrom, N
  <2>7. Opens(N, turns, from, b.step)
    BY <1>10 DEF Opens, N
  <2> QED
    BY <1>5, <2>3, <2>4, <2>6, <2>7 DEF window, N
<1>11. CASE from # N + 1
  <2> DEFINE L == Len(fitting)
  <2>1. from \in 1..N /\ from \in from..N /\ L \in Nat /\ L = N - from + 1 /\ L # 0 /\ 1 \in 1..L
    BY <1>2, <1>7, <1>8, <1>11
  <2>2. fitting # <<>>
    BY <2>1, EmptySeq
  <2>3. ASSUME NEW i \in 1..L
        PROVE  from + i - 1 \in 1..N /\ fitting[i].index = turns[from + i - 1].index
    <3>1. from + i - 1 \in 1..N
      BY <1>2, <2>1
    <3> QED
      BY <1>3, <1>8, <3>1 DEF SameTurn
  <2>4. Rising(fitting)
    <3> SUFFICES ASSUME NEW i \in 1..L, NEW j \in 1..L, i < j
                 PROVE  fitting[i].index < fitting[j].index
      BY DEF Rising
    <3>1. from + i - 1 < from + j - 1
      BY <2>1
    <3> QED
      BY <2>3, <3>1 DEF Rising, N
  <2>5. start = Boundary(turns[from].index, b.step) /\ start \in Nat
    <3>1. fitting[1].index = turns[from].index
      <4>1. from + 1 - 1 = from
        BY <2>1
      <4> QED
        BY <2>1, <2>3, <4>1
    <3>2. turns[from].index \in Nat
      BY <1>2, <2>1
    <3>3. turns[from].index <= turns[from].index
      BY <3>2
    <3>4. Boundary(turns[from].index, b.step) \in Nat
      BY <1>1, <3>2, <3>3, BoundaryFacts
    <3> QED
      BY <3>1, <3>4 DEF Boundary
  <2> HIDE DEF start, L
  <2>6. \/ some = <<>> /\ \A i \in 1..L : fitting[i].index < start
        \/ \E m \in 1..L : /\ some = SubSeq(fitting, m, L) /\ some # <<>>
                            /\ fitting[m].index >= start
                            /\ \A i \in 1..m - 1 : fitting[i].index < start
    BY <1>8, <2>4, <2>5, PastFacts DEF L
  <2> HIDE DEF past, some
  <2>7. CASE some = <<>> /\ \A i \in 1..L : fitting[i].index < start
    <3>1. window = SubSeq(capped, from, N)
      BY <1>3, <1>4, <2>2, <2>7 DEF fitting
    <3>2. \A i \in from..N : turns[i].index < start
      <4> SUFFICES ASSUME NEW i \in from..N PROVE turns[i].index < start
        OBVIOUS
      <4>1. i - from + 1 \in 1..L /\ from + (i - from + 1) - 1 = i
        BY <1>2, <2>1
      <4>2. fitting[i - from + 1].index = turns[i].index
        BY <2>3, <4>1
      <4> QED
        BY <2>7, <4>1, <4>2
    <3>3. Opens(from, turns, from, b.step)
      BY <1>11, <2>1, <2>5, <3>2 DEF Opens, N
    <3> QED
      BY <1>5, <1>9, <2>1, <3>1, <3>3 DEF window, N
  <2>8. ASSUME NEW m \in 1..L, some = SubSeq(fitting, m, L), some # <<>>,
               fitting[m].index >= start, \A i \in 1..m - 1 : fitting[i].index < start
        PROVE  /\ \E p \in 1..N : WindowFrom(window, turns, p) /\ Opens(p, turns, from, b.step)
               /\ TotalTokens(window) <= b.budget
    <3> DEFINE p == from + m - 1
    <3>1. p \in from..N /\ p \in 1..N /\ L - m + 1 = N - p + 1 /\ p \in 1..N + 1 /\ m \in 1..L + 1
      BY <1>2, <2>1
    <3>2. /\ some \in Seq(AnyTurn) /\ Len(some) = L - m + 1
          /\ \A i \in 1..Len(some) : some[i] = fitting[m + i - 1]
      BY <1>8, <2>8, <3>1, RestFacts DEF L
    <3>3. /\ SubSeq(capped, p, N) \in Seq(AnyTurn) /\ Len(SubSeq(capped, p, N)) = N - p + 1
          /\ \A i \in 1..Len(SubSeq(capped, p, N)) : SubSeq(capped, p, N)[i] = capped[p + i - 1]
      <4> HIDE DEF p
      <4> QED
        BY <1>3, <3>1, RestFacts
    <3>4. \A i \in 1..N - p + 1 : some[i] = SubSeq(capped, p, N)[i]
      <4> SUFFICES ASSUME NEW i \in 1..N - p + 1 PROVE some[i] = SubSeq(capped, p, N)[i]
        OBVIOUS
      <4>1. i \in 1..Len(some) /\ m + i - 1 \in 1..L /\ from + (m + i - 1) - 1 = p + i - 1
        BY <1>2, <2>1, <3>1, <3>2
      <4>2. some[i] = fitting[m + i - 1] /\ fitting[m + i - 1] = capped[from + (m + i - 1) - 1]
        BY <1>8, <3>2, <4>1 DEF L
      <4> HIDE DEF p
      <4> QED
        BY <3>3, <4>1, <4>2
    <3>5. window = SubSeq(capped, p, N)
      <4>1. window = some
        BY <1>4, <2>2, <2>8
      <4>2. some = SubSeq(capped, p, N)
        <5> HIDE DEF p
        <5> QED
          BY <3>1, <3>2, <3>3, <3>4, SeqEqual
      <4> QED
        BY <4>1, <4>2
    <3>6. turns[p].index >= start /\ \A i \in from..p - 1 : turns[i].index < start
      <4>1. turns[p].index >= start
        BY <2>3, <2>8
      <4>2. ASSUME NEW i \in from..p - 1 PROVE turns[i].index < start
        <5>1. i - from + 1 \in 1..m - 1 /\ i - from + 1 \in 1..L /\ from + (i - from + 1) - 1 = i
          BY <1>2, <2>1, <3>1
        <5>2. fitting[i - from + 1].index = turns[i].index
          BY <2>3, <5>1
        <5> QED
          BY <2>8, <5>1, <5>2
      <4> QED
        BY <4>1, <4>2
    <3>7. Opens(p, turns, from, b.step)
      <4>1. from <= p
        BY <2>1, <3>1
      <4> HIDE DEF p
      <4> QED
        BY <1>11, <2>5, <3>6, <4>1 DEF Opens, N
    <3> HIDE DEF p
    <3> QED
      BY <1>9, <3>1, <3>5, <3>7
  <2> QED
    BY <1>5, <2>6, <2>7, <2>8 DEF window, N
<1> QED
  BY <1>10, <1>11

\* A conversation goes on from the turns there were.
Continues(later, turns) ==
  /\ Len(turns) <= Len(later) /\ \A i \in 1..Len(turns) : later[i] = turns[i]

\* What fits begins no earlier when turns are added.
LEMMA FromGrows ==
  ASSUME NEW turns \in Seq(AnyTurn), NEW later \in Seq(AnyTurn), Continues(later, turns),
         NEW b \in Budgets
  PROVE  /\ From(turns, b) \in 1..Len(turns) + 1 /\ From(later, b) \in 1..Len(later) + 1
         /\ From(turns, b) <= From(later, b)
<1> DEFINE M == Len(turns) N == Len(later)
           s == CapAnswers(turns, b.maxAnswer) t == CapAnswers(later, b.maxAnswer)
           f == From(turns, b) g == From(later, b)
           short == Costs(s) long == Costs(t)
<1>1. b.budget \in Nat /\ b.maxAnswer \in Nat
  BY DEF Budgets
<1>2. M \in Nat /\ N \in Nat /\ M <= N /\ DOMAIN turns = 1..M /\ DOMAIN later = 1..N
  BY LenProperties DEF Continues
<1>3. s \in Seq(AnyTurn) /\ Len(s) = M /\ t \in Seq(AnyTurn) /\ Len(t) = N
  BY <1>1, CapFacts
<1>4. \A i \in 1..M : s[i] = t[i]
  BY <1>2 DEF CapAnswers, Continues
<1> HIDE DEF s, t
<1>5. Begins(f, s, b.budget) /\ Begins(g, t, b.budget)
  BY <1>1, <1>3, FitsFromFacts DEF From, s, t
<1>6. Priced(short, s) /\ Priced(long, t)
  BY <1>3, CostFacts
<1> HIDE DEF M, N, f, g
<1>7. f \in 1..M + 1 /\ (f > 1 => short[M + 2 - f] > b.budget)
  BY <1>3, <1>5 DEF Begins
<1>8. g \in 1..N + 1 /\ long[N + 1 - g] <= b.budget
  BY <1>3, <1>5 DEF Begins
<1>9. (\A k \in 0..M : short[k] \in Nat) /\ (\A k \in 0..N : long[k] \in Nat)
  BY <1>3, <1>6 DEF Priced
<1>10. ASSUME g < f PROVE FALSE
  <2> DEFINE k == M + 2 - f
  <2>1. k \in 0..M /\ k + (N - M) \in 0..N /\ N + 1 - g \in 0..N /\ k + (N - M) <= N + 1 - g /\ f > 1
    BY <1>2, <1>7, <1>8, <1>10
  <2>2. short[k] > b.budget /\ short[k] \in Nat
    BY <1>7, <1>9, <2>1
  <2>3. short[k] <= long[k + (N - M)]
    <3> HIDE DEF k
    <3> QED
      BY <1>2, <1>3, <1>4, <2>1, MoreTurns
  <2>4. long[k + (N - M)] <= long[N + 1 - g]
    <3> HIDE DEF k
    <3> QED
      BY <1>3, <2>1, CostsGrow
  <2>5. long[k + (N - M)] \in Nat /\ long[N + 1 - g] \in Nat
    BY <1>9, <2>1
  <2> HIDE DEF k, short, long
  <2> QED
    BY <1>1, <1>8, <2>2, <2>3, <2>4, <2>5
<1> QED
  BY <1>2, <1>7, <1>8, <1>10 DEF f, g, M, N

\* The numbers of the turns.
LEMMA Numbered ==
  ASSUME NEW turns \in Seq(AnyTurn)
  PROVE  Len(turns) \in Nat /\ \A i \in 1..Len(turns) : turns[i] \in AnyTurn /\ turns[i].index \in Nat
<1>1. Len(turns) \in Nat /\ \A i \in 1..Len(turns) : turns[i] \in AnyTurn
  BY LenProperties, ElementOfSeq
<1> QED
  BY <1>1 DEF AnyTurn

\* The window opens no earlier when turns are added.
LEMMA OpensLater ==
  ASSUME NEW turns \in Seq(AnyTurn), NEW later \in Seq(AnyTurn), Continues(later, turns),
         Rising(later), NEW step \in Nat \ {0},
         NEW f \in 1..Len(turns) + 1, NEW g \in 1..Len(later) + 1, f <= g,
         NEW p \in 1..Len(turns), NEW q \in 1..Len(later),
         Opens(p, turns, f, step), Opens(q, later, g, step)
  PROVE  later[p].index <= later[q].index
<1> DEFINE M == Len(turns) N == Len(later) x(i) == later[i].index
           B == Boundary(x(f), step) C == Boundary(x(g), step)
<1>1. M \in Nat /\ N \in Nat /\ M <= N /\ \A i \in 1..N : x(i) \in Nat
  BY Numbered DEF Continues
<1>2. \A i \in 1..M : later[i] = turns[i]
  BY DEF Continues
<1>3. \A i, j \in 1..N : i < j => x(i) < x(j)
  BY DEF Rising
<1>4. ASSUME q < p PROVE FALSE
  <2>1. g # N + 1
    BY <1>1, <1>4 DEF Opens
  <2>2. g <= q
    BY <2>1 DEF Opens
  <2>3. f \in 1..M /\ g \in 1..M /\ f # M + 1 /\ f < p /\ p # f /\ p \in g..N /\ q \in f..p - 1
    BY <1>1, <1>4, <2>2
  <2>4. x(f) \in Nat /\ x(g) \in Nat /\ x(f) <= x(g) /\ x(p) \in Nat /\ x(q) \in Nat
    <3>1. f \in 1..N /\ g \in 1..N /\ (f < g \/ f = g)
      BY <1>1, <2>3
    <3>2. f < g => x(f) < x(g)
      BY <1>3, <3>1
    <3>3. x(f) \in Nat /\ x(g) \in Nat /\ x(p) \in Nat /\ x(q) \in Nat
      BY <1>1, <3>1
    <3> HIDE DEF x
    <3> QED
      BY <3>1, <3>2, <3>3
  <2>5. turns[f].index = x(f) /\ turns[p].index = x(p) /\ turns[q].index = x(q)
    BY <1>1, <1>2, <2>3, SMTT(30)
  <2>6. x(p) >= B /\ x(q) < B
    <3>1. turns[p].index >= B /\ \A i \in f..p - 1 : turns[i].index < B
      BY <2>3, <2>5 DEF Opens
    <3>2. turns[q].index < B
      BY <2>3, <3>1
    <3> QED
      BY <2>5, <3>1, <3>2
  <2>7. B \in Nat /\ C \in Nat /\ B <= C /\ (B < C => B <= x(g))
    <3> HIDE DEF x
    <3> QED
      BY <2>4, BoundaryFacts
  <2>8. \/ x(q) >= C
        \/ q = g /\ \A i \in g..N : x(i) < C
    BY <2>1 DEF Opens
  <2> HIDE DEF B, C
  <2>9. q = g /\ x(p) < C
    <3>1. ~(x(q) >= C)
      <4> HIDE DEF x
      <4> QED
        BY <2>4, <2>6, <2>7
    <3>2. q = g /\ \A i \in g..N : x(i) < C
      BY <2>8, <3>1
    <3>3. x(p) < C
      BY <2>3, <3>2
    <3> QED
      BY <3>2, <3>3
  <2> HIDE DEF x
  <2> QED
    BY <2>4, <2>6, <2>7, <2>9
<1>5. p \in 1..N /\ q \in 1..N /\ (p < q \/ p = q)
  BY <1>1, <1>4
<1>6. p < q => x(p) < x(q)
  BY <1>3, <1>5
<1>7. x(p) \in Nat /\ x(q) \in Nat
  BY <1>1, <1>5
<1> QED
  BY <1>5, <1>6, <1>7

\* A window opens at the first turn of a block, or holds turns of one block only.
LEMMA OpensBlock ==
  ASSUME NEW later \in Seq(AnyTurn), Rising(later), NEW step \in Nat \ {0},
         NEW g \in 1..Len(later) + 1, NEW q \in 1..Len(later), Opens(q, later, g, step)
  PROVE  \/ \A i \in 1..Len(later) : later[i].index < later[q].index =>
                later[i].index \div step < later[q].index \div step
         \/ later[Len(later)].index \div step = later[q].index \div step
<1> DEFINE N == Len(later) x(i) == later[i].index C == Boundary(x(g), step)
<1>1. N \in Nat /\ N \in 1..N /\ \A i \in 1..N : x(i) \in Nat
  BY Numbered
<1>2. \A i, j \in 1..N : i < j => x(i) < x(j)
  BY DEF Rising
<1>3. CASE g = N + 1
  BY <1>3 DEF Opens
<1>4. CASE g # N + 1
  <2>1. g \in 1..N /\ g <= q /\ q \in 1..N
    BY <1>1, <1>4 DEF Opens
  <2>2. x(g) \in Nat /\ x(q) \in Nat /\ x(N) \in Nat /\ x(g) <= x(N)
    <3>1. x(g) \in Nat /\ x(q) \in Nat /\ x(N) \in Nat
      BY <1>1, <2>1
    <3>2. g < N \/ g = N
      BY <1>1, <2>1
    <3>3. g < N => x(g) < x(N)
      BY <1>1, <1>2, <2>1
    <3> HIDE DEF x
    <3> QED
      BY <3>1, <3>2, <3>3
  <2>3. /\ C \in Nat /\ x(g) <= C
        /\ x(N) < C => x(N) \div step = x(g) \div step
        /\ \A n \in Nat : n < C => n \div step < C \div step
        /\ \A n \in Nat : C <= n => C \div step <= n \div step
    <3> HIDE DEF x
    <3> QED
      BY <2>2, BoundaryFacts
  <2>4. \/ x(q) >= C /\ \A i \in g..q - 1 : x(i) < C
        \/ q = g /\ \A i \in g..N : x(i) < C
    BY <1>4 DEF Opens
  <2> HIDE DEF C
  <2>5. CASE q = g /\ \A i \in g..N : x(i) < C
    <3>1. N \in g..N
      BY <1>1, <2>1
    <3>2. x(N) < C
      BY <2>5, <3>1
    <3>3. x(N) \div step = x(q) \div step
      BY <2>3, <2>5, <3>2
    <3> QED
      BY <3>3
  <2>6. CASE x(q) >= C /\ \A i \in g..q - 1 : x(i) < C
    <3>1. ASSUME NEW i \in 1..N, x(i) < x(q) PROVE x(i) \div step < x(q) \div step
      <4>1. i < q
        <5>1. q < i => x(q) < x(i)
          BY <1>2, <2>1
        <5>2. x(i) \in Nat
          BY <1>1
        <5>3. ~(x(q) < x(i)) /\ x(q) # x(i)
          <6> HIDE DEF x
          <6> QED
            BY <2>2, <3>1, <5>2
        <5>4. ~(q < i) /\ q # i
          BY <5>1, <5>3
        <5> QED
          BY <1>1, <2>1, <5>4
      <4>2. x(i) < C /\ x(i) \in Nat
        <5>1. x(i) \in Nat
          BY <1>1
        <5>2. CASE i < g
          <6>1. x(i) < x(g)
            BY <1>2, <2>1, <5>2
          <6>2. x(g) <= C /\ C \in Nat /\ x(g) \in Nat
            BY <2>2, <2>3
          <6> HIDE DEF x
          <6> QED
            BY <5>1, <6>1, <6>2
        <5>3. CASE ~(i < g)
          <6>1. i \in g..q - 1
            BY <1>1, <2>1, <4>1, <5>3
          <6> QED
            BY <2>6, <5>1, <6>1
        <5> QED
          BY <5>2, <5>3
      <4>3. x(i) \div step < C \div step /\ C \div step <= x(q) \div step
        <5>1. C <= x(q)
          BY <2>2, <2>3, <2>6
        <5> HIDE DEF x
        <5> QED
          BY <2>2, <2>3, <4>2, <5>1
      <4>4. x(i) \div step \in Nat /\ C \div step \in Nat /\ x(q) \div step \in Nat
        <5> HIDE DEF x
        <5> QED
          BY <2>2, <2>3, <4>2, DivFacts
      <4> QED
        BY <4>3, <4>4
    <3> QED
      BY <3>1
  <2> QED
    BY <2>4, <2>5, <2>6
<1> QED
  BY <1>3, <1>4

\* A question and what answered it.
AnyPair == [question : Message, answer : Message \cup {Nothing}]

\* What one message does to the pairs.
LEMMA PairCases ==
  ASSUME NEW ps \in Seq(AnyPair), NEW m \in Message
  PROVE  LET next == Pair(ps, m) n == Len(ps)
         IN  /\ n \in Nat /\ next \in Seq(AnyPair)
             /\ \/ /\ m.role = "user"
                   /\ Len(next) = n + 1 /\ \A i \in 1..n : next[i] = ps[i]
                \/ /\ m.role = "assistant" /\ n # 0 /\ ps[n].answer = Nothing
                   /\ Len(next) = n /\ next[n].answer = m
                   /\ \A i \in 1..n - 1 : next[i] = ps[i]
                \/ /\ m.role = "assistant" /\ next = ps
                   /\ n = 0 \/ ps[n].answer # Nothing
<1> DEFINE next == Pair(ps, m) n == Len(ps)
<1>1. n \in Nat /\ ps \in [1..n -> AnyPair] /\ DOMAIN ps = 1..n /\ (n = 0 <=> ps = <<>>)
  BY LenProperties, EmptySeq
<1> HIDE DEF n
<1>2. CASE m.role = "user"
  <2> DEFINE new == [question |-> m, answer |-> Nothing]
  <2>1. next = Append(ps, new)
    BY <1>2 DEF Pair
  <2>2. new \in AnyPair
    BY DEF AnyPair
  <2> HIDE DEF new
  <2>3. next \in Seq(AnyPair) /\ Len(next) = n + 1 /\ \A i \in 1..n : next[i] = ps[i]
    BY <2>1, <2>2, AppendProperties DEF n
  <2> QED
    BY <1>1, <1>2, <2>3 DEF n
<1>3. CASE m.role # "user" /\ n # 0 /\ ps[n].answer = Nothing
  <2> DEFINE new == [question |-> ps[n].question, answer |-> m]
  <2>1. m.role = "assistant"
    BY <1>3 DEF Message
  <2>2. next = [ps EXCEPT ![n] = new]
    BY <1>1, <1>3, <2>1 DEF Pair, n
  <2>3. n \in 1..n /\ ps[n] \in AnyPair
    BY <1>1, <1>3
  <2>4. new \in AnyPair /\ new.answer = m
    BY <2>3 DEF AnyPair
  <2> HIDE DEF new, next
  <2>5. next \in [1..n -> AnyPair] /\ next[n] = new /\ \A i \in 1..n - 1 : next[i] = ps[i]
    BY <1>1, <2>2, <2>3, <2>4
  <2>6. next \in Seq(AnyPair) /\ Len(next) = n
    BY <1>1, <2>5, FunctionIsSeq
  <2> QED
    BY <1>1, <1>3, <2>1, <2>4, <2>5, <2>6 DEF next, n
<1>4. CASE m.role # "user" /\ ~(n # 0 /\ ps[n].answer = Nothing)
  <2>1. m.role = "assistant"
    BY <1>4 DEF Message
  <2>2. next = ps
    BY <1>1, <1>4, <2>1 DEF Pair, n
  <2> QED
    BY <1>1, <1>4, <2>1, <2>2 DEF n
<1> QED
  BY <1>2, <1>3, <1>4

\* The pairs after each message.
PairedBy(pairs, messages) ==
  LET N == Len(messages)
  IN  /\ N \in Nat /\ pairs \in [0..N -> Seq(AnyPair)] /\ pairs[0] = <<>>
      /\ \A n \in 1..N : messages[n] \in Message /\ pairs[n] = Pair(pairs[n - 1], messages[n])

\* The pairs of a conversation exist, one step for each message.
LEMMA PairedFacts ==
  ASSUME NEW messages \in Seq(Message)
  PROVE  PairedBy(Paired(messages), messages)
<1> DEFINE N == Len(messages)
           F == [x \in Seq(AnyPair) \X (1..N) |-> Pair(x[1], messages[x[2]])]
           Equal(f) == f = [n \in 0..N |-> IF n = 0 THEN <<>> ELSE Pair(f[n - 1], messages[n])]
           pairs == CHOOSE f : Equal(f)
<1>1. Paired(messages) = pairs
  BY DEF Paired
<1>2. N \in Nat /\ \A n \in 1..N : messages[n] \in Message
  BY LenProperties, ElementOfSeq
<1> HIDE DEF N
<1>3. \A ps \in Seq(AnyPair), n \in 1..N : Pair(ps, messages[n]) \in Seq(AnyPair)
  BY <1>2, PairCases
<1>4. F \in [Seq(AnyPair) \X (1..N) -> Seq(AnyPair)] /\ <<>> \in Seq(AnyPair)
  BY <1>3, EmptySeq
<1>5. \A ps \in Seq(AnyPair), n \in 1..N : F[<<ps, n>>] = Pair(ps, messages[n])
  OBVIOUS
<1> HIDE DEF F
<1>6. \E f : Equal(f)
  <2>0. PICK f : Chained(f, Seq(AnyPair), <<>>, N, F)
    BY <1>2, <1>4, Chain
  <2>1. f \in [0..N -> Seq(AnyPair)] /\ f[0] = <<>> /\ \A n \in 1..N : f[n] = F[<<f[n - 1], n>>]
    BY <2>0 DEF Chained
  <2>2. ASSUME NEW n \in 1..N PROVE f[n] = Pair(f[n - 1], messages[n])
    <3>1. f[n - 1] \in Seq(AnyPair)
      BY <1>2, <2>1
    <3> QED
      BY <1>5, <2>1, <3>1
  <2>3. Equal(f)
    BY <1>2, <2>1, <2>2
  <2> QED
    BY <2>3
<1>7. Equal(pairs)
  BY <1>6
<1> HIDE DEF pairs
<1>8. pairs[0] = <<>> /\ \A n \in 1..N : pairs[n] = Pair(pairs[n - 1], messages[n])
  <2>1. 0 \in 0..N /\ \A n \in 1..N : n \in 0..N /\ n # 0
    BY <1>2
  <2>2. pairs[0] = <<>>
    BY <1>7, <2>1
  <2>3. ASSUME NEW n \in 1..N PROVE pairs[n] = Pair(pairs[n - 1], messages[n])
    BY <1>7, <2>1
  <2> QED
    BY <2>2, <2>3
<1> DEFINE G == {n \in 0..N : pairs[n] \in Seq(AnyPair)}
<1>9. 0 \in G /\ \A n \in 1..N : n - 1 \in G => n \in G
  <2>1. 0 \in G
    <3>1. 0 \in 0..N /\ pairs[0] \in Seq(AnyPair)
      BY <1>2, <1>4, <1>8
    <3> QED
      BY <3>1
  <2>2. ASSUME NEW n \in 1..N, n - 1 \in G PROVE n \in G
    <3>1. Pair(pairs[n - 1], messages[n]) \in Seq(AnyPair)
      BY <1>3, <2>2
    <3> QED
      BY <1>2, <1>8, <3>1
  <2> QED
    BY <2>1, <2>2
<1>10. \A n \in 0..N : n \in G
  <2> HIDE DEF G
  <2> QED
    BY <1>2, <1>9, Upwards
<1>11. pairs \in [0..N -> Seq(AnyPair)]
  <2>1. pairs = [n \in 0..N |-> pairs[n]]
    BY <1>7
  <2> QED
    BY <1>10, <2>1
<1> QED
  BY <1>1, <1>2, <1>8, <1>11 DEF PairedBy, N

\* Messages that begin the same are paired the same.
LEMMA PairedSame ==
  ASSUME NEW s \in Seq(Message), NEW t \in Seq(Message), Continues(t, s),
         NEW n \in 0..Len(s)
  PROVE  Paired(s)[n] = Paired(t)[n]
<1> DEFINE M == Len(s) short == Paired(s) long == Paired(t)
           G == {k \in 0..M : short[k] = long[k]}
<1>1. PairedBy(short, s) /\ PairedBy(long, t)
  BY PairedFacts
<1>2. M \in Nat /\ (\A k \in 1..M : k \in 1..Len(t)) /\ \A k \in 1..M : t[k] = s[k]
  BY <1>1 DEF PairedBy, Continues
<1>3. short[0] = <<>> /\ long[0] = <<>>
      /\ \A k \in 1..M : short[k] = Pair(short[k - 1], s[k]) /\ long[k] = Pair(long[k - 1], t[k])
  BY <1>1, <1>2 DEF PairedBy
<1> HIDE DEF M, short, long
<1>4. 0 \in G /\ \A k \in 1..M : k - 1 \in G => k \in G
  BY <1>2, <1>3
<1>5. n \in G
  <2> HIDE DEF G
  <2>1. \A k \in 0..M : k \in G
    BY <1>2, <1>4, Upwards
  <2> QED
    BY <2>1 DEF M
<1> QED
  BY <1>5 DEF short, long

\* Pairs whose last question is answered or followed by another do not change.
Settled(later, pairs) ==
  /\ Continues(later, pairs)
  /\ Len(pairs) = 0 \/ pairs[Len(pairs)].answer # Nothing \/ Len(later) > Len(pairs)

\* Later messages leave settled pairs as they are.
LEMMA StaySettled ==
  ASSUME NEW pairs \in Seq(AnyPair), NEW later \in Seq(AnyPair), Settled(later, pairs),
         NEW m \in Message
  PROVE  Settled(Pair(later, m), pairs)
<1> DEFINE k == Len(pairs) n == Len(later) next == Pair(later, m)
<1>1. k \in Nat /\ n \in Nat /\ k <= n /\ \A i \in 1..k : later[i] = pairs[i]
  BY LenProperties DEF Settled, Continues
<1>2. \/ Len(next) = n + 1 /\ \A i \in 1..n : next[i] = later[i]
      \/ /\ n # 0 /\ later[n].answer = Nothing
         /\ Len(next) = n /\ \A i \in 1..n - 1 : next[i] = later[i]
      \/ next = later
  BY PairCases
<1>3. k = 0 \/ pairs[k].answer # Nothing \/ n > k
  BY DEF Settled
<1> HIDE DEF k, n, next
<1>4. CASE Len(next) = n + 1 /\ \A i \in 1..n : next[i] = later[i]
  <2>1. k <= Len(next) /\ Len(next) > k /\ \A i \in 1..k : next[i] = pairs[i]
    BY <1>1, <1>4
  <2> QED
    BY <2>1 DEF Settled, Continues, k, next
<1>5. CASE n # 0 /\ later[n].answer = Nothing /\ Len(next) = n /\ \A i \in 1..n - 1 : next[i] = later[i]
  <2>1. k = 0 \/ n > k
    <3>1. ASSUME k # 0, ~(n > k) PROVE FALSE
      <4>1. n = k /\ k \in 1..k
        BY <1>1, <3>1
      <4>2. later[n] = pairs[k]
        BY <1>1, <4>1
      <4> QED
        BY <1>3, <1>5, <3>1, <4>2
    <3> QED
      BY <3>1
  <2>2. k <= Len(next) /\ \A i \in 1..k : next[i] = pairs[i]
    BY <1>1, <1>5, <2>1
  <2> QED
    BY <1>5, <2>1, <2>2 DEF Settled, Continues, k, next
<1>6. CASE next = later
  BY <1>6 DEF next
<1> QED
  BY <1>2, <1>4, <1>5, <1>6

\* The messages before the current question, from the front of a conversation.
LEMMA PriorFacts ==
  ASSUME NEW ms \in Seq(Message)
  PROVE  /\ Prior(ms) \in Seq(Message) /\ Continues(ms, Prior(ms)) /\ Len(ms) \in Nat
         /\ \/ Prior(ms) = ms /\ (ms = <<>> \/ ms[Len(ms)].role = "assistant")
            \/ Len(ms) # 0 /\ Len(Prior(ms)) = Len(ms) - 1 /\ ms[Len(ms)].role = "user"
<1> DEFINE n == Len(ms)
<1>1. n \in Nat /\ (n = 0 <=> ms = <<>>) /\ \A i \in 1..n : ms[i] \in Message
  BY LenProperties, EmptySeq, ElementOfSeq
<1>2. CASE n > 0 /\ ms[n].role = "user"
  <2>1. Prior(ms) = SubSeq(ms, 1, n - 1)
    BY <1>2 DEF Prior
  <2>2. n - 1 \in Int /\ 1 \in Int /\ \A i \in 1..n - 1 : ms[i] \in Message
    BY <1>1
  <2>3. /\ SubSeq(ms, 1, n - 1) \in Seq(Message)
        /\ Len(SubSeq(ms, 1, n - 1)) = IF 1 <= n - 1 THEN n - 1 - 1 + 1 ELSE 0
        /\ \A i \in 1..n - 1 - 1 + 1 : SubSeq(ms, 1, n - 1)[i] = ms[1 + i - 1]
    <3> HIDE DEF n
    <3> QED
      BY <2>2, SubSeqProperties
  <2> HIDE DEF n
  <2>4. Len(Prior(ms)) = n - 1
    BY <1>1, <1>2, <2>1, <2>3
  <2>5. \A i \in 1..n - 1 : Prior(ms)[i] = ms[i]
    BY <1>1, <2>1, <2>3
  <2>6. Continues(ms, Prior(ms))
    BY <1>1, <2>4, <2>5 DEF Continues, n
  <2> QED
    BY <1>1, <1>2, <2>1, <2>3, <2>4, <2>6 DEF n
<1>3. CASE ~(n > 0 /\ ms[n].role = "user")
  <2>1. Prior(ms) = ms
    BY <1>3 DEF Prior
  <2>2. n # 0 => ms[n].role = "assistant"
    <3>1. n # 0 => ms[n] \in Message /\ n > 0
      BY <1>1
    <3> QED
      BY <1>3, <3>1 DEF Message
  <2> QED
    BY <1>1, <2>1, <2>2 DEF Continues
<1> QED
  BY <1>2, <1>3

\* The pairs of a conversation stay as they are when it goes on.
LEMMA PairsGrow ==
  ASSUME NEW ms \in Seq(Message), NEW more \in Seq(Message)
  PROVE  /\ Pairs(Prior(ms)) \in Seq(AnyPair) /\ Pairs(Prior(ms \o more)) \in Seq(AnyPair)
         /\ Continues(Pairs(Prior(ms \o more)), Pairs(Prior(ms)))
<1> DEFINE all == ms \o more s == Prior(ms) t == Prior(all)
           k == Len(s) n == Len(t) short == Paired(s) long == Paired(t)
<1>1. all \in Seq(Message) /\ Len(all) = Len(ms) + Len(more) /\ Len(ms) \in Nat /\ Len(more) \in Nat
      /\ \A i \in 1..Len(ms) : all[i] = ms[i]
  <2>1. /\ all \in Seq(Message) /\ Len(all) = Len(ms) + Len(more)
        /\ \A i \in 1..Len(ms) + Len(more) : all[i] = IF i <= Len(ms) THEN ms[i] ELSE more[i - Len(ms)]
    BY ConcatProperties
  <2>2. Len(ms) \in Nat /\ Len(more) \in Nat
    BY LenProperties
  <2> HIDE DEF all
  <2> QED
    BY <2>1, <2>2
<1> HIDE DEF all
<1>2. /\ s \in Seq(Message) /\ Continues(ms, s)
      /\ \/ s = ms /\ (ms = <<>> \/ ms[Len(ms)].role = "assistant")
         \/ Len(ms) # 0 /\ k = Len(ms) - 1 /\ ms[Len(ms)].role = "user"
  BY PriorFacts
<1>3. /\ t \in Seq(Message) /\ Continues(all, t)
      /\ t = all \/ (Len(all) # 0 /\ n = Len(all) - 1)
  BY <1>1, PriorFacts
<1> HIDE DEF s, t
<1>4. PairedBy(short, s) /\ PairedBy(long, t)
  BY <1>2, <1>3, PairedFacts
<1>5. /\ k \in Nat /\ n \in Nat /\ short \in [0..k -> Seq(AnyPair)] /\ long \in [0..n -> Seq(AnyPair)]
      /\ \A i \in 1..n : t[i] \in Message /\ long[i] = Pair(long[i - 1], t[i])
  BY <1>4 DEF PairedBy
<1>6. Pairs(s) = short[k] /\ Pairs(t) = long[n]
  BY DEF Pairs
<1>7. short[k] \in Seq(AnyPair) /\ long[n] \in Seq(AnyPair)
  BY <1>5
<1> HIDE DEF k, n, short, long
<1>8. CASE more = <<>>
  <2>1. all = ms
    BY <1>8, ConcatEmptySeq DEF all
  <2>2. long[n] = short[k]
    BY <2>1 DEF long, short, k, n, s, t
  <2>3. Len(short[k]) \in Nat
    BY <1>7, LenProperties
  <2>4. Continues(long[n], short[k])
    BY <2>2, <2>3 DEF Continues
  <2> QED
    BY <1>6, <1>7, <2>4 DEF s, t, all
<1>9. CASE more # <<>>
  <2>1. Len(more) # 0
    BY <1>9, EmptySeq
  <2>2. k <= Len(ms) /\ \A i \in 1..k : s[i] = ms[i]
    BY <1>2 DEF Continues, k
  <2>3. n <= Len(all) /\ \A i \in 1..n : t[i] = all[i]
    BY <1>3 DEF Continues, n
  <2>4. Len(ms) <= n
    BY <1>1, <1>3, <1>5, <2>1 DEF n
  <2>5. Continues(t, s)
    <3>1. ASSUME NEW i \in 1..k PROVE t[i] = s[i]
      <4>1. i \in 1..n /\ i \in 1..Len(ms)
        BY <1>1, <1>5, <2>2, <2>4
      <4> QED
        BY <1>1, <2>2, <2>3, <4>1
    <3>2. k <= n
      BY <1>1, <1>5, <2>2, <2>4
    <3> QED
      BY <3>1, <3>2 DEF Continues, k, n
  <2>6. long[k] = short[k]
    <3>1. k \in 0..Len(s)
      BY <1>5 DEF k
    <3>2. Paired(s)[k] = Paired(t)[k]
      BY <1>2, <1>3, <2>5, <3>1, PairedSame
    <3> QED
      BY <3>2 DEF short, long
  \* From place first on, the pairs of ms are settled.
  <2>7. \E first \in 0..n : Settled(long[first], short[k])
    <3>1. CASE s = ms /\ ms = <<>>
      <4>1. k = 0
        BY <3>1, EmptySeq DEF k
      <4>2. short[k] = <<>> /\ Len(short[k]) = 0
        BY <1>4, <4>1, EmptySeq DEF PairedBy
      <4>3. Settled(long[k], short[k])
        BY <2>6, <4>2 DEF Settled, Continues
      <4>4. k \in 0..n
        BY <1>5, <4>1
      <4> QED
        BY <4>3, <4>4
    <3>2. CASE s = ms /\ ms # <<>> /\ ms[Len(ms)].role = "assistant"
      <4>1. k # 0 /\ k = Len(ms)
        BY <1>2, <3>2, EmptySeq DEF k
      <4>2. /\ short[k] = Pair(short[k - 1], s[k]) /\ s[k] \in Message
            /\ short[k - 1] \in Seq(AnyPair)
        <5>1. k \in 1..k /\ k - 1 \in 0..k
          BY <1>5, <4>1
        <5> QED
          BY <1>4, <1>5, <5>1 DEF PairedBy, k
      <4>3. s[k].role = "assistant" /\ s[k] # Nothing
        BY <3>2, <4>1, <4>2, HistoryAssumption
      <4>4. Len(short[k]) = 0 \/ short[k][Len(short[k])].answer # Nothing
        <5> DEFINE before == short[k - 1]
        <5>1. \/ Len(before) # 0 /\ Len(short[k]) = Len(before)
                 /\ short[k][Len(before)].answer = s[k]
              \/ short[k] = before /\ (Len(before) = 0 \/ before[Len(before)].answer # Nothing)
          <6> HIDE DEF before
          <6>1. before \in Seq(Message) \/ before \in Seq(AnyPair)
            BY <4>2 DEF before
          <6>2. before \in Seq(AnyPair) /\ short[k] = Pair(before, s[k])
            BY <4>2 DEF before
          <6>3. s[k].role # "user"
            BY <4>3
          <6> QED
            BY <4>2, <6>2, <6>3, PairCases
        <5> HIDE DEF before
        <5> QED
          BY <4>3, <5>1
      <4>5. Settled(long[k], short[k])
        <5>1. Len(short[k]) \in Nat
          BY <1>7, LenProperties
        <5> QED
          BY <2>6, <4>4, <5>1 DEF Settled, Continues
      <4>6. k \in 0..n
        BY <1>5, <2>4, <4>1
      <4> QED
        BY <4>5, <4>6
    <3>3. CASE Len(ms) # 0 /\ k = Len(ms) - 1 /\ ms[Len(ms)].role = "user"
      <4>1. k + 1 \in 1..n /\ k + 1 \in 1..Len(ms) /\ k + 1 = Len(ms) /\ k + 1 - 1 = k
        BY <1>1, <1>5, <2>4, <3>3
      <4>2. t[k + 1].role = "user" /\ t[k + 1] \in Message
        BY <1>1, <1>5, <2>3, <3>3, <4>1
      <4>3. long[k + 1] = Pair(short[k], t[k + 1])
        BY <1>5, <2>6, <4>1
      <4>4. /\ Len(long[k + 1]) = Len(short[k]) + 1 /\ Len(short[k]) \in Nat
            /\ \A i \in 1..Len(short[k]) : long[k + 1][i] = short[k][i]
        <5> DEFINE pairs == short[k] m == t[k + 1]
        <5> HIDE DEF pairs, m
        <5>1. pairs \in Seq(AnyPair) /\ m \in Message /\ m.role = "user" /\ m.role # "assistant"
          BY <1>7, <4>2 DEF pairs, m
        <5>2. /\ Len(Pair(pairs, m)) = Len(pairs) + 1 /\ Len(pairs) \in Nat
              /\ \A i \in 1..Len(pairs) : Pair(pairs, m)[i] = pairs[i]
          BY <5>1, PairCases
        <5> QED
          BY <4>3, <5>2 DEF pairs, m
      <4>5. Settled(long[k + 1], short[k])
        BY <4>4 DEF Settled, Continues
      <4>6. k + 1 \in 0..n
        BY <1>5, <4>1
      <4> QED
        BY <4>5, <4>6
    <3> QED
      BY <1>2, <3>1, <3>2, <3>3
  <2>8. PICK first \in 0..n : Settled(long[first], short[k])
    BY <2>7
  <2> DEFINE G == {i \in 0..n - first : Settled(long[first + i], short[k])}
  <2>9. 0 \in G
    <3>1. 0 \in 0..n - first /\ first + 0 = first
      BY <1>5
    <3> QED
      BY <2>8, <3>1
  <2>10. \A i \in 1..n - first : i - 1 \in G => i \in G
    <3> SUFFICES ASSUME NEW i \in 1..n - first, i - 1 \in G PROVE i \in G
      OBVIOUS
    <3>1. first + i \in 1..n /\ first + i - 1 = first + (i - 1) /\ first + i - 1 \in 0..n /\ i \in 0..n - first
      BY <1>5
    <3>2. Settled(long[first + i - 1], short[k])
      BY <3>1
    <3>3. long[first + i] = Pair(long[first + i - 1], t[first + i]) /\ t[first + i] \in Message
          /\ long[first + i - 1] \in Seq(AnyPair)
      BY <1>5, <3>1
    <3>4. Settled(long[first + i], short[k])
      BY <1>7, <3>2, <3>3, StaySettled
    <3> QED
      BY <3>1, <3>4
  <2>11. Settled(long[n], short[k])
    <3> HIDE DEF G
    <3>1. n - first \in Nat
      BY <1>5
    <3>2. \A i \in 0..n - first : i \in G
      BY <2>9, <2>10, <3>1, Upwards
    <3>3. n - first \in G /\ first + (n - first) = n
      BY <1>5, <3>1, <3>2
    <3> QED
      BY <3>3 DEF G
  <2> QED
    BY <1>6, <1>7, <2>11 DEF Settled, s, t, all
<1> QED
  BY <1>8, <1>9

\* Of m places s and t have the same, and the same of those are picked.
SamePlaces(s, m, P, t, n, Q) ==
  /\ m \in Nat /\ n \in Nat /\ m <= n /\ \A i \in 1..m : s[i] = t[i]
  /\ P \in SUBSET (1..m) /\ Q \in SUBSET (1..n) /\ P = Q \cap (1..m)

\* Picking from a sequence and from one that goes on from it.
LEMMA PickedGrows ==
  ASSUME NEW s, NEW m, NEW P, NEW t, NEW n, NEW Q, SamePlaces(s, m, P, t, n, Q)
  PROVE  /\ Cardinality(P) \in Nat /\ Cardinality(Q) \in Nat /\ Cardinality(P) <= Cardinality(Q)
         /\ \A i \in 1..Cardinality(P) : Picked(s, P)[i] = Picked(t, Q)[i]
<1> DEFINE RP == {p \in P \X P : p[1] < p[2]} RQ == {p \in Q \X Q : p[1] < p[2]}
           M == Cardinality(P) N == Cardinality(Q)
           x(i) == CHOOSE z \in P : Cardinality({u \in P : <<u, z>> \in RP}) = i - 1
           y(i) == CHOOSE z \in Q : Cardinality({u \in Q : <<u, z>> \in RQ}) = i - 1
<1>0. /\ m \in Nat /\ n \in Nat /\ m <= n /\ \A i \in 1..m : s[i] = t[i]
      /\ P \in SUBSET (1..m) /\ Q \in SUBSET (1..n) /\ P = Q \cap (1..m)
  BY DEF SamePlaces
<1> USE <1>0
<1>1. IsFiniteSet(1..n)
  BY FS_Interval
<1>2. IsFiniteSet(P) /\ IsFiniteSet(Q) /\ M \in Nat /\ N \in Nat /\ M <= N
  <2>1. IsFiniteSet(Q) /\ P \subseteq Q
    BY <1>1, FS_Subset
  <2> QED
    BY <2>1, FS_Subset, FS_CardinalityType
<1>3. (\A i, j \in P : <<i, j>> \in RP <=> i < j) /\ (\A i, j \in Q : <<i, j>> \in RQ <=> i < j)
  OBVIOUS
<1>4. P \subseteq Nat /\ Q \subseteq Nat
  OBVIOUS
<1> HIDE DEF RP, RQ
<1>5. StrictOrder(RP, P) /\ StrictOrder(RQ, Q)
  BY <1>3, <1>4 DEF StrictOrder
<1>6. \A i \in P : i \in Q /\ Ahead(RP, P, i) = Ahead(RQ, Q, i)
  <2> SUFFICES ASSUME NEW i \in P PROVE i \in Q /\ Ahead(RP, P, i) = Ahead(RQ, Q, i)
    OBVIOUS
  <2>1. i \in Q
    OBVIOUS
  <2>2. \A j \in Q : j < i => j \in P
    OBVIOUS
  <2>3. \A j : j \in P /\ <<j, i>> \in RP <=> j \in Q /\ <<j, i>> \in RQ
    BY <1>3, <2>1, <2>2
  <2> QED
    BY <2>1, <2>3 DEF Ahead
<1>7. ASSUME NEW i \in 1..M PROVE x(i) \in P /\ x(i) = y(i)
  <2>1. \E z \in P : Cardinality(Ahead(RP, P, z)) = i - 1
    BY <1>2, <1>5, EachPlaceTaken
  <2>2. x(i) \in P /\ Cardinality(Ahead(RP, P, x(i))) = i - 1
    BY <2>1 DEF Ahead
  <2>3. x(i) \in Q /\ Cardinality(Ahead(RQ, Q, x(i))) = i - 1
    BY <1>6, <2>2
  <2>4. y(i) \in Q /\ Cardinality(Ahead(RQ, Q, y(i))) = i - 1
    BY <2>3 DEF Ahead
  <2> HIDE DEF x, y
  <2>5. \A u, v \in Q : <<u, v>> \in RQ => Cardinality(Ahead(RQ, Q, u)) # Cardinality(Ahead(RQ, Q, v))
    BY <1>2, <1>5, FewerAhead
  <2> QED
    BY <1>5, <2>2, <2>3, <2>4, <2>5 DEF StrictOrder
<1>8. \A i \in 1..M : Picked(s, P)[i] = s[x(i)]
  BY DEF Picked, Sorted, RP
<1>9. \A i \in 1..N : Picked(t, Q)[i] = t[y(i)]
  BY DEF Picked, Sorted, RQ
<1> HIDE DEF x, y
<1>10. ASSUME NEW i \in 1..M PROVE Picked(s, P)[i] = Picked(t, Q)[i]
  <2>1. i \in 1..N
    BY <1>2
  <2>2. s[x(i)] = t[x(i)]
    BY <1>7
  <2> QED
    BY <1>7, <1>8, <1>9, <2>1, <2>2
<1> QED
  BY <1>2, <1>10

\* A turn keeps its number, what it says, and whether it is refused.
LEMMA TurnFacts ==
  ASSUME NEW pair \in AnyPair, NEW i \in Nat \ {0}
  PROVE  /\ TurnOf(pair, i) \in AnyTurn /\ TurnOf(pair, i).index = i - 1
         /\ TurnOf(pair, i).blocked = pair.question.blocked
<1>1. pair.question \in Message /\ (pair.answer = Nothing \/ pair.answer \in Message)
  BY DEF AnyPair
<1>2. /\ pair.question.size \in Nat /\ pair.question.blocked \in BOOLEAN
      /\ pair.answer # Nothing => pair.answer.size \in Nat
  BY <1>1 DEF Message
<1> QED
  BY <1>2 DEF TurnOf, AnyTurn

\* The turns before a question have rising numbers, and none is refused.
LEMMA TurnsFacts ==
  ASSUME NEW ms \in Seq(Message), Pairs(Prior(ms)) \in Seq(AnyPair)
  PROVE  LET turns == PriorTurns(ms, TRUE)
         IN  /\ turns \in Seq(AnyTurn) /\ Rising(turns)
             /\ \A i \in 1..Len(turns) : ~turns[i].blocked
<1> DEFINE pairs == Pairs(Prior(ms)) n == Len(pairs)
           all == [i \in DOMAIN pairs |-> TurnOf(pairs[i], i)]
           P == {i \in DOMAIN pairs : ~(TRUE /\ pairs[i].question.blocked)}
           turns == PriorTurns(ms, TRUE)
<1>1. turns = Picked(all, P)
  BY DEF PriorTurns
<1> HIDE DEF turns
<1>2. n \in Nat /\ DOMAIN pairs = 1..n /\ \A i \in 1..n : pairs[i] \in AnyPair
  BY LenProperties, ElementOfSeq
<1> HIDE DEF pairs, n
<1>3. \A i \in 1..n : all[i] \in AnyTurn /\ all[i].index = i - 1 /\ all[i].blocked = pairs[i].question.blocked
  <2>1. \A i \in 1..n : all[i] = TurnOf(pairs[i], i) /\ i \in Nat \ {0}
    BY <1>2
  <2> HIDE DEF all
  <2> QED
    BY <1>2, <2>1, TurnFacts
<1>4. P \in SUBSET (1..n) /\ \A i \in P : ~pairs[i].question.blocked
  BY <1>2
<1> HIDE DEF all, P
<1>5. IsPicked(turns, all, P)
  BY <1>1, <1>2, <1>4, PickedFacts
<1> DEFINE N == Cardinality(P)
<1>6. PICK at \in [1..N -> P] : /\ \A i \in 1..N : turns[i] = all[at[i]]
                                /\ \A i, j \in 1..N : i < j <=> at[i] < at[j]
  BY <1>5 DEF IsPicked
<1>7. N \in Nat /\ turns = [i \in 1..N |-> turns[i]]
  BY <1>5 DEF IsPicked
<1> HIDE DEF N
<1>8. ASSUME NEW i \in 1..N
      PROVE  /\ at[i] \in 1..n /\ turns[i] \in AnyTurn /\ turns[i].index = at[i] - 1
             /\ ~turns[i].blocked
  <2>1. at[i] \in P /\ at[i] \in 1..n
    BY <1>4, <1>6
  <2>2. turns[i] = all[at[i]]
    BY <1>6
  <2>3. ~pairs[at[i]].question.blocked
    BY <1>4, <2>1
  <2> QED
    BY <1>3, <2>1, <2>2, <2>3
<1>9. turns \in Seq(AnyTurn) /\ Len(turns) = N
  <2>1. turns \in [1..N -> AnyTurn]
    BY <1>7, <1>8
  <2> QED
    BY <1>7, <2>1, FunctionIsSeq
<1>10. Rising(turns)
  <2> SUFFICES ASSUME NEW i \in 1..N, NEW j \in 1..N, i < j PROVE turns[i].index < turns[j].index
    BY <1>9 DEF Rising
  <2>1. at[i] < at[j] /\ at[i] \in 1..n /\ at[j] \in 1..n
    BY <1>6, <1>8
  <2>2. turns[i].index = at[i] - 1 /\ turns[j].index = at[j] - 1
    BY <1>8
  <2> QED
    BY <1>2, <2>1, <2>2
<1> QED
  BY <1>8, <1>9, <1>10 DEF turns

\* A conversation that goes on has the turns it had.
LEMMA TurnsContinue ==
  ASSUME NEW ms \in Seq(Message), NEW more \in Seq(Message)
  PROVE  Continues(PriorTurns(ms \o more, TRUE), PriorTurns(ms, TRUE))
<1> DEFINE s == Pairs(Prior(ms)) t == Pairs(Prior(ms \o more)) m == Len(s) n == Len(t)
           allS == [i \in DOMAIN s |-> TurnOf(s[i], i)]
           allT == [i \in DOMAIN t |-> TurnOf(t[i], i)]
           P == {i \in DOMAIN s : ~(TRUE /\ s[i].question.blocked)}
           Q == {i \in DOMAIN t : ~(TRUE /\ t[i].question.blocked)}
           turns == PriorTurns(ms, TRUE) later == PriorTurns(ms \o more, TRUE)
<1>1. turns = Picked(allS, P) /\ later = Picked(allT, Q)
  BY DEF PriorTurns
<1> HIDE DEF turns, later
<1>2. s \in Seq(AnyPair) /\ t \in Seq(AnyPair) /\ Continues(t, s)
  BY PairsGrow
<1>3. m \in Nat /\ n \in Nat /\ DOMAIN s = 1..m /\ DOMAIN t = 1..n /\ m <= n
  BY <1>2, LenProperties DEF Continues
<1>4. \A i \in 1..m : s[i] = t[i] /\ i \in 1..n
  BY <1>2, <1>3 DEF Continues
<1> HIDE DEF s, t, m, n
<1>5. \A i \in 1..m : allS[i] = allT[i]
  BY <1>3, <1>4
<1>6. P \in SUBSET (1..m) /\ Q \in SUBSET (1..n) /\ P = Q \cap (1..m)
  BY <1>3, <1>4
<1> HIDE DEF P, Q, allS, allT
<1>7. /\ Cardinality(P) \in Nat /\ Cardinality(Q) \in Nat /\ Cardinality(P) <= Cardinality(Q)
      /\ \A i \in 1..Cardinality(P) : Picked(allS, P)[i] = Picked(allT, Q)[i]
  <2>1. SamePlaces(allS, m, P, allT, n, Q)
    BY <1>3, <1>5, <1>6 DEF SamePlaces
  <2> HIDE DEF m, n
  <2> QED
    BY <2>1, PickedGrows
<1>8. IsPicked(turns, allS, P) /\ IsPicked(later, allT, Q)
  <2>1. IsPicked(Picked(allS, P), allS, P)
    BY <1>3, <1>6, PickedFacts
  <2>2. IsPicked(Picked(allT, Q), allT, Q)
    BY <1>3, <1>6, PickedFacts
  <2> QED
    BY <1>1, <2>1, <2>2
<1>9. Len(turns) = Cardinality(P)
  <2> DEFINE D == {turns[i] : i \in 1..Cardinality(P)}
  <2>1. turns = [i \in 1..Cardinality(P) |-> turns[i]]
    BY <1>8 DEF IsPicked
  <2>2. turns \in [1..Cardinality(P) -> D]
    BY <2>1
  <2> HIDE DEF D
  <2> QED
    BY <1>7, <2>2, FunctionIsSeq
<1>10. Len(later) = Cardinality(Q)
  <2> DEFINE D == {later[i] : i \in 1..Cardinality(Q)}
  <2>1. later = [i \in 1..Cardinality(Q) |-> later[i]]
    BY <1>8 DEF IsPicked
  <2>2. later \in [1..Cardinality(Q) -> D]
    BY <2>1
  <2> HIDE DEF D
  <2> QED
    BY <1>7, <2>2, FunctionIsSeq
<1> QED
  BY <1>1, <1>7, <1>9, <1>10 DEF Continues, turns, later

\* What Advances asks of the windows of a conversation and of one that goes on
\* from it, but for turns there are none of.
LEMMA WindowsAdvance ==
  ASSUME NEW turns \in Seq(AnyTurn), NEW later \in Seq(AnyTurn), turns # <<>>,
         Continues(later, turns), Rising(later), \A i \in 1..Len(turns) : ~turns[i].blocked,
         case.budget \in Budgets
  PROVE  Advances(turns, CapTurns(turns, case.budget), later, CapTurns(later, case.budget))
<1> DEFINE b == case.budget M == Len(turns) N == Len(later)
           window == CapTurns(turns, b) next == CapTurns(later, b)
           f == From(turns, b) g == From(later, b)
<1>0. b \in Budgets /\ b.step \in Nat \ {0}
  BY DEF Budgets
<1>1. M \in Nat /\ N \in Nat /\ M # 0 /\ M <= N /\ later # <<>> /\ \A i \in 1..M : later[i] = turns[i]
  BY Numbered, EmptySeq DEF Continues
<1>2. Rising(turns)
  BY <1>1 DEF Rising
<1>3. f \in 1..M + 1 /\ g \in 1..N + 1 /\ f <= g
  BY <1>0, FromGrows
<1> HIDE DEF b
<1>4. PICK p \in 1..M : WindowFrom(window, turns, p) /\ Opens(p, turns, f, b.step)
  BY <1>0, <1>2, CapTurnsFacts
<1>5. TotalTokens(window) <= b.budget \/ Len(window) = 1
  BY <1>0, <1>2, CapTurnsFacts
<1>6. PICK q \in 1..N : WindowFrom(next, later, q) /\ Opens(q, later, g, b.step)
  BY <1>0, <1>1, CapTurnsFacts
<1> HIDE DEF window, next, f, g
<1>7. later[p].index <= later[q].index
  BY <1>0, <1>3, <1>4, <1>6, OpensLater
<1>8. \/ \A i \in 1..N : later[i].index < later[q].index =>
             later[i].index \div b.step < later[q].index \div b.step
      \/ later[N].index \div b.step = later[q].index \div b.step
  BY <1>0, <1>3, <1>6, OpensBlock
<1>9. /\ window \in Seq(AnyTurn) /\ Len(window) = M - p + 1
      /\ \A i \in 1..Len(window) : SameTurn(window[i], turns[p + i - 1])
  BY <1>4 DEF WindowFrom
<1>10. /\ next \in Seq(AnyTurn) /\ Len(next) = N - q + 1
       /\ \A i \in 1..Len(next) : SameTurn(next[i], later[q + i - 1])
  BY <1>6 DEF WindowFrom
<1> HIDE DEF M, N
<1>11. /\ window # <<>> /\ Head(window) = window[1] /\ Last(window) = window[Len(window)]
       /\ 1 \in 1..Len(window) /\ Len(window) \in 1..Len(window)
  <2>1. Len(window) \in Nat \ {0}
    BY <1>1, <1>9
  <2>2. window # <<>>
    BY <1>9, <2>1, EmptySeq
  <2> QED
    BY <1>9, <2>1, <2>2, HeadTailProperties DEF Last
<1>12. /\ next # <<>> /\ Head(next) = next[1] /\ Last(next) = next[Len(next)]
       /\ 1 \in 1..Len(next) /\ Len(next) \in 1..Len(next)
  <2>1. Len(next) \in Nat \ {0}
    BY <1>1, <1>10
  <2>2. next # <<>>
    BY <1>10, <2>1, EmptySeq
  <2> QED
    BY <1>10, <2>1, <2>2, HeadTailProperties DEF Last
<1>13. Head(window).index = later[p].index /\ Last(window).index = turns[M].index
  <2>1. p + 1 - 1 = p /\ p + Len(window) - 1 = M
    BY <1>1, <1>9
  <2>2. SameTurn(window[1], turns[p]) /\ SameTurn(window[Len(window)], turns[M])
    BY <1>9, <1>11, <2>1
  <2> QED
    BY <1>1, <1>11, <2>2 DEF SameTurn, M
<1>14. Head(next).index = later[q].index /\ Last(next).index = later[N].index
  <2>1. q + 1 - 1 = q /\ q + Len(next) - 1 = N
    BY <1>1, <1>10
  <2>2. SameTurn(next[1], later[q]) /\ SameTurn(next[Len(next)], later[N])
    BY <1>10, <1>12, <2>1
  <2> QED
    BY <1>12, <2>2 DEF SameTurn
<1>15. \A t \in ToSet(window) : ~t.blocked
  <2> SUFFICES ASSUME NEW i \in 1..Len(window) PROVE ~window[i].blocked
    BY <1>9, LenProperties DEF ToSet
  <2>1. p + i - 1 \in 1..M
    BY <1>1, <1>9
  <2>2. window[i].blocked = turns[p + i - 1].blocked
    BY <1>9 DEF SameTurn
  <2> QED
    BY <2>1, <2>2 DEF M
<1>16. Last(turns).index = turns[M].index
  BY DEF Last, M
<1>17. \/ \A t \in ToSet(later) : t.index < Head(next).index =>
              t.index \div b.step < Head(next).index \div b.step
       \/ Last(next).index \div b.step = Head(next).index \div b.step
  <2>1. CASE \A i \in 1..N : later[i].index < later[q].index =>
               later[i].index \div b.step < later[q].index \div b.step
    <3>1. \A t \in ToSet(later) : \E i \in 1..N : t = later[i]
      BY LenProperties DEF ToSet, N
    <3> QED
      BY <1>14, <2>1, <3>1
  <2>2. CASE later[N].index \div b.step = later[q].index \div b.step
    BY <1>14, <2>2
  <2> QED
    BY <1>8, <2>1, <2>2
<1>18. Head(next).index >= Head(window).index
  <2>1. later[p].index \in Nat /\ later[q].index \in Nat
    BY <1>1, Numbered DEF N
  <2> QED
    BY <1>7, <1>13, <1>14, <2>1
<1> QED
  BY <1>5, <1>11, <1>13, <1>15, <1>16, <1>17, <1>18 DEF Advances, b, window, next

\* A conversation of any messages, what is added to it, and any budget.
AnyHistory(c) == c.messages \in Seq(Message) /\ c.more \in Seq(Message) /\ c.budget \in Budgets

\* No turns before the question, and no window.
LEMMA NoWindow ==
  ASSUME NEW later, NEW next, case.budget \in Budgets
  PROVE  Advances(<<>>, CapTurns(<<>>, case.budget), later, next)
<1>1. CapTurns(<<>>, case.budget) = <<>>
  BY DEF CapTurns
<1>2. <<>> \in Seq(AnyTurn) /\ Len(<<>>) = 0
  OBVIOUS
<1>3. TotalTokens(<<>>) = 0
  BY <1>2, CostFacts DEF Priced, TotalTokens
<1>4. ToSet(<<>>) = {}
  BY DEF ToSet
<1>5. case.budget.budget \in Nat
  BY DEF Budgets
<1> QED
  BY <1>1, <1>3, <1>4, <1>5 DEF Advances

\* WindowAdvances, of any conversation.
LEMMA HistoryAdvances == ASSUME AnyHistory(case) PROVE WindowAdvances
<1> DEFINE ms == case.messages more == case.more
           turns == PriorTurns(ms, TRUE) later == PriorTurns(ms \o more, TRUE)
<1>1. ms \in Seq(Message) /\ more \in Seq(Message) /\ case.budget \in Budgets
  BY DEF AnyHistory
<1>2. ms \o more \in Seq(Message)
  BY <1>1, ConcatProperties
<1> HIDE DEF ms, more
<1>3. Pairs(Prior(ms)) \in Seq(AnyPair) /\ Pairs(Prior(ms \o more)) \in Seq(AnyPair)
  BY <1>1, PairsGrow
<1>4. turns \in Seq(AnyTurn) /\ \A i \in 1..Len(turns) : ~turns[i].blocked
  BY <1>1, <1>3, TurnsFacts
<1>5. later \in Seq(AnyTurn) /\ Rising(later)
  BY <1>2, <1>3, TurnsFacts
<1>6. Continues(later, turns)
  BY <1>1, TurnsContinue
<1> HIDE DEF turns, later
<1>7. Advances(turns, CapTurns(turns, case.budget), later, CapTurns(later, case.budget))
  <2>1. CASE turns = <<>>
    BY <1>1, <2>1, NoWindow
  <2>2. CASE turns # <<>>
    BY <1>1, <1>4, <1>5, <1>6, <2>2, WindowsAdvance
  <2> QED
    BY <2>1, <2>2
<1> QED
  BY <1>7 DEF WindowAdvances, turns, later, ms, more

\* Whatever the run converses is of that kind.
LEMMA HistoriesTaken == Spec => [](case.kind = "history" => AnyHistory(case))
<1> DEFINE Ofkind == case.kind = "history" => AnyHistory(case)
<1>1. Init => Ofkind
  BY DEF Init
<1>2. Ofkind /\ [Next]_case => Ofkind'
  <2> SUFFICES ASSUME Ofkind, [Next]_case PROVE Ofkind'
    OBVIOUS
  <2>1. CASE Next /\ case'.kind = "history"
    <3> DEFINE Added == {<<>>} \cup {<<[role |-> "user", size |-> 1, blocked |-> FALSE],
                               [role |-> "assistant", size |-> n, blocked |-> FALSE]>> : n \in {1, 3}}
    <3>1. PICK ms \in SeqOf(Messages, 4), b \in [budget : {3, 6}, maxAnswer : {0, 2}, step : {1, 2}],
               more \in Added :
            case' = [kind |-> "history", messages |-> ms, more |-> more, budget |-> b]
      BY <2>1, TakenByKind DEF TakeHistory
    <3>2. ms \in Seq(Message)
      <4>1. PICK m \in 0..4 : ms \in [1..m -> Messages]
        BY DEF SeqOf
      <4>2. m \in Nat /\ Messages \subseteq Message
        <5> DEFINE Roles == {"user", "assistant"}
        <5>1. {0, 1, 3} \subseteq Nat /\ {1} \subseteq Nat /\ {"user"} \subseteq Roles
              /\ {FALSE} \subseteq BOOLEAN /\ {TRUE} \subseteq BOOLEAN
          OBVIOUS
        <5> HIDE DEF Roles
        <5>2. [role : Roles, size : {0, 1, 3}, blocked : {FALSE}]
                 \subseteq [role : Roles, size : Nat, blocked : BOOLEAN]
          BY <5>1, Zenon
        <5>3. [role : {"user"}, size : {1}, blocked : {TRUE}]
                 \subseteq [role : Roles, size : Nat, blocked : BOOLEAN]
          BY <5>1, Zenon
        <5>4. [role : {"user", "assistant"}, size : {0, 1, 3}, blocked : {FALSE}] \subseteq Message
          BY <5>2 DEF Message, Roles
        <5>5. [role : {"user"}, size : {1}, blocked : {TRUE}] \subseteq Message
          BY <5>3 DEF Message, Roles
        <5>6. m \in Nat
          OBVIOUS
        <5> QED
          BY ONLY <5>4, <5>5, <5>6 DEF Messages
      <4>3. ms \in [1..m -> Message]
        BY <4>1, <4>2
      <4> QED
        BY <4>2, <4>3, FunctionIsSeq
    <3>3. more \in Seq(Message)
      <4>1. CASE more = <<>>
        BY <4>1
      <4>2. ASSUME NEW n \in {1, 3},
                   more = <<[role |-> "user", size |-> 1, blocked |-> FALSE],
                            [role |-> "assistant", size |-> n, blocked |-> FALSE]>>
            PROVE  more \in Seq(Message)
        <5>1. [role |-> "user", size |-> 1, blocked |-> FALSE] \in Message
          BY DEF Message
        <5>2. [role |-> "assistant", size |-> n, blocked |-> FALSE] \in Message
          BY DEF Message
        <5> QED
          BY <4>2, <5>1, <5>2
      <4> QED
        BY <4>1, <4>2
    <3>4. b \in Budgets
      BY DEF Budgets
    <3>5. case'.messages = ms /\ case'.more = more /\ case'.budget = b
      BY <3>1
    <3> QED
      BY <3>2, <3>3, <3>4, <3>5 DEF AnyHistory
  <2>2. CASE UNCHANGED case
    BY <2>2 DEF AnyHistory
  <2> QED
    BY <2>1, <2>2
<1> QED
  BY <1>1, <1>2, PTL DEF Spec

\* Whatever a conversation holds and whatever the budget is, the window over it
\* keeps to the budget, holds nothing refused, ends with the last turn and moves
\* on only by whole blocks, and so it does for all inputs of the run (turns.py).
THEOREM AnyWindowAdvances ==
  /\ AnyHistory(case) => WindowAdvances
  /\ Spec => []WindowAdvances
<1>1. AnyHistory(case) => WindowAdvances
  BY HistoryAdvances
<1>2. (case.kind = "history" => AnyHistory(case)) => WindowAdvances
  BY HistoryAdvances DEF WindowAdvances
<1> QED
  BY <1>1, <1>2, HistoriesTaken, PTL
-----------------------------------------------------------------------------
(* Descriptions, summaries and vectors.                                   *)

\* What is picked from a sequence is a sequence.
LEMMA PickedSeq ==
  ASSUME NEW D, NEW s \in Seq(D), NEW P \in SUBSET DOMAIN s
  PROVE  Picked(s, P) \in Seq(D)
<1> DEFINE picked == Picked(s, P) N == Cardinality(P)
<1>1. Len(s) \in Nat /\ DOMAIN s = 1..Len(s) /\ \A i \in 1..Len(s) : s[i] \in D
  BY LenProperties, ElementOfSeq
<1>2. IsPicked(picked, s, P)
  BY <1>1, PickedFacts
<1> HIDE DEF picked
<1>3. N \in Nat /\ picked = [n \in 1..N |-> picked[n]]
  BY <1>2 DEF IsPicked
<1>4. \A n \in 1..N : picked[n] \in D
  BY <1>1, <1>2 DEF IsPicked
<1>5. picked \in [1..N -> D]
  BY <1>3, <1>4
<1>6. picked \in Seq(D)
  BY <1>3, <1>5, FunctionIsSeq
<1> QED
  BY <1>6 DEF picked

\* A batch ends where the next begins, or at the end.
BatchEnd(s, size, b) == IF b * size < Len(s) THEN b * size ELSE Len(s)
Ceiling(n, size) == (n + size - 1) \div size

\* Batches are sequences, each a part of what there is.
LEMMA BatchFacts ==
  ASSUME NEW D, NEW s \in Seq(D), NEW size \in Nat \ {0}
  PROVE  LET k == Ceiling(Len(s), size)
         IN  /\ k \in Nat /\ DOMAIN Batches(s, size) = 1..k
             /\ k = 0 => Len(s) = 0
             /\ k > 0 => BatchEnd(s, size, k) = Len(s)
             /\ \A b \in 1..k :
                  /\ (b - 1) * size \in Nat /\ BatchEnd(s, size, b) \in Nat
                  /\ (b - 1) * size < BatchEnd(s, size, b) /\ BatchEnd(s, size, b) <= Len(s)
                  /\ Batches(s, size)[b] = SubSeq(s, (b - 1) * size + 1, BatchEnd(s, size, b))
                  /\ Batches(s, size)[b] \in Seq(D)
<1> DEFINE n == Len(s) k == Ceiling(n, size)
<1>1. n \in Nat /\ \A i \in 1..n : s[i] \in D
  BY LenProperties, ElementOfSeq
<1>2. k \in Nat /\ k * size <= n + size - 1 /\ n + size - 1 < k * size + size
  <2> HIDE DEF n
  <2> QED
    BY <1>1 DEF Ceiling
<1>3. DOMAIN Batches(s, size) = 1..k
  BY DEF Batches, Ceiling
<1>4. ASSUME NEW b \in 1..k
      PROVE  /\ (b - 1) * size \in Nat /\ BatchEnd(s, size, b) \in Nat
             /\ (b - 1) * size < BatchEnd(s, size, b) /\ BatchEnd(s, size, b) <= n
             /\ Batches(s, size)[b] = SubSeq(s, (b - 1) * size + 1, BatchEnd(s, size, b))
             /\ Batches(s, size)[b] \in Seq(D)
  <2> DEFINE a == (b - 1) * size e == BatchEnd(s, size, b)
  <2>1. a \in Nat /\ b * size = a + size
    <3>1. b \in Nat /\ b - 1 \in Nat
      BY <1>2
    <3> QED
      BY <3>1
  <2>2. b * size <= k * size
    <3> HIDE DEF k
    <3>1. b \in Nat /\ k \in Nat /\ b <= k
      BY <1>2
    <3>2. (k - b) * size >= 0
      BY <3>1
    <3> QED
      BY <3>1, <3>2
  <2> HIDE DEF n, k, a
  <2>3. a <= n - 1
    BY <1>1, <1>2, <2>1, <2>2
  <2>4. e \in Nat /\ a < e /\ e <= n
    BY <1>1, <2>1, <2>3 DEF BatchEnd, n
  <2>5. Batches(s, size)[b] = SubSeq(s, a + 1, e)
    BY <1>3 DEF Batches, BatchEnd, a, n, k, Ceiling
  <2> HIDE DEF e
  <2>6. a + 1 \in Int /\ e \in Int /\ \A i \in a + 1..e : s[i] \in D
    BY <1>1, <2>1, <2>4
  <2>7. SubSeq(s, a + 1, e) \in Seq(D)
    BY <2>6, SubSeqProperties
  <2> QED
    BY <2>1, <2>4, <2>5, <2>7 DEF a, e
<1>5. (k = 0 => n = 0) /\ BatchEnd(s, size, k) = n
  <2> HIDE DEF n, k
  <2>1. k * size \in Nat /\ (k = 0 => k * size = 0)
    BY <1>2
  <2> QED
    BY <1>1, <1>2, <2>1 DEF BatchEnd, n
<1> QED
  BY <1>2, <1>3, <1>4, <1>5

\* What flattening does, sequence by sequence.
Flattened(flat, ss, D) ==
  /\ Len(ss) \in Nat /\ flat \in [1..Len(ss) -> Seq(D)]
  /\ Len(ss) > 0 => flat[1] = ss[1] /\ FlattenSeq(ss) = flat[Len(ss)]
  /\ \A i \in 2..Len(ss) : flat[i] = flat[i - 1] \o ss[i]

\* Sequences can be flattened.
LEMMA FlattenFacts ==
  ASSUME NEW D, NEW ss \in Seq(Seq(D))
  PROVE  /\ Len(ss) = 0 => FlattenSeq(ss) = <<>>
         /\ \E flat : Flattened(flat, ss, D)
<1> DEFINE n == Len(ss)
<1>1. n \in Nat /\ ss \in [1..n -> Seq(D)]
  BY LenProperties
<1>2. n = 0 => ss = <<>>
  BY EmptySeq
<1>3. CASE n = 0
  <2>1. FlattenSeq(ss) = <<>>
    BY <1>2, <1>3 DEF FlattenSeq
  <2>2. \A i \in 2..n : ss[i] = ss[i - 1] \o ss[i]
    BY <1>3
  <2>3. Flattened(ss, ss, D)
    BY <1>1, <1>3, <2>2 DEF Flattened
  <2> QED
    BY <2>1, <2>3
<1>4. CASE n # 0
  <2> DEFINE m == n - 1 first == ss[1]
             F == [x \in Seq(D) \X (1..m) |-> x[1] \o ss[x[2] + 1]]
             Equal(f) == f = [i \in 1..n |-> IF i = 1 THEN ss[i] ELSE f[i - 1] \o ss[i]]
             flat == CHOOSE f : Equal(f)
  <2>1. FlattenSeq(ss) = flat[n]
    BY <1>4 DEF FlattenSeq
  <2>2. m \in Nat /\ first \in Seq(D) /\ 1 \in 1..n /\ \A i \in 1..m : ss[i + 1] \in Seq(D)
    BY <1>1, <1>4
  <2>3. F \in [Seq(D) \X (1..m) -> Seq(D)]
        /\ \A x \in Seq(D), i \in 1..m : F[<<x, i>>] = x \o ss[i + 1]
    <3>1. \A x, y \in Seq(D) : x \o y \in Seq(D)
      BY ConcatProperties
    <3> QED
      BY <2>2, <3>1
  <2> HIDE DEF F, n
  <2>4. PICK g : Chained(g, Seq(D), first, m, F)
    <3> HIDE DEF m, first
    <3> QED
      BY <2>2, <2>3, Chain
  <2>5. g \in [0..m -> Seq(D)] /\ g[0] = first /\ \A i \in 1..m : g[i] = F[<<g[i - 1], i>>]
    BY <2>4 DEF Chained
  <2> DEFINE h == [i \in 1..n |-> g[i - 1]]
  <2>6. h \in [1..n -> Seq(D)] /\ h[1] = ss[1] /\ \A i \in 1..n : h[i] = g[i - 1]
    <3>1. \A i \in 1..n : i - 1 \in 0..m
      BY <1>1
    <3> QED
      BY <2>2, <2>5, <3>1
  <2>7. ASSUME NEW i \in 2..n PROVE h[i] = h[i - 1] \o ss[i]
    <3>1. i - 1 \in 1..m /\ i \in 1..n /\ i - 1 \in 1..n /\ i - 1 + 1 = i /\ g[i - 1 - 1] \in Seq(D)
      BY <1>1, <2>5
    <3>2. g[i - 1] = g[i - 1 - 1] \o ss[i]
      BY <2>3, <2>5, <3>1
    <3> QED
      BY <2>6, <3>1, <3>2
  <2>8. Equal(h)
    <3>1. h = [i \in 1..n |-> h[i]]
      OBVIOUS
    <3> HIDE DEF h
    <3>2. \A i \in 1..n : h[i] = IF i = 1 THEN ss[i] ELSE h[i - 1] \o ss[i]
      <4>1. \A i \in 1..n : i = 1 \/ i \in 2..n
        BY <1>1
      <4> HIDE DEF m
      <4> QED
        BY <2>6, <2>7, <4>1
    <3> QED
      BY <3>1, <3>2
  <2> HIDE DEF h
  <2>9. Equal(flat)
    BY <2>8
  <2> HIDE DEF flat
  <2>10. flat[1] = ss[1] /\ \A i \in 2..n : flat[i] = flat[i - 1] \o ss[i]
    <3>1. \A i \in 2..n : i \in 1..n /\ i # 1
      BY <1>1
    <3> QED
      BY <2>2, <2>9, <3>1
  <2>11. flat = [i \in 1..n |-> flat[i]]
    BY <2>9
  <2> DEFINE G == {j \in 0..m : flat[j + 1] \in Seq(D)}
  <2>12. 0 \in G
    BY <2>2, <2>10
  <2>13. \A j \in 1..m : j - 1 \in G => j \in G
    <3>1. ASSUME NEW i \in 2..n, flat[i - 1] \in Seq(D) PROVE flat[i] \in Seq(D)
      <4>1. flat[i] = flat[i - 1] \o ss[i]
        BY <2>10
      <4>2. i \in 1..n
        BY <1>1
      <4>3. ss[i] \in Seq(D)
        BY <1>1, <4>2 DEF n
      <4> HIDE DEF G, m
      <4> QED
        BY <3>1, <4>1, <4>3, ConcatProperties
    <3> SUFFICES ASSUME NEW j \in 1..m, j - 1 \in G PROVE j \in G
      OBVIOUS
    <3>2. j + 1 \in 2..n /\ j - 1 + 1 = j /\ j + 1 - 1 = j /\ j \in 0..m
      BY <1>1
    <3>3. flat[j + 1 - 1] \in Seq(D)
      BY <3>2
    <3>4. flat[j + 1] \in Seq(D)
      BY <3>1, <3>2, <3>3
    <3> QED
      BY <3>2, <3>4
  <2>14. flat \in [1..n -> Seq(D)]
    <3>1. \A j \in 0..m : j \in G
      <4> HIDE DEF G, m
      <4> QED
        BY <2>2, <2>12, <2>13, Upwards
    <3>2. \A i \in 1..n : i - 1 \in 0..m /\ i - 1 + 1 = i
      BY <1>1
    <3>3. \A i \in 1..n : flat[i] \in Seq(D)
      BY <3>1, <3>2
    <3> QED
      BY <2>11, <3>3
  <2>15. Flattened(flat, ss, D)
    BY <1>1, <2>1, <2>10, <2>14 DEF Flattened, n
  <2> QED
    BY <1>4, <2>15 DEF n
<1> QED
  BY <1>3, <1>4

\* The batches, one after the other, are what was cut into them.
LEMMA EmbeddedWhole ==
  ASSUME NEW D, NEW chunks \in Seq(D), NEW size \in Nat \ {0}
  PROVE  EmbedChunks(chunks, size, {}) = chunks
<1> DEFINE n == Len(chunks) k == Ceiling(n, size) batches == Batches(chunks, size)
           ss == [b \in DOMAIN batches |-> batches[b]]
           End(b) == IF b = 0 THEN 0 ELSE BatchEnd(chunks, size, b)
<1>1. EmbedChunks(chunks, size, {}) = FlattenSeq(ss)
  BY DEF EmbedChunks
<1>2. /\ k \in Nat /\ DOMAIN batches = 1..k /\ (k = 0 => n = 0) /\ (k > 0 => BatchEnd(chunks, size, k) = n)
      /\ \A b \in 1..k :
           /\ (b - 1) * size \in Nat /\ BatchEnd(chunks, size, b) \in Nat
           /\ (b - 1) * size < BatchEnd(chunks, size, b) /\ BatchEnd(chunks, size, b) <= n
           /\ batches[b] = SubSeq(chunks, (b - 1) * size + 1, BatchEnd(chunks, size, b))
           /\ batches[b] \in Seq(D)
  BY BatchFacts
<1>3. n \in Nat /\ \A i \in 1..n : chunks[i] \in D
  BY LenProperties, ElementOfSeq
<1> HIDE DEF n, k, batches
<1>4. ss \in Seq(Seq(D)) /\ Len(ss) = k /\ \A b \in 1..k : ss[b] = batches[b]
  <2>1. ss \in [1..k -> Seq(D)]
    BY <1>2
  <2>2. \A b \in 1..k : ss[b] = batches[b]
    BY <1>2
  <2> HIDE DEF ss
  <2> QED
    BY <1>2, <2>1, <2>2, FunctionIsSeq
<1> HIDE DEF ss
<1>5. \A b \in 1..k : End(b - 1) = (b - 1) * size
  <2> SUFFICES ASSUME NEW b \in 1..k PROVE End(b - 1) = (b - 1) * size
    OBVIOUS
  <2>1. CASE b = 1
    BY <1>2, <2>1
  <2>2. CASE b # 1
    <3>1. b - 1 # 0 /\ End(b - 1) = BatchEnd(chunks, size, b - 1)
      BY <1>2, <2>2
    <3> DEFINE e == BatchEnd(chunks, size, b) a == (b - 1) * size
    <3>2. a \in Nat /\ e \in Nat /\ a < e /\ e <= n
      BY <1>2
    <3> HIDE DEF e, a
    <3>3. a < n
      BY <1>3, <3>2
    <3> QED
      BY <3>1, <3>3 DEF BatchEnd, n, a
  <2> QED
    BY <2>1, <2>2
<1>6. CASE k = 0
  <2>1. FlattenSeq(ss) = <<>>
    BY <1>4, <1>6, FlattenFacts
  <2>2. chunks = <<>>
    BY <1>2, <1>6, EmptySeq DEF n
  <2> QED
    BY <1>1, <2>1, <2>2
<1>7. CASE k # 0
  <2>1. PICK flat : Flattened(flat, ss, D)
    BY <1>4, FlattenFacts
  <2>2. /\ flat \in [1..k -> Seq(D)] /\ flat[1] = ss[1] /\ FlattenSeq(ss) = flat[k]
        /\ \A b \in 2..k : flat[b] = flat[b - 1] \o ss[b]
    <3>1. Len(ss) = k /\ k > 0
      BY <1>2, <1>4, <1>7
    <3> QED
      BY <2>1, <3>1 DEF Flattened
  <2> DEFINE Good(b) == Len(flat[b]) = End(b) /\ \A i \in 1..End(b) : flat[b][i] = chunks[i]
             G == {b \in 0..k : b = 0 \/ Good(b)}
  <2>3. ASSUME NEW b \in 1..k
        PROVE  /\ Len(ss[b]) = End(b) - End(b - 1) /\ ss[b] \in Seq(D) /\ End(b - 1) \in Nat
               /\ End(b) \in Nat /\ End(b - 1) < End(b) /\ End(b) <= n
               /\ \A i \in 1..End(b) - End(b - 1) : ss[b][i] = chunks[End(b - 1) + i]
    <3> DEFINE a == End(b - 1) e == BatchEnd(chunks, size, b)
    <3>1. a = (b - 1) * size /\ e = End(b)
      BY <1>5
    <3> HIDE DEF End
    <3>2. a \in Nat /\ e \in Nat /\ a < e /\ e <= n /\ ss[b] = SubSeq(chunks, a + 1, e) /\ ss[b] \in Seq(D)
      BY <1>2, <1>4, <3>1
    <3> HIDE DEF a, e
    <3>3. a + 1 \in Int /\ e \in Int /\ \A i \in a + 1..e : chunks[i] \in D
      BY <1>3, <3>2
    <3>4. /\ Len(SubSeq(chunks, a + 1, e)) = IF a + 1 <= e THEN e - (a + 1) + 1 ELSE 0
          /\ \A i \in 1..e - (a + 1) + 1 : SubSeq(chunks, a + 1, e)[i] = chunks[a + 1 + i - 1]
      BY <3>3, SubSeqProperties
    <3>5. Len(ss[b]) = e - a
      BY <3>2, <3>4
    <3>6. ASSUME NEW i \in 1..e - a PROVE ss[b][i] = chunks[a + i]
      <4>1. i \in 1..e - (a + 1) + 1 /\ a + 1 + i - 1 = a + i
        BY <3>2
      <4> QED
        BY <3>2, <3>4, <4>1
    <3> QED
      BY <3>1, <3>2, <3>5, <3>6 DEF a
  <2> HIDE DEF End
  <2>4. 0 \in G
    BY <1>2
  <2>5. ASSUME NEW b \in 1..k, b - 1 \in G PROVE b \in G
    <3>1. CASE b = 1
      <4>1. End(0) = 0 /\ b - 1 = 0
        BY <3>1 DEF End
      <4>2. flat[b] = ss[b] /\ Len(ss[b]) = End(b) /\ \A i \in 1..End(b) : ss[b][i] = chunks[i]
        BY <2>2, <2>3, <3>1, <4>1
      <4>3. Good(b)
        BY <4>2
      <4> HIDE DEF Good
      <4> QED
        BY <1>2, <4>3
    <3>2. CASE b # 1
      <4>1. b \in 2..k /\ b - 1 \in 1..k
        BY <1>2, <3>2
      <4>2. flat[b] = flat[b - 1] \o ss[b] /\ flat[b - 1] \in Seq(D) /\ Good(b - 1)
        <5>1. flat[b] = flat[b - 1] \o ss[b]
          BY <2>2, <4>1
        <5>2. flat[b - 1] \in Seq(D)
          BY <2>2, <4>1
        <5>3. b - 1 # 0
          BY <4>1
        <5> HIDE DEF Good
        <5>4. Good(b - 1)
          BY <2>5, <5>3
        <5> QED
          BY <5>1, <5>2, <5>4
      <4> DEFINE s == flat[b - 1] t == ss[b]
      <4>3. /\ Len(s \o t) = Len(s) + Len(t)
            /\ \A i \in 1..Len(s) + Len(t) : (s \o t)[i] = IF i <= Len(s) THEN s[i] ELSE t[i - Len(s)]
        <5>1. s \in Seq(D) /\ t \in Seq(D)
          BY <2>3, <4>2
        <5> HIDE DEF s, t
        <5> QED
          BY <5>1, ConcatProperties
      <4>4. /\ Len(s) = End(b - 1) /\ Len(t) = End(b) - End(b - 1) /\ End(b - 1) \in Nat /\ End(b) \in Nat
            /\ End(b - 1) < End(b) /\ flat[b] = s \o t
            /\ \A i \in 1..End(b - 1) : s[i] = chunks[i]
            /\ \A i \in 1..End(b) - End(b - 1) : t[i] = chunks[End(b - 1) + i]
        BY <2>3, <4>2
      <4> HIDE DEF s, t
      <4>5. Len(flat[b]) = End(b)
        BY <4>3, <4>4
      <4>6. ASSUME NEW i \in 1..End(b) PROVE flat[b][i] = chunks[i]
        <5>1. CASE i <= End(b - 1)
          <6>1. i \in 1..End(b - 1) /\ i \in 1..Len(s) + Len(t)
            BY <4>4, <5>1
          <6> QED
            BY <4>3, <4>4, <5>1, <6>1
        <5>2. CASE ~(i <= End(b - 1))
          <6>1. i - Len(s) \in 1..End(b) - End(b - 1) /\ i \in 1..Len(s) + Len(t)
                /\ End(b - 1) + (i - Len(s)) = i
            BY <4>4, <5>2
          <6>2. t[i - Len(s)] = chunks[i]
            BY <4>4, <6>1
          <6> QED
            BY <4>3, <4>4, <5>2, <6>1, <6>2
        <5> QED
          BY <5>1, <5>2
      <4>7. Good(b)
        BY <4>5, <4>6
      <4> HIDE DEF Good
      <4> QED
        BY <1>2, <4>7
    <3> QED
      BY <3>1, <3>2
  <2>6. k \in G
    <3> HIDE DEF G
    <3>1. \A b \in 0..k : b \in G
      BY <1>2, <2>4, <2>5, Upwards
    <3> QED
      BY <1>2, <3>1
  <2>7. End(k) = n /\ flat[k] \in Seq(D) /\ Good(k)
    BY <1>2, <1>7, <2>2, <2>6 DEF End
  <2>8. flat[k] = chunks
    BY <1>3, <2>7, SeqEqual DEF n
  <2> QED
    BY <1>1, <2>2, <2>8
<1> QED
  BY <1>6, <1>7

\* The texts of an answer are each of what it names, where it names anything.
Truthful(answer, sent) ==
  \A n \in DOMAIN answer : answer[n].id \in 1..Len(sent) => answer[n].text = sent[answer[n].id]

\* A model that leaves some out and makes one up is truthful of the others.
LEMMA ReplyTruthful ==
  ASSUME NEW reply, NEW sent, Len(sent) \in Nat, DOMAIN sent = 1..Len(sent)
  PROVE  /\ Truthful(Reply(reply, sent), sent)
         /\ Len(Reply(reply, sent)) \in Nat /\ DOMAIN Reply(reply, sent) = 1..Len(Reply(reply, sent))
<1> DEFINE S == reply.told \cap DOMAIN sent
           told == InOrder(S)
           true == [i \in DOMAIN told |-> [id |-> told[i], text |-> sent[told[i]]]]
           made == IF reply.extra THEN <<[id |-> Len(sent) + 1, text |-> "p5"]>> ELSE <<>>
           D == {true[i] : i \in DOMAIN told} \cup {[id |-> Len(sent) + 1, text |-> "p5"]}
           Fine(a) == a.id \in 1..Len(sent) => a.text = sent[a.id]
<1>1. Cardinality(S) \in Nat
  <2>1. IsFiniteSet(1..Len(sent)) /\ S \subseteq 1..Len(sent)
    BY FS_Interval
  <2> HIDE DEF S
  <2> QED
    BY <2>1, FS_Subset, FS_CardinalityType
<1>2. DOMAIN told = 1..Cardinality(S)
  BY DEF InOrder
<1>3. \A i \in DOMAIN told : Fine(true[i])
  OBVIOUS
<1> HIDE DEF told
<1>4. true \in [1..Cardinality(S) -> D] /\ DOMAIN true = 1..Cardinality(S)
  BY <1>2
<1>5. \A i \in DOMAIN told : true[i] \in {a \in D : Fine(a)}
  BY <1>3
<1>6. Fine([id |-> Len(sent) + 1, text |-> "p5"])
  OBVIOUS
<1> DEFINE E == {a \in D : Fine(a)}
<1>7. true \in [1..Cardinality(S) -> E] /\ [id |-> Len(sent) + 1, text |-> "p5"] \in E
  BY <1>2, <1>4, <1>5, <1>6
<1>8. made \in Seq(E)
  <2> DEFINE x == [id |-> Len(sent) + 1, text |-> "p5"]
  <2>1. x \in E
    BY <1>7
  <2> HIDE DEF E, x
  <2>2. <<x>> \in Seq(E) /\ <<>> \in Seq(E)
    BY <2>1
  <2> QED
    BY <2>2 DEF x
<1>9. Reply(reply, sent) = true \o made
  BY DEF Reply, told
<1> HIDE DEF S, true, made
<1>10. true \in Seq(E)
  <2> HIDE DEF E
  <2> QED
    BY <1>1, <1>7, FunctionIsSeq
<1>11. Reply(reply, sent) \in Seq(E)
  <2> HIDE DEF E
  <2> QED
    BY <1>8, <1>9, <1>10, ConcatProperties
<1>12. /\ \A n \in DOMAIN Reply(reply, sent) : Reply(reply, sent)[n] \in E
       /\ Len(Reply(reply, sent)) \in Nat /\ DOMAIN Reply(reply, sent) = 1..Len(Reply(reply, sent))
  <2> HIDE DEF E
  <2> QED
    BY <1>11, LenProperties, ElementOfSeq
<1> QED
  BY <1>12 DEF Truthful

\* Of some places one is the last.
LEMMA GreatestPlace ==
  ASSUME NEW N \in Nat, NEW T \in SUBSET (1..N), T # {}
  PROVE  \E x \in T : \A y \in T : y <= x
<1> DEFINE U == {N - x : x \in T}
<1>1. U \in SUBSET Nat /\ U # {}
  <2>1. \A x \in T : N - x \in Nat
    OBVIOUS
  <2>2. PICK x \in T : TRUE
    OBVIOUS
  <2>3. N - x \in U
    OBVIOUS
  <2> QED
    BY <2>1, <2>3
<1>2. PICK u \in U : \A v \in U : u <= v
  <2> HIDE DEF U
  <2> QED
    BY <1>1, LeastNumber
<1>3. PICK x \in T : u = N - x
  BY <1>2
<1>4. ASSUME NEW y \in T PROVE y <= x
  <2>1. u <= N - y
    BY <1>2
  <2> QED
    BY <1>3, <2>1
<1> QED
  BY <1>3, <1>4

\* What is read of a truthful answer is nothing, or what was sent at that place.
LEMMA ParsedTruthful ==
  ASSUME NEW answer, Len(answer) \in Nat, DOMAIN answer = 1..Len(answer),
         NEW sent, Len(sent) \in Nat, Truthful(answer, sent)
  PROVE  /\ DOMAIN ParseAnswer(answer, Len(sent)) = 1..Len(sent)
         /\ \A id \in 1..Len(sent) : ParseAnswer(answer, Len(sent))[id] \in {"", sent[id]}
<1> SUFFICES ASSUME NEW id \in 1..Len(sent)
             PROVE  ParseAnswer(answer, Len(sent))[id] \in {"", sent[id]}
  BY DEF ParseAnswer
<1> DEFINE Told == {n \in DOMAIN answer : answer[n].id = id /\ answer[n].text # ""}
           last == CHOOSE n \in Told : \A k \in Told : k <= n
<1>1. ParseAnswer(answer, Len(sent))[id] = IF Told = {} THEN "" ELSE answer[last].text
  BY DEF ParseAnswer
<1>2. CASE Told = {}
  BY <1>1, <1>2
<1>3. CASE Told # {}
  <2>1. last \in Told
    <3>1. \E n \in Told : \A k \in Told : k <= n
      BY <1>3, GreatestPlace
    <3> QED
      BY <3>1
  <2> HIDE DEF last
  <2>2. answer[last].text = sent[id]
    BY <2>1 DEF Truthful
  <2> QED
    BY <1>1, <1>3, <2>2
<1> QED
  BY <1>2, <1>3

\* d is one of the descriptions, with the picture that was sent at its place.
DescribesSent(d, sent, descriptions, D) ==
  /\ sent \in Seq(D) /\ descriptions # NoAnswer
  /\ \E i \in 1..Len(sent) : descriptions[i] # "" /\ d = <<sent[i].ref, descriptions[i]>>

\* What is written of a batch is what is said of the pictures sent.
LEMMA WriteFacts ==
  ASSUME NEW D, NEW batch \in Seq(D), NEW descriptions, NEW d, d \in Write(batch, descriptions)
  PROVE  DescribesSent(d, EncodeBatch(batch), descriptions, D)
<1> DEFINE sent == EncodeBatch(batch)
<1>1. sent \in Seq(D)
  <2> DEFINE P == {i \in DOMAIN batch : batch[i].encodes}
  <2>1. P \in SUBSET DOMAIN batch
    OBVIOUS
  <2>2. sent = Picked(batch, P)
    BY DEF EncodeBatch
  <2> HIDE DEF P, sent
  <2> QED
    BY <2>1, <2>2, PickedSeq
<1> HIDE DEF sent
<1>2. DOMAIN sent = 1..Len(sent)
  BY <1>1, LenProperties
<1>3. descriptions # NoAnswer
  BY DEF Write
<1>4. PICK i \in {k \in DOMAIN sent : descriptions[k] # ""} : d = <<sent[i].ref, descriptions[i]>>
  BY <1>3 DEF Write, sent
<1> QED
  BY <1>1, <1>2, <1>3, <1>4 DEF sent, DescribesSent

\* What is read of the attempts at a call is the one answer there was.
LEMMA DescribedBy ==
  ASSUME NEW answer, NEW attempts \in Seq({NoAnswer, answer}), NEW size,
         DescribeBatch(attempts, size) # NoAnswer
  PROVE  DescribeBatch(attempts, size) = ParseAnswer(answer, size)
<1> DEFINE answered == {n \in DOMAIN attempts : n <= MaxAttempts /\ attempts[n] # NoAnswer}
           first == CHOOSE n \in answered : \A k \in answered : n <= k
<1>1. DescribeBatch(attempts, size) = IF answered = {} THEN NoAnswer ELSE ParseAnswer(attempts[first], size)
  BY DEF DescribeBatch
<1>2. answered # {}
  BY <1>1
<1>3. \A n \in DOMAIN attempts : n \in Nat /\ attempts[n] \in {NoAnswer, answer}
  BY LenProperties, ElementOfSeq
<1>4. first \in answered
  <2>1. answered \in SUBSET Nat
    BY <1>3
  <2>2. \E n \in answered : \A k \in answered : n <= k
    <3> HIDE DEF answered
    <3> QED
      BY <1>2, <2>1, LeastNumber
  <2> QED
    BY <2>2
<1>5. attempts[first] = answer
  <2> HIDE DEF first
  <2> QED
    BY <1>3, <1>4
<1> QED
  BY <1>1, <1>2, <1>5

\* Pictures of any number, told apart by their references.
AnyPictures(c, Name, Label) ==
  /\ c.pictures \in Seq([ref : Name, label : Label, confident : BOOLEAN, crop : BOOLEAN,
                         encodes : BOOLEAN])
  /\ \A p, q \in ToSet(c.pictures) : p.ref = q.ref => p = q

\* Each call is answered with what was sent in it, or not at all.
AnsweredWith(attempts, pictures, reply) ==
  \A lane \in {"chart", "caption"} : \A b \in DOMAIN Batches(Plan(pictures)[lane], BatchSize) :
    attempts[lane][b] \in Seq({NoAnswer, Reply(reply, Sent(pictures, lane, b))})

\* Each description that is written is of the picture it is written to.
LEMMA WrittenTruthful ==
  ASSUME NEW D, NEW pictures \in Seq(D), NEW reply, NEW finished, NEW attempts,
         AnsweredWith(attempts, pictures, reply),
         NEW d, d \in EnrichPictures(pictures, attempts, finished)
  PROVE  \E p \in D : d = <<p.ref, p.ref>>
<1>1. PICK lane \in {"chart", "caption"} :
        d \in RunLane(lane, Plan(pictures)[lane], attempts[lane], finished)
  BY DEF EnrichPictures
<1> DEFINE candidates == Plan(pictures)[lane] batches == Batches(candidates, BatchSize)
<1>2. PICK b \in DOMAIN batches :
        d \in Write(batches[b], DescribeBatch(attempts[lane][b], Len(EncodeBatch(batches[b]))))
  BY <1>1 DEF RunLane
<1> DEFINE batch == batches[b] sent == EncodeBatch(batch)
           answer == Reply(reply, Sent(pictures, lane, b))
           descriptions == DescribeBatch(attempts[lane][b], Len(sent))
<1>3. candidates \in Seq(D)
  <2> DEFINE P == {i \in DOMAIN pictures : Lane(pictures[i]) = lane}
  <2>1. candidates = Picked(pictures, P)
    BY DEF Plan
  <2>2. P \in SUBSET DOMAIN pictures
    OBVIOUS
  <2> HIDE DEF P, candidates
  <2> QED
    BY <2>1, <2>2, PickedSeq
<1>4. batch \in Seq(D)
  <2>1. BatchSize \in Nat \ {0}
    BY EnrichmentAssumption
  <2> HIDE DEF candidates
  <2> QED
    BY <1>3, <2>1, BatchFacts
<1>5. attempts[lane][b] \in Seq({NoAnswer, answer})
  BY DEF AnsweredWith
<1>6. Sent(pictures, lane, b) = [i \in DOMAIN sent |-> sent[i].ref]
  BY DEF Sent
<1> HIDE DEF batches, candidates, descriptions, sent, batch
<1>7. /\ sent \in Seq(D) /\ descriptions # NoAnswer
      /\ \E i \in 1..Len(sent) : descriptions[i] # "" /\ d = <<sent[i].ref, descriptions[i]>>
  <2>1. d \in Write(batch, descriptions)
    BY <1>2 DEF sent, batch, descriptions
  <2>2. DescribesSent(d, EncodeBatch(batch), descriptions, D)
    BY <1>4, <2>1, WriteFacts
  <2> QED
    BY <2>2 DEF DescribesSent, sent
<1>8. Len(sent) \in Nat /\ DOMAIN sent = 1..Len(sent) /\ \A i \in 1..Len(sent) : sent[i] \in D
  BY <1>7, LenProperties, ElementOfSeq
<1> DEFINE refs == [i \in 1..Len(sent) |-> sent[i].ref]
<1>9. answer = Reply(reply, refs) /\ Len(refs) = Len(sent) /\ DOMAIN refs = 1..Len(refs)
  <2>1. refs \in [1..Len(sent) -> {sent[i].ref : i \in 1..Len(sent)}]
    OBVIOUS
  <2>2. Len(refs) = Len(sent)
    <3> DEFINE R == {sent[i].ref : i \in 1..Len(sent)}
    <3>1. refs \in [1..Len(sent) -> R]
      BY <2>1
    <3> HIDE DEF refs, R
    <3> QED
      BY <1>8, <3>1, FunctionIsSeq
  <2> QED
    BY <1>6, <1>8, <2>2
<1>10. descriptions = ParseAnswer(answer, Len(sent))
  <2> HIDE DEF answer
  <2> QED
    BY <1>5, <1>7, DescribedBy DEF descriptions
<1>11. \A i \in 1..Len(sent) : refs[i] = sent[i].ref
  OBVIOUS
<1> HIDE DEF refs
<1>12. Truthful(answer, refs) /\ Len(answer) \in Nat /\ DOMAIN answer = 1..Len(answer)
  <2>1. /\ Truthful(Reply(reply, refs), refs) /\ Len(Reply(reply, refs)) \in Nat
        /\ DOMAIN Reply(reply, refs) = 1..Len(Reply(reply, refs))
    BY <1>8, <1>9, ReplyTruthful
  <2> HIDE DEF answer
  <2> QED
    BY <1>9, <2>1
<1> HIDE DEF answer
<1>13. \A i \in 1..Len(sent) : descriptions[i] \in {"", sent[i].ref}
  <2>1. \A i \in 1..Len(refs) : ParseAnswer(answer, Len(refs))[i] \in {"", refs[i]}
    BY <1>8, <1>9, <1>12, ParsedTruthful
  <2> QED
    BY <1>9, <1>10, <1>11, <2>1
<1> QED
  BY <1>7, <1>8, <1>13

\* What is kept of the pictures, whatever was written.
LEMMA KeptWhole ==
  ASSUME NEW Name, NEW Label, AnyPictures(case, Name, Label),
         NEW written, \A d \in written : \E p \in ToSet(case.pictures) : d = <<p.ref, p.ref>>
  PROVE  KeptParse(written, StoreParse(case.pictures, written, case.refused))
<1> DEFINE ps == case.pictures refused == case.refused
           crops == UploadPictureCrops(ps, refused)
           resumed == ExportArtifacts(ps, written)
<1>1. \A p \in ToSet(ps) : p.crop \in BOOLEAN /\ p.encodes \in BOOLEAN
  <2> DEFINE S == [ref : Name, label : Label, confident : BOOLEAN, crop : BOOLEAN, encodes : BOOLEAN]
  <2>1. ps \in Seq(S)
    BY DEF AnyPictures
  <2>2. \A p \in ToSet(ps) : p \in S
    <3> HIDE DEF S, ps
    <3> QED
      BY <2>1, LenProperties, ElementOfSeq DEF ToSet
  <2> QED
    BY <2>2
<1>2. \A p, q \in ToSet(ps) : p.ref = q.ref => p = q
  BY DEF AnyPictures
<1> HIDE DEF ps, refused
<1>3. \A c : c \in crops <=> \E q \in ToSet(ps) : /\ c = [ref |-> q.ref, label |-> q.label]
                                                  /\ q.crop /\ q.encodes /\ q.ref \notin refused
  BY DEF UploadPictureCrops, UploadPictureCrop
<1> HIDE DEF crops
<1>4. ASSUME NEW p \in ToSet(ps)
      PROVE  (\E c \in crops : c.ref = p.ref /\ c.label = p.label)
             <=> p.crop /\ p.encodes /\ p.ref \notin refused
  <2>1. ASSUME NEW c \in crops, c.ref = p.ref
        PROVE  p.crop /\ p.encodes /\ p.ref \notin refused
    <3>1. PICK q \in ToSet(ps) : /\ c = [ref |-> q.ref, label |-> q.label]
                                 /\ q.crop /\ q.encodes /\ q.ref \notin refused
      BY <1>3
    <3>2. q.ref = p.ref
      BY <2>1, <3>1
    <3>3. q = p
      BY <1>2, <3>2
    <3> QED
      BY <3>1, <3>3
  <2>2. ASSUME p.crop, p.encodes, p.ref \notin refused
        PROVE  \E c \in crops : c.ref = p.ref /\ c.label = p.label
    <3> DEFINE c == [ref |-> p.ref, label |-> p.label]
    <3>1. c \in crops
      BY <1>3, <2>2
    <3>2. c.ref = p.ref /\ c.label = p.label
      OBVIOUS
    <3> HIDE DEF c
    <3> QED
      BY <3>1, <3>2
  <2> QED
    BY <1>1, <2>1, <2>2
<1>5. \A i \in DOMAIN ps : /\ resumed[i].ref = ps[i].ref /\ resumed[i].crop = FALSE
                           /\ resumed[i].texts = {d[2] : d \in {e \in written : e[1] = ps[i].ref}}
  BY DEF ExportArtifacts
<1>6. DOMAIN resumed = DOMAIN ps
  BY DEF ExportArtifacts
<1> HIDE DEF resumed
<1>7. ASSUME NEW d \in written
      PROVE  \E p \in ToSet(resumed) : p.ref = d[1] /\ d[2] \in p.texts
  <2>1. PICK i \in DOMAIN ps : d = <<ps[i].ref, ps[i].ref>>
    BY DEF ToSet, ps
  <2>2. d[1] = ps[i].ref /\ d \in {e \in written : e[1] = ps[i].ref}
    BY <2>1
  <2>3. d[2] \in resumed[i].texts /\ resumed[i].ref = d[1]
    BY <1>5, <2>2
  <2>4. resumed[i] \in ToSet(resumed)
    BY <1>6 DEF ToSet
  <2> QED
    BY <2>3, <2>4
<1>8. \A p \in ToSet(resumed) : ~p.crop
  BY <1>5, <1>6 DEF ToSet
<1> DEFINE stored == StoreParse(ps, written, refused)
<1>9. stored.crops = crops /\ LoadPersistedDocument(stored, TRUE) = resumed
  BY DEF StoreParse, LoadPersistedDocument, crops, resumed
<1> HIDE DEF stored
<1>10. KeptParse(written, stored)
  BY <1>4, <1>7, <1>8, <1>9 DEF KeptParse, ps, refused
<1> QED
  BY <1>10 DEF stored, ps, refused

\* Each table is summarised with what was sent of it, or not at all.
LEMMA SummariesTruthful ==
  ASSUME NEW D, NEW rows \in Seq(D), NEW names, NEW reply, NEW answers,
         \A b \in DOMAIN Batches(TableIndices(rows), BatchSize) :
           LET batch == Batches(TableIndices(rows), BatchSize)[b]
           IN  answers[b] \in {NoAnswer, Reply(reply, [k \in DOMAIN batch |-> names[batch[k]]])},
         NEW d \in SummarizeTables(rows, answers)
  PROVE  d[2] \in {"", names[d[1]]}
<1> DEFINE tables == TableIndices(rows) batches == Batches(tables, BatchSize)
<1>1. PICK b \in DOMAIN batches : \E k \in DOMAIN batches[b] :
        d = <<batches[b][k], IF answers[b] = NoAnswer THEN ""
                             ELSE ParseAnswer(answers[b], Len(batches[b]))[k]>>
  BY DEF SummarizeTables
<1> DEFINE batch == batches[b] refs == [k \in DOMAIN batch |-> names[batch[k]]]
<1>2. answers[b] \in {NoAnswer, Reply(reply, refs)}
  OBVIOUS
<1>3. tables \in Seq(DOMAIN rows)
  <2> DEFINE P == {i \in DOMAIN rows : rows[i] = "table"} all == [i \in DOMAIN rows |-> i]
  <2>1. all \in Seq(DOMAIN rows) /\ DOMAIN all = DOMAIN rows
    <3>1. DOMAIN rows = 1..Len(rows) /\ Len(rows) \in Nat
      BY LenProperties
    <3>2. all \in [1..Len(rows) -> DOMAIN rows]
      BY <3>1
    <3> HIDE DEF all
    <3> QED
      BY <3>1, <3>2, FunctionIsSeq
  <2>2. P \in SUBSET DOMAIN rows /\ tables = Picked(all, P)
    BY DEF TableIndices
  <2> HIDE DEF P, all, tables
  <2> QED
    BY <2>1, <2>2, PickedSeq
<1>4. batch \in Seq(DOMAIN rows)
  <2>1. BatchSize \in Nat \ {0}
    BY EnrichmentAssumption
  <2> HIDE DEF tables
  <2> QED
    BY <1>3, <2>1, BatchFacts
<1>5. PICK k \in DOMAIN batch : d = <<batch[k], IF answers[b] = NoAnswer THEN ""
                                               ELSE ParseAnswer(answers[b], Len(batch))[k]>>
  BY <1>1
<1> HIDE DEF batches, batch
<1>6. Len(batch) \in Nat /\ DOMAIN batch = 1..Len(batch)
  BY <1>4, LenProperties
<1>7. Len(refs) = Len(batch) /\ DOMAIN refs = 1..Len(refs) /\ \A i \in 1..Len(batch) : refs[i] = names[batch[i]]
  <2> DEFINE R == {names[batch[i]] : i \in 1..Len(batch)}
  <2>1. refs \in [1..Len(batch) -> R] /\ DOMAIN refs = 1..Len(batch)
        /\ \A i \in 1..Len(batch) : refs[i] = names[batch[i]]
    BY <1>6
  <2>2. Len(refs) = Len(batch)
    <3> HIDE DEF refs, R
    <3> QED
      BY <1>6, <2>1, FunctionIsSeq
  <2> HIDE DEF refs
  <2> QED
    BY <2>1, <2>2
<1> HIDE DEF refs
<1>8. d[1] = batch[k]
  BY <1>5
<1>9. CASE answers[b] = NoAnswer
  <2>1. d[2] = ""
    BY <1>5, <1>9
  <2> QED
    BY <2>1
<1>10. CASE answers[b] # NoAnswer
  <2> DEFINE answer == Reply(reply, refs)
  <2>1. answers[b] = answer
    BY <1>2, <1>10
  <2>2. Truthful(answer, refs) /\ Len(answer) \in Nat /\ DOMAIN answer = 1..Len(answer)
    BY <1>6, <1>7, ReplyTruthful
  <2> HIDE DEF answer
  <2>3. \A i \in 1..Len(refs) : ParseAnswer(answer, Len(refs))[i] \in {"", refs[i]}
    BY <1>6, <1>7, <2>2, ParsedTruthful
  <2>4. d[2] = ParseAnswer(answer, Len(refs))[k]
    BY <1>5, <1>7, <1>10, <2>1
  <2> QED
    BY <1>6, <1>7, <1>8, <2>3, <2>4
<1> QED
  BY <1>9, <1>10

\* Tables among other rows, and the names that are embedded in their order.
AnyTables(c, Row, Name) == c.rows \in Seq(Row) /\ c.names \in Seq(Name)

\* AnswersStayWithTheirOwn, of any pictures.
LEMMA AnswersStay ==
  ASSUME NEW Name, NEW Label, case.kind = "pictures" => AnyPictures(case, Name, Label),
         NEW Row, NEW Word, case.kind = "tables" => AnyTables(case, Row, Word)
  PROVE  AnswersStayWithTheirOwn
<1>1. ASSUME case.kind = "pictures"
      PROVE  LET attempts == [lane \in {"chart", "caption"} |->
                   [b \in DOMAIN Batches(Plan(case.pictures)[lane], BatchSize) |->
                      (IF case.reply.fails THEN <<NoAnswer>> ELSE <<>>)
                      \o <<Reply(case.reply, Sent(case.pictures, lane, b))>>]]
                 written == EnrichPictures(case.pictures, attempts, {"chart", "caption"} \X (1..3))
             IN  /\ \A d \in written : d[1] = d[2]
                 /\ KeptParse(written, StoreParse(case.pictures, written, case.refused))
  <2> DEFINE ps == case.pictures D == ToSet(ps) reply == case.reply fails == case.reply.fails
             Own(lane, b) == Reply(reply, Sent(ps, lane, b))
             attempts == [lane \in {"chart", "caption"} |->
               [b \in DOMAIN Batches(Plan(ps)[lane], BatchSize) |->
                  (IF fails THEN <<NoAnswer>> ELSE <<>>) \o <<Own(lane, b)>>]]
             finished == {"chart", "caption"} \X (1..3)
             written == EnrichPictures(ps, attempts, finished)
  <2>1. AnyPictures(case, Name, Label)
    BY <1>1
  <2>2. ps \in Seq(D)
    <3> DEFINE S == [ref : Name, label : Label, confident : BOOLEAN, crop : BOOLEAN, encodes : BOOLEAN]
    <3>1. ps \in Seq(S)
      BY <2>1 DEF AnyPictures
    <3> HIDE DEF S, ps
    <3>2. Len(ps) \in Nat /\ ps \in [1..Len(ps) -> S] /\ DOMAIN ps = 1..Len(ps)
      BY <3>1, LenProperties
    <3>3. ps \in [1..Len(ps) -> D]
      BY <3>2 DEF ToSet
    <3> HIDE DEF D
    <3> QED
      BY <3>2, <3>3, FunctionIsSeq
  <2>3. ASSUME NEW a PROVE (IF fails THEN <<NoAnswer>> ELSE <<>>) \o <<a>> \in Seq({NoAnswer, a})
    <3> DEFINE S == {NoAnswer, a} before == IF fails THEN <<NoAnswer>> ELSE <<>>
    <3>1. NoAnswer \in S /\ a \in S
      OBVIOUS
    <3> HIDE DEF S
    <3>2. before \in Seq(S) /\ <<a>> \in Seq(S)
      BY <3>1
    <3> HIDE DEF before
    <3>3. before \o <<a>> \in Seq(S)
      BY <3>2, ConcatProperties
    <3> QED
      BY <3>3 DEF before, S
  <2>4. ASSUME NEW lane \in {"chart", "caption"}, NEW b \in DOMAIN Batches(Plan(ps)[lane], BatchSize)
        PROVE  attempts[lane][b] \in Seq({NoAnswer, Own(lane, b)})
    <3>1. attempts[lane][b] = (IF fails THEN <<NoAnswer>> ELSE <<>>) \o <<Own(lane, b)>>
      OBVIOUS
    <3> HIDE DEF attempts, Own, fails
    <3> QED
      BY <2>3, <3>1
  <2> HIDE DEF attempts
  <2>5. AnsweredWith(attempts, ps, reply)
    BY <2>4 DEF AnsweredWith
  <2> HIDE DEF finished, D, fails
  <2>6. \A d \in written : \E p \in D : d = <<p.ref, p.ref>>
    <3> SUFFICES ASSUME NEW d, d \in EnrichPictures(ps, attempts, finished)
                 PROVE  \E p \in D : d = <<p.ref, p.ref>>
      OBVIOUS
    <3> HIDE DEF ps, reply
    <3> QED
      BY <2>2, <2>5, WrittenTruthful
  <2> HIDE DEF written
  <2>7. \A d \in written : d[1] = d[2]
    BY <2>6
  <2>8. KeptParse(written, StoreParse(ps, written, case.refused))
    BY <2>1, <2>6, KeptWhole DEF D
  <2> QED
    BY <2>7, <2>8 DEF written, attempts, finished, fails
<1>2. ASSUME case.kind = "tables"
      PROVE  LET batches == Batches(TableIndices(case.rows), BatchSize)
                 Asked(b) == [k \in DOMAIN batches[b] |-> case.names[batches[b][k]]]
                 answers == [b \in DOMAIN batches |-> IF case.reply.fails /\ b = 1 THEN NoAnswer
                                                      ELSE Reply(case.reply, Asked(b))]
             IN  /\ \A d \in SummarizeTables(case.rows, answers) : d[2] \in {"", case.names[d[1]]}
                 /\ EmbedChunks(case.names, BatchSize, {}) = case.names
  <2> DEFINE rows == case.rows names == case.names reply == case.reply
             batches == Batches(TableIndices(rows), BatchSize)
             Asked(b) == [k \in DOMAIN batches[b] |-> names[batches[b][k]]]
             answers == [b \in DOMAIN batches |-> IF reply.fails /\ b = 1 THEN NoAnswer
                                                  ELSE Reply(reply, Asked(b))]
  <2>1. rows \in Seq(Row) /\ names \in Seq(Word) /\ BatchSize \in Nat \ {0}
    BY <1>2, EnrichmentAssumption DEF AnyTables
  <2>2. \A b \in DOMAIN batches : answers[b] \in {NoAnswer, Reply(reply, Asked(b))}
    OBVIOUS
  <2> HIDE DEF answers, rows, names, reply
  <2>3. \A d \in SummarizeTables(rows, answers) : d[2] \in {"", names[d[1]]}
    BY <2>1, <2>2, SummariesTruthful
  <2>4. EmbedChunks(names, BatchSize, {}) = names
    BY <2>1, EmbeddedWhole
  <2> QED
    BY <2>3, <2>4 DEF answers, rows, names, reply
<1> QED
  BY <1>1, <1>2 DEF AnswersStayWithTheirOwn

\* Three pictures, each under its own reference.
ThreePictures(ps) ==
  /\ ps \in Seq([ref : {"p1", "p2", "p3"}, label : {"chart", "photo", "logo"},
                  confident : BOOLEAN, crop : BOOLEAN, encodes : BOOLEAN])
  /\ \A p, q \in ToSet(ps) : p.ref = q.ref => p = q

\* Those of the run are three of that kind.
LEMMA PicturesTaken ==
  ASSUME NEW a, a \in Picture("p1"), NEW b, b \in Picture("p2"), NEW c, c \in Picture("p3"),
         NEW ps, ps = <<a, b, c>>
  PROVE  ThreePictures(ps)
<1> DEFINE Refs == {"p1", "p2", "p3"}
           Labels == {"chart", "photo", "logo"}
           S == [ref : Refs, label : Labels, confident : BOOLEAN, crop : BOOLEAN, encodes : BOOLEAN]
<1>1. {"p1"} \subseteq Refs /\ {"p2"} \subseteq Refs /\ {"p3"} \subseteq Refs /\ {TRUE} \subseteq BOOLEAN
  OBVIOUS
<1>2. Picture("p1") \subseteq S /\ Picture("p2") \subseteq S /\ Picture("p3") \subseteq S
  <2> HIDE DEF Refs
  <2>1. [ref : {"p1"}, label : Labels, confident : {TRUE}, crop : BOOLEAN, encodes : BOOLEAN] \subseteq S
    BY <1>1, Zenon DEF S
  <2>2. [ref : {"p2"}, label : Labels, confident : {TRUE}, crop : BOOLEAN, encodes : BOOLEAN] \subseteq S
    BY <1>1, Zenon DEF S
  <2>3. [ref : {"p3"}, label : Labels, confident : {TRUE}, crop : BOOLEAN, encodes : BOOLEAN] \subseteq S
    BY <1>1, Zenon DEF S
  <2> HIDE DEF S
  <2> QED
    BY <2>1, <2>2, <2>3 DEF Picture
<1>3. a.ref = "p1" /\ b.ref = "p2" /\ c.ref = "p3"
  BY DEF Picture
<1>4. a \in S /\ b \in S /\ c \in S
  BY <1>2
<1> HIDE DEF S
<1>5. ps \in Seq(S)
  BY <1>4
<1>6. ToSet(ps) = {a, b, c}
  <2>1. DOMAIN ps = 1..3 /\ ps[1] = a /\ ps[2] = b /\ ps[3] = c
    OBVIOUS
  <2>2. 1..3 = {1, 2, 3}
    OBVIOUS
  <2> QED
    BY <2>1, <2>2 DEF ToSet
<1>7. \A p, q \in {a, b, c} : p.ref = q.ref => p = q
  <2> HIDE DEF Refs, Labels
  <2> QED
    BY ONLY <1>3
<1> QED
  BY <1>5, <1>6, <1>7 DEF ThreePictures, S, Refs, Labels

\* The names of the chunks of the run.
Words == {"p1", "p2", "p3", "p4", "p5"}

\* Whatever the run describes or summarises is of those kinds.
Answerable(c) ==
  /\ c.kind = "pictures" => AnyPictures(c, {"p1", "p2", "p3"}, {"chart", "photo", "logo"})
  /\ c.kind = "tables" => AnyTables(c, {"table", "text"}, Words)

\* Each input of the run is one of them.
LEMMA AnswersTaken == Spec => []Answerable(case)
<1>1. Init => Answerable(case)
  BY DEF Init, Answerable
<1>2. Answerable(case) /\ [Next]_case => Answerable(case)'
  <2> SUFFICES ASSUME Answerable(case), [Next]_case PROVE Answerable(case')
    OBVIOUS
  <2>1. ASSUME Next, case'.kind = "pictures"
        PROVE  AnyPictures(case', {"p1", "p2", "p3"}, {"chart", "photo", "logo"})
    <3>1. PICK ps \in {<<a, b, c>> : a \in Picture("p1"), b \in Picture("p2"), c \in Picture("p3")},
               reply \in Replies, refused \in {{}, {"p2"}} :
            case' = [kind |-> "pictures", pictures |-> ps, reply |-> reply, refused |-> refused]
      BY <2>1, TakenByKind DEF TakePictures
    <3>2. PICK a \in Picture("p1"), b \in Picture("p2"), c \in Picture("p3") : ps = <<a, b, c>>
      OBVIOUS
    <3>3. ThreePictures(ps)
      BY <3>2, PicturesTaken
    <3>4. case'.pictures = ps
      BY <3>1
    <3> QED
      BY <3>3, <3>4 DEF AnyPictures, ThreePictures
  <2>2. ASSUME Next, case'.kind = "tables"
        PROVE  AnyTables(case', {"table", "text"}, Words)
    <3>1. PICK rows \in SeqOf({"table", "text"}, 5), reply \in Replies :
            case' = [kind |-> "tables", rows |-> rows, names |-> Names, reply |-> reply]
      BY <2>2, TakenByKind DEF TakeTables
    <3>2. rows \in Seq({"table", "text"})
      <4>1. PICK m \in 0..5 : rows \in [1..m -> {"table", "text"}]
        BY DEF SeqOf
      <4>2. m \in Nat
        OBVIOUS
      <4> QED
        BY <4>1, <4>2, FunctionIsSeq
    <3>3. Names \in Seq(Words)
      BY DEF Names, Words
    <3>4. case'.rows = rows /\ case'.names = Names
      BY <3>1
    <3> QED
      BY <3>2, <3>3, <3>4 DEF AnyTables
  <2>3. CASE Next
    BY <2>1, <2>2, <2>3 DEF Answerable
  <2>4. CASE UNCHANGED case
    BY <2>4
  <2> QED
    BY <2>3, <2>4
<1> QED
  BY <1>1, <1>2, PTL DEF Spec

\* However many pictures and tables there are, whatever does not encode or is
\* refused, and whatever a model leaves out or adds, what is written is written
\* to the picture or table it was said of, a retry starts from all of it, and
\* the vectors are in the order of the chunks; and so it is for all inputs of
\* the run (picture_enricher.py, table_summarizer.py, embedder.py, tasks.py).
THEOREM AnyAnswersStay ==
  /\ \A Name, Label, Row, Word :
       /\ case.kind = "pictures" => AnyPictures(case, Name, Label)
       /\ case.kind = "tables" => AnyTables(case, Row, Word)
       => AnswersStayWithTheirOwn
  /\ Spec => []AnswersStayWithTheirOwn
<1>1. \A Name, Label, Row, Word :
        /\ case.kind = "pictures" => AnyPictures(case, Name, Label)
        /\ case.kind = "tables" => AnyTables(case, Row, Word)
        => AnswersStayWithTheirOwn
  BY AnswersStay
<1>2. Answerable(case) => AnswersStayWithTheirOwn
  BY AnswersStay DEF Answerable
<1> QED
  BY <1>1, <1>2, AnswersTaken, PTL
-----------------------------------------------------------------------------
(* Documents: sequences made element by element, one after the other.      *)

\* u is s and then t.
IsConcat(u, s, t, D) ==
  /\ u \in Seq(D) /\ Len(u) = Len(s) + Len(t)
  /\ \A i \in 1..Len(s) : u[i] = s[i]
  /\ \A i \in 1..Len(t) : u[Len(s) + i] = t[i]

\* So is what \o makes of them.
LEMMA ConcatFacts ==
  ASSUME NEW D, NEW s \in Seq(D), NEW t \in Seq(D)
  PROVE  IsConcat(s \o t, s, t, D)
<1> DEFINE u == s \o t n == Len(s) m == Len(t)
<1>1. n \in Nat /\ m \in Nat
  BY LenProperties
<1>2. /\ u \in Seq(D) /\ Len(u) = n + m
      /\ \A i \in 1..n + m : u[i] = IF i <= n THEN s[i] ELSE t[i - n]
  BY ConcatProperties
<1> HIDE DEF u, n, m
<1>3. ASSUME NEW i \in 1..n PROVE u[i] = s[i]
  BY <1>1, <1>2
<1>4. ASSUME NEW i \in 1..m PROVE u[n + i] = t[i]
  <2> SUFFICES ASSUME NEW j, j = n + i PROVE u[j] = t[i]
    OBVIOUS
  <2>1. j \in 1..n + m /\ ~(j <= n) /\ j - n = i
    BY <1>1
  <2> QED
    BY <1>2, <2>1
<1>5. u \in Seq(D) /\ Len(u) = n + m
  BY <1>2
<1> QED
  BY <1>3, <1>4, <1>5 DEF IsConcat, u, n, m

\* Flattening what is flat.
LEMMA FlattenOne ==
  ASSUME NEW D, NEW x \in Seq(D)
  PROVE  FlattenSeq(<<x>>) = x
<1> DEFINE ss == <<x>>
<1>1. ss \in Seq(Seq(D)) /\ Len(ss) = 1 /\ ss[1] = x
  OBVIOUS
<1> HIDE DEF ss
<1>2. PICK flat : Flattened(flat, ss, D)
  BY <1>1, FlattenFacts
<1>3. flat[1] = ss[1] /\ FlattenSeq(ss) = flat[Len(ss)]
  BY <1>1, <1>2 DEF Flattened
<1>4. FlattenSeq(ss) = x
  BY <1>1, <1>3
<1> QED
  BY <1>4 DEF ss

\* s and then t, and one alone, as names that are not looked into.
Joined(s, t) == s \o t
One(c) == <<c>>

\* What they are made of.
LEMMA JoinedFacts ==
  ASSUME NEW D
  PROVE  /\ \A x, y \in Seq(D) : Joined(x, y) \in Seq(D)
         /\ \A x, y, z \in Seq(D) : Joined(Joined(x, y), z) = Joined(x, Joined(y, z))
         /\ \A x \in Seq(D) : Joined(x, <<>>) = x /\ Joined(<<>>, x) = x
         /\ <<>> \in Seq(D)
BY ConcatProperties, ConcatAssociative, ConcatEmptySeq, EmptySeq DEF Joined

\* What has been flattened up to each place.
Unrolled(flat, ss, D, n) ==
  /\ n \in Nat /\ ss \in [1..n -> Seq(D)] /\ flat \in [1..n -> Seq(D)]
  /\ n > 0 => flat[1] = ss[1] /\ FlattenSeq(ss) = flat[n]
  /\ \A i \in 2..n : flat[i] = Joined(flat[i - 1], ss[i])

\* Flattening can be unrolled.
LEMMA Unroll ==
  ASSUME NEW D, NEW ss \in Seq(Seq(D))
  PROVE  \E flat : Unrolled(flat, ss, D, Len(ss))
<1>1. PICK flat : Flattened(flat, ss, D)
  BY FlattenFacts
<1>2. ss \in [1..Len(ss) -> Seq(D)]
  BY LenProperties
<1>3. \A i \in 2..Len(ss) : flat[i] = Joined(flat[i - 1], ss[i])
  BY <1>1 DEF Flattened, Joined
<1>4. Unrolled(flat, ss, D, Len(ss))
  BY <1>1, <1>2, <1>3 DEF Flattened, Unrolled
<1> QED
  BY <1>4

\* What is flattened is a sequence.
LEMMA FlattenType ==
  ASSUME NEW D, NEW ss \in Seq(Seq(D))
  PROVE  FlattenSeq(ss) \in Seq(D)
<1> DEFINE n == Len(ss)
<1>1. n \in Nat
  BY LenProperties
<1>2. PICK flat : Unrolled(flat, ss, D, n)
  BY Unroll
<1>3. CASE n = 0
  BY <1>3, FlattenFacts, EmptySeq
<1>4. CASE n > 0
  <2> HIDE DEF n
  <2>1. flat \in [1..n -> Seq(D)] /\ FlattenSeq(ss) = flat[n] /\ n \in 1..n
    BY <1>1, <1>2, <1>4 DEF Unrolled
  <2> QED
    BY <2>1
<1> QED
  BY <1>1, <1>3, <1>4

\* u is flattened as s is, and then on as t is.
LEMMA UnrollOn ==
  ASSUME NEW D, NEW s, NEW t, NEW u, NEW n, NEW m, NEW a, NEW b, NEW c,
         Unrolled(a, s, D, n), Unrolled(b, t, D, m), Unrolled(c, u, D, n + m),
         n > 0, m > 0, \A i \in 1..n : u[i] = s[i], \A i \in 1..m : u[n + i] = t[i]
  PROVE  FlattenSeq(u) = Joined(FlattenSeq(s), FlattenSeq(t))
<1>1. n \in Nat /\ m \in Nat /\ t \in [1..m -> Seq(D)]
  BY DEF Unrolled
<1>2. /\ a \in [1..n -> Seq(D)] /\ a[1] = s[1] /\ FlattenSeq(s) = a[n]
      /\ \A i \in 2..n : a[i] = Joined(a[i - 1], s[i])
  BY DEF Unrolled
<1>3. /\ b \in [1..m -> Seq(D)] /\ b[1] = t[1] /\ FlattenSeq(t) = b[m]
      /\ \A i \in 2..m : b[i] = Joined(b[i - 1], t[i])
  BY DEF Unrolled
<1>4. /\ c[1] = u[1] /\ FlattenSeq(u) = c[n + m]
      /\ \A i \in 2..n + m : c[i] = Joined(c[i - 1], u[i])
  <2>1. n + m > 0
    BY <1>1
  <2> QED
    BY <2>1 DEF Unrolled
<1> DEFINE G == {k \in 0..n : k > 0 => c[k] = a[k]}
<1>5. 0 \in G
  BY <1>1
<1>6. ASSUME NEW k \in 1..n, k - 1 \in G PROVE k \in G
  <2>1. CASE k = 1
    BY <1>1, <1>2, <1>4, <2>1
  <2>2. CASE k # 1
    <3>1. k \in 2..n /\ k \in 2..n + m /\ k - 1 > 0
      BY <1>1, <2>2
    <3>2. c[k] = Joined(c[k - 1], u[k]) /\ a[k] = Joined(a[k - 1], s[k]) /\ u[k] = s[k]
          /\ c[k - 1] = a[k - 1]
      BY <1>2, <1>4, <1>6, <3>1
    <3>3. c[k] = a[k]
      BY <3>2
    <3> QED
      BY <1>1, <3>3
  <2> QED
    BY <2>1, <2>2
<1>7. \A k \in 0..n : k \in G
  <2> HIDE DEF G
  <2> QED
    BY <1>1, <1>5, <1>6, Upwards
<1>8. c[n] = a[n]
  <2>1. n \in G
    BY <1>1, <1>7
  <2> QED
    BY <2>1
<1> DEFINE H == {k \in 0..m : k > 0 => c[n + k] = Joined(a[n], b[k])}
<1>9. 0 \in H
  BY <1>1
<1>10. ASSUME NEW k \in 1..m, k - 1 \in H PROVE k \in H
  <2>1. c[n + k] = Joined(c[n + k - 1], t[k])
    <3>1. PICK j \in 2..n + m : j = n + k /\ j - 1 = n + k - 1
      BY <1>1
    <3>2. u[n + k] = t[k]
      OBVIOUS
    <3>3. c[j] = Joined(c[j - 1], u[j])
      BY <1>4
    <3> QED
      BY <3>1, <3>2, <3>3
  <2>2. ASSUME k = 1 PROVE c[n + k] = Joined(a[n], b[k])
    <3>1. n + 1 - 1 = n
      BY <1>1
    <3>2. c[n + 1] = Joined(c[n], t[1])
      BY <2>1, <2>2, <3>1
    <3> QED
      BY <1>3, <1>8, <2>2, <3>2
  <2>3. ASSUME k # 1 PROVE c[n + k] = Joined(a[n], b[k])
    <3>1. k \in 2..m /\ k - 1 > 0 /\ n + k - 1 = n + (k - 1) /\ k - 1 \in 1..m /\ n \in 1..n
      BY <1>1, <2>3
    <3>2. c[n + (k - 1)] = Joined(a[n], b[k - 1])
      BY <1>10, <3>1
    <3>3. c[n + k] = Joined(Joined(a[n], b[k - 1]), t[k])
      BY <2>1, <3>1, <3>2
    <3>4. a[n] \in Seq(D) /\ b[k - 1] \in Seq(D) /\ t[k] \in Seq(D)
      BY <1>1, <1>2, <1>3, <3>1
    <3>5. \A x, y, z \in Seq(D) : Joined(Joined(x, y), z) = Joined(x, Joined(y, z))
      BY JoinedFacts
    <3>6. b[k] = Joined(b[k - 1], t[k])
      BY <1>3, <3>1
    <3>7. Joined(Joined(a[n], b[k - 1]), t[k]) = Joined(a[n], Joined(b[k - 1], t[k]))
      BY <3>4, <3>5, Zenon
    <3> QED
      BY <3>3, <3>6, <3>7
  <2> QED
    BY <1>1, <2>2, <2>3
<1>11. \A k \in 0..m : k \in H
  <2> HIDE DEF H
  <2> QED
    BY <1>1, <1>9, <1>10, Upwards
<1>12. c[n + m] = Joined(a[n], b[m])
  <2>1. m \in H
    BY <1>1, <1>11
  <2> QED
    BY <2>1
<1> QED
  BY <1>2, <1>3, <1>4, <1>12

\* Two halves can be flattened one by one.
LEMMA FlattenConcat ==
  ASSUME NEW D, NEW s \in Seq(Seq(D)), NEW t \in Seq(Seq(D))
  PROVE  FlattenSeq(Joined(s, t)) = Joined(FlattenSeq(s), FlattenSeq(t))
<1> DEFINE n == Len(s) m == Len(t) u == Joined(s, t)
<1>1. n \in Nat /\ m \in Nat
  BY LenProperties
<1>2. /\ u \in Seq(Seq(D)) /\ Len(u) = n + m
      /\ \A i \in 1..n : u[i] = s[i]
      /\ \A i \in 1..m : u[n + i] = t[i]
  <2>1. IsConcat(u, s, t, Seq(D))
    BY ConcatFacts DEF Joined
  <2> HIDE DEF u
  <2> QED
    BY <2>1 DEF IsConcat
<1>3. FlattenSeq(s) \in Seq(D) /\ FlattenSeq(t) \in Seq(D)
  BY FlattenType
<1>4. CASE n = 0
  <2>1. s = <<>> /\ FlattenSeq(s) = <<>>
    BY <1>4, EmptySeq, FlattenFacts
  <2> QED
    BY <1>3, <2>1, JoinedFacts
<1>5. CASE m = 0
  <2>1. t = <<>> /\ FlattenSeq(t) = <<>>
    BY <1>5, EmptySeq, FlattenFacts
  <2> QED
    BY <1>3, <2>1, JoinedFacts
<1>6. CASE n > 0 /\ m > 0
  <2> HIDE DEF u
  <2>1. PICK a : Unrolled(a, s, D, n)
    BY Unroll
  <2>2. PICK b : Unrolled(b, t, D, m)
    BY Unroll
  <2>3. PICK c : Unrolled(c, u, D, n + m)
    BY <1>2, Unroll
  <2> HIDE DEF n, m
  <2>4. FlattenSeq(u) = Joined(FlattenSeq(s), FlattenSeq(t))
    BY <1>2, <1>6, <2>1, <2>2, <2>3, UnrollOn
  <2> QED
    BY <2>4 DEF u
<1> QED
  BY <1>1, <1>4, <1>5, <1>6

\* What phi makes of each element of s, and that one after the other.
Mapped(phi, s) == [i \in DOMAIN s |-> phi[s[i]]]
Total(phi, s) == FlattenSeq(Mapped(phi, s))

\* phi makes sequences of chunks.
Maps(phi, C, D) == phi \in [C -> Seq(D)]

\* An image has a place for each.
IsImage(ss, phi, s, D) ==
  /\ ss \in Seq(Seq(D)) /\ Len(ss) = Len(s)
  /\ \A i \in 1..Len(s) : ss[i] = phi[s[i]]

\* They are sequences.
LEMMA TotalFacts ==
  ASSUME NEW C, NEW D, NEW phi, Maps(phi, C, D), NEW s \in Seq(C)
  PROVE  IsImage(Mapped(phi, s), phi, s, D) /\ Total(phi, s) \in Seq(D)
<1> DEFINE ss == [i \in DOMAIN s |-> phi[s[i]]]
<1>1. Len(s) \in Nat /\ DOMAIN s = 1..Len(s) /\ \A i \in 1..Len(s) : s[i] \in C
  BY LenProperties, ElementOfSeq
<1>2. ss \in [1..Len(s) -> Seq(D)] /\ \A i \in 1..Len(s) : ss[i] = phi[s[i]]
  BY <1>1 DEF Maps
<1>3. Mapped(phi, s) = ss
  BY DEF Mapped
<1> HIDE DEF ss
<1>4. ss \in Seq(Seq(D)) /\ Len(ss) = Len(s)
  BY <1>1, <1>2, FunctionIsSeq
<1>5. FlattenSeq(ss) \in Seq(D)
  BY <1>4, FlattenType
<1> QED
  BY <1>2, <1>3, <1>4, <1>5 DEF Total, IsImage

\* Two halves can be taken one by one.
LEMMA TotalConcat ==
  ASSUME NEW C, NEW D, NEW phi, Maps(phi, C, D)
  PROVE  \A s, t \in Seq(C) : Total(phi, Joined(s, t)) = Joined(Total(phi, s), Total(phi, t))
<1> SUFFICES ASSUME NEW s \in Seq(C), NEW t \in Seq(C)
             PROVE  Total(phi, Joined(s, t)) = Joined(Total(phi, s), Total(phi, t))
  OBVIOUS
<1> DEFINE u == Joined(s, t)
           fs == Mapped(phi, s) ft == Mapped(phi, t) fu == Mapped(phi, u) both == Joined(fs, ft)
<1>9. IsConcat(u, s, t, C)
  BY ConcatFacts DEF Joined
<1> HIDE DEF u
<1>1. /\ Len(s) \in Nat /\ Len(t) \in Nat
      /\ u \in Seq(C) /\ Len(u) = Len(s) + Len(t)
      /\ \A i \in 1..Len(s) : u[i] = s[i]
      /\ \A i \in 1..Len(t) : u[Len(s) + i] = t[i]
  BY <1>9, LenProperties DEF IsConcat
<1>7. IsImage(fs, phi, s, D) /\ IsImage(ft, phi, t, D) /\ IsImage(fu, phi, u, D)
  BY <1>1, TotalFacts
<1> HIDE DEF fs, ft, fu
<1>2. /\ fs \in Seq(Seq(D)) /\ Len(fs) = Len(s) /\ \A i \in 1..Len(s) : fs[i] = phi[s[i]]
      /\ ft \in Seq(Seq(D)) /\ Len(ft) = Len(t) /\ \A i \in 1..Len(t) : ft[i] = phi[t[i]]
      /\ fu \in Seq(Seq(D)) /\ Len(fu) = Len(u) /\ \A i \in 1..Len(u) : fu[i] = phi[u[i]]
  BY <1>7 DEF IsImage
<1>8. IsConcat(both, fs, ft, Seq(D))
  BY <1>2, ConcatFacts DEF Joined
<1> HIDE DEF both
<1>3. /\ both \in Seq(Seq(D)) /\ Len(both) = Len(fs) + Len(ft)
      /\ \A i \in 1..Len(fs) : both[i] = fs[i]
      /\ \A i \in 1..Len(ft) : both[Len(fs) + i] = ft[i]
  BY <1>8 DEF IsConcat
<1>4. ASSUME NEW i \in 1..Len(fu) PROVE fu[i] = both[i]
  <2>1. CASE i \in 1..Len(s)
    <3>1. i \in 1..Len(u)
      BY <1>1, <1>2
    <3>2. fu[i] = phi[u[i]] /\ fs[i] = phi[s[i]] /\ both[i] = fs[i] /\ u[i] = s[i]
      BY <1>1, <1>2, <1>3, <2>1, <3>1
    <3> QED
      BY <3>2
  <2>2. CASE i \notin 1..Len(s)
    <3>1. PICK j \in 1..Len(t) : i = Len(s) + j /\ i \in 1..Len(u)
      <4>1. i - Len(s) \in 1..Len(t) /\ i = Len(s) + (i - Len(s)) /\ i \in 1..Len(u)
        BY <1>1, <1>2, <2>2
      <4> QED
        BY <4>1
    <3>2. both[i] = ft[j] /\ u[i] = t[j]
      BY <1>1, <1>2, <1>3, <3>1
    <3>3. fu[i] = phi[u[i]] /\ ft[j] = phi[t[j]]
      BY <1>2, <3>1
    <3> QED
      BY <3>2, <3>3
  <2> QED
    BY <2>1, <2>2
<1>5. fu = both
  <2>1. Len(fu) = Len(both)
    BY <1>1, <1>2, <1>3
  <2> QED
    BY <1>2, <1>3, <1>4, <2>1, SeqEqual
<1>6. FlattenSeq(both) = Joined(FlattenSeq(fs), FlattenSeq(ft))
  BY <1>2, FlattenConcat DEF both
<1> QED
  BY <1>5, <1>6 DEF Total, fs, ft, fu, u

\* Of nothing there is nothing, of one its own, and one more adds its own.
LEMMA TotalSmall ==
  ASSUME NEW C, NEW D, NEW phi, Maps(phi, C, D)
  PROVE  /\ Total(phi, <<>>) = <<>>
         /\ \A c \in C : One(c) \in Seq(C) /\ Total(phi, One(c)) = phi[c]
<1>1. Total(phi, <<>>) = <<>>
  BY DEF Total, Mapped, FlattenSeq
<1>2. ASSUME NEW c \in C PROVE One(c) \in Seq(C) /\ Total(phi, One(c)) = phi[c]
  <2>1. Mapped(phi, <<c>>) = <<phi[c]>>
    BY DEF Mapped
  <2>2. FlattenSeq(<<phi[c]>>) = phi[c]
    BY FlattenOne DEF Maps
  <2> QED
    BY <2>1, <2>2 DEF Total, One
<1> QED
  BY <1>1, <1>2

\* One more in front adds its own in front, one more behind behind.
LEMMA TotalEnds ==
  ASSUME NEW C, NEW D, NEW phi, Maps(phi, C, D)
  PROVE  \A s \in Seq(C), c \in C :
           /\ Total(phi, Joined(One(c), s)) = Joined(phi[c], Total(phi, s))
           /\ Total(phi, Joined(s, One(c))) = Joined(Total(phi, s), phi[c])
<1> SUFFICES ASSUME NEW s \in Seq(C), NEW c \in C
             PROVE  /\ Total(phi, Joined(One(c), s)) = Joined(phi[c], Total(phi, s))
                    /\ Total(phi, Joined(s, One(c))) = Joined(Total(phi, s), phi[c])
  OBVIOUS
<1>1. One(c) \in Seq(C) /\ Total(phi, One(c)) = phi[c]
  BY TotalSmall
<1>2. \A x, y \in Seq(C) : Total(phi, Joined(x, y)) = Joined(Total(phi, x), Total(phi, y))
  BY TotalConcat
<1>3. Total(phi, Joined(One(c), s)) = Joined(Total(phi, One(c)), Total(phi, s))
  BY <1>1, <1>2, Zenon
<1>4. Total(phi, Joined(s, One(c))) = Joined(Total(phi, s), Total(phi, One(c)))
  BY <1>1, <1>2, Zenon
<1> QED
  BY <1>1, <1>3, <1>4

\* One more in front or behind.
LEMMA EndsTyped ==
  ASSUME NEW C, NEW s \in Seq(C), NEW c \in C
  PROVE  /\ Joined(One(c), s) \in Seq(C) /\ Len(Joined(One(c), s)) = Len(s) + 1
         /\ Joined(s, One(c)) \in Seq(C) /\ Len(Joined(s, One(c))) = Len(s) + 1
<1> DEFINE one == <<c>>
<1>1. one \in Seq(C) /\ Len(one) = 1 /\ Len(s) \in Nat
  BY LenProperties
<1> HIDE DEF one
<1>2. /\ one \o s \in Seq(C) /\ Len(one \o s) = Len(one) + Len(s)
      /\ s \o one \in Seq(C) /\ Len(s \o one) = Len(s) + Len(one)
  BY <1>1, ConcatProperties
<1> QED
  BY <1>1, <1>2 DEF Joined, One, one

-----------------------------------------------------------------------------
(* Documents: the merging of chunks.                                       *)

\* Chunks with a size, of which any two can be merged.
Mergeable(C) == \A a, b \in C : a.tokens \in Nat /\ Merge(a, b) \in C

\* g[k] is the first k chunks in one.
GroupedAs(g, cs, C) ==
  /\ g \in [1..Len(cs) -> C] /\ g[1] = cs[1]
  /\ \A k \in 2..Len(cs) : g[k] = Merge(g[k - 1], cs[k])

\* The first chunks of a document can be merged.
LEMMA GroupedFacts ==
  ASSUME NEW C, Mergeable(C), NEW cs \in Seq(C), cs # <<>>
  PROVE  GroupedAs(Grouped(cs), cs, C)
<1> DEFINE n == Len(cs) m == n - 1 first == cs[1]
           F == [x \in C \X (1..m) |-> Merge(x[1], cs[x[2] + 1])]
           Equal(f) == f = [k \in DOMAIN cs |-> IF k = 1 THEN cs[1] ELSE Merge(f[k - 1], cs[k])]
           all == CHOOSE f : Equal(f)
<1>1. Grouped(cs) = all
  BY DEF Grouped
<1>2. n \in Nat /\ n > 0 /\ cs \in [1..n -> C] /\ DOMAIN cs = 1..n
  BY LenProperties, EmptySeq
<1>3. m \in Nat /\ first \in C /\ 1 \in 1..n /\ \A i \in 1..m : cs[i + 1] \in C
  BY <1>2
<1>4. F \in [C \X (1..m) -> C] /\ \A x \in C, i \in 1..m : F[<<x, i>>] = Merge(x, cs[i + 1])
  BY <1>3 DEF Mergeable
<1> HIDE DEF F, n
<1>5. PICK g : Chained(g, C, first, m, F)
  <2> HIDE DEF m, first
  <2> QED
    BY <1>3, <1>4, Chain
<1>6. g \in [0..m -> C] /\ g[0] = first /\ \A i \in 1..m : g[i] = F[<<g[i - 1], i>>]
  BY <1>5 DEF Chained
<1> DEFINE h == [i \in 1..n |-> g[i - 1]]
<1>7. h \in [1..n -> C] /\ h[1] = cs[1] /\ \A i \in 1..n : h[i] = g[i - 1]
  <2>1. \A i \in 1..n : i - 1 \in 0..m
    BY <1>2
  <2> QED
    BY <1>3, <1>6, <2>1
<1>8. ASSUME NEW i \in 2..n PROVE h[i] = Merge(h[i - 1], cs[i])
  <2>1. i - 1 \in 1..m /\ i \in 1..n /\ i - 1 \in 1..n /\ i - 1 + 1 = i /\ g[i - 1 - 1] \in C
    BY <1>2, <1>6
  <2>2. g[i - 1] = Merge(g[i - 1 - 1], cs[i])
    BY <1>4, <1>6, <2>1
  <2> QED
    BY <1>7, <2>1, <2>2
<1>9. Equal(h)
  <2>1. h = [i \in 1..n |-> h[i]]
    OBVIOUS
  <2>2. \A i \in 1..n : h[i] = IF i = 1 THEN cs[1] ELSE Merge(h[i - 1], cs[i])
    <3> SUFFICES ASSUME NEW i \in 1..n PROVE h[i] = IF i = 1 THEN cs[1] ELSE Merge(h[i - 1], cs[i])
      OBVIOUS
    <3>1. CASE i = 1
      BY <1>7, <3>1
    <3>2. CASE i # 1
      <4>1. i \in 2..n
        BY <1>2, <3>2
      <4> QED
        BY <1>8, <3>2, <4>1
    <3> QED
      BY <3>1, <3>2
  <2> HIDE DEF h
  <2> QED
    BY <1>2, <2>1, <2>2
<1> HIDE DEF h
<1>10. Equal(all)
  <2> HIDE DEF Equal
  <2> QED
    BY <1>9
<1> HIDE DEF all
<1> DEFINE G == {i \in 0..n : i > 0 => all[i] = h[i]}
<1>11. 0 \in G
  BY <1>2
<1>12. \A i \in 1..n : all[i] = IF i = 1 THEN cs[1] ELSE Merge(all[i - 1], cs[i])
  BY <1>2, <1>10
<1>13. ASSUME NEW i \in 1..n, i - 1 \in G PROVE i \in G
  <2>1. all[i] = IF i = 1 THEN cs[1] ELSE Merge(all[i - 1], cs[i])
    BY <1>12
  <2>2. CASE i = 1
    BY <1>2, <1>7, <2>1, <2>2
  <2>3. CASE i # 1
    <3>1. i \in 2..n /\ i - 1 > 0
      BY <1>2, <2>3
    <3>2. all[i - 1] = h[i - 1]
      BY <1>13, <3>1
    <3>3. h[i] = Merge(h[i - 1], cs[i])
      BY <1>8, <3>1
    <3>4. all[i] = h[i]
      BY <2>1, <2>3, <3>2, <3>3
    <3> QED
      BY <1>2, <3>4
  <2> QED
    BY <2>2, <2>3
<1>14. \A i \in 0..n : i \in G
  <2> HIDE DEF G
  <2> QED
    BY <1>2, <1>11, <1>13, Upwards
<1>15. \A i \in 1..n : all[i] = h[i]
  <2> SUFFICES ASSUME NEW i \in 1..n PROVE all[i] = h[i]
    OBVIOUS
  <2>1. i \in 0..n /\ i > 0
    BY <1>2
  <2> QED
    BY <1>14, <2>1
<1>16. all = h
  <2>1. all = [i \in 1..n |-> IF i = 1 THEN cs[1] ELSE Merge(all[i - 1], cs[i])]
    BY <1>2, <1>10
  <2>2. all = [i \in 1..n |-> all[i]]
    BY <2>1, Zenon
  <2> QED
    BY <1>7, <1>15, <2>2
<1>17. GroupedAs(h, cs, C)
  <2>1. h[1] = cs[1] /\ h \in [1..n -> C]
    BY <1>7
  <2> QED
    BY <1>8, <2>1 DEF GroupedAs, n
<1> QED
  BY <1>1, <1>16, <1>17

\* Some chunks from the first one on, what they make, and what is left.
Took(rest, taken, m, more, C) ==
  /\ taken \in Seq(C) /\ more \in Seq(C) /\ m \in C
  /\ rest = Joined(taken, more) /\ Len(more) < Len(rest)
  /\ m \in ToSet(rest) \/ m.tokens <= MergeLimit
  /\ \E n \in 1..Len(rest) : taken = SubSeq(rest, 1, n) /\ m = Grouped(rest)[n]

\* A set of places has a greatest one.
LEMMA GreatestOf ==
  ASSUME NEW n \in Nat, NEW T \in SUBSET (1..n), T # {}
  PROVE  \E x \in T : \A y \in T : y <= x
<1> DEFINE S == {n - x : x \in T}
<1>1. S \in SUBSET Nat /\ S # {}
  <2>1. \A x \in T : n - x \in Nat
    OBVIOUS
  <2>2. PICK x \in T : TRUE
    OBVIOUS
  <2>3. n - x \in S
    OBVIOUS
  <2> QED
    BY <2>1, <2>3
<1> HIDE DEF S
<1>2. PICK z \in S : \A y \in S : z <= y
  BY <1>1, LeastNumber
<1>3. PICK x \in T : z = n - x
  BY DEF S
<1>4. \A y \in T : n - y \in S
  BY DEF S
<1>5. ASSUME NEW y \in T PROVE y <= x
  <2>1. z <= n - y
    BY <1>2, <1>4
  <2> QED
    BY <1>3, <2>1
<1> QED
  BY <1>5

\* A group is a beginning of the chunks, and more than one are kept to the limit.
LEMMA GroupSizeFacts ==
  ASSUME NEW C, Mergeable(C), NEW rest \in Seq(C), rest # <<>>
  PROVE  /\ GroupSize(rest) \in 1..Len(rest)
         /\ \A k \in 2..GroupSize(rest) : Fits(Grouped(rest)[k - 1], rest[k])
<1> DEFINE Joins(n) == \A k \in 2..n : /\ Undersized(rest[k])
                                       /\ Fits(Grouped(rest)[k - 1], rest[k])
           T == {n \in DOMAIN rest : Joins(n)}
           Largest(n) == Joins(n) /\ \A k \in DOMAIN rest : Joins(k) => k <= n
           size == CHOOSE n \in DOMAIN rest : Largest(n)
<1>1. GroupSize(rest) = size
  BY DEF GroupSize
<1>2. Len(rest) \in Nat /\ Len(rest) > 0 /\ DOMAIN rest = 1..Len(rest)
  BY LenProperties, EmptySeq
<1>3. Joins(1)
  OBVIOUS
<1> HIDE DEF Joins
<1>4. T \in SUBSET (1..Len(rest)) /\ T # {}
  BY <1>2, <1>3
<1>5. PICK x \in T : \A y \in T : y <= x
  <2> HIDE DEF T
  <2> QED
    BY <1>2, <1>4, GreatestOf
<1>6. x \in DOMAIN rest /\ Largest(x)
  BY <1>5
<1> HIDE DEF Largest
<1>7. size \in DOMAIN rest /\ Largest(size)
  BY <1>6
<1> HIDE DEF size
<1>8. Joins(size)
  BY <1>7 DEF Largest
<1> QED
  BY <1>1, <1>2, <1>7, <1>8 DEF Joins

\* What goes into a group is taken off the chunks.
LEMMA TookFacts ==
  ASSUME NEW C, Mergeable(C), NEW rest \in Seq(C), rest # <<>>
  PROVE  Took(rest, SubSeq(rest, 1, GroupSize(rest)), Grouped(rest)[GroupSize(rest)],
              SubSeq(rest, GroupSize(rest) + 1, Len(rest)), C)
<1> DEFINE n == GroupSize(rest) N == Len(rest) g == Grouped(rest)
           taken == SubSeq(rest, 1, n) more == SubSeq(rest, n + 1, N)
<1>1. N \in Nat /\ N > 0 /\ rest \in [1..N -> C] /\ DOMAIN rest = 1..N
  BY LenProperties, EmptySeq
<1>2. n \in 1..N /\ \A k \in 2..n : Fits(g[k - 1], rest[k])
  BY GroupSizeFacts
<1>3. GroupedAs(g, rest, C)
  BY GroupedFacts
<1> HIDE DEF n, g, N
<1>4. g \in [1..N -> C] /\ g[1] = rest[1] /\ \A k \in 2..N : g[k] = Merge(g[k - 1], rest[k])
  BY <1>3 DEF GroupedAs, N
<1>5. taken \in Seq(C) /\ more \in Seq(C) /\ Len(more) < N
  <2>1. n \in Int /\ N \in Int /\ n + 1 \in Int /\ 1 \in Int
    BY <1>1, <1>2
  <2>2. (\A i \in 1..n : rest[i] \in C) /\ (\A i \in n + 1..N : rest[i] \in C)
    BY <1>1, <1>2
  <2>3. Len(more) = IF n + 1 <= N THEN N - (n + 1) + 1 ELSE 0
    BY <2>1, <2>2, SubSeqProperties
  <2>4. taken \in Seq(C) /\ more \in Seq(C)
    BY <2>1, <2>2, SubSeqProperties
  <2> HIDE DEF taken, more
  <2> QED
    BY <1>1, <1>2, <2>3, <2>4
<1>6. rest = Joined(taken, more)
  <2>1. 1 \in 1..N + 1 /\ n \in 0..N /\ N \in n..N /\ 1 - 1 = 0
    BY <1>1, <1>2
  <2>2. SubSeq(rest, 1, n) \o SubSeq(rest, n + 1, N) = SubSeq(rest, 1, N)
    BY <2>1, ConcatAdjacentSubSeq DEF N
  <2>3. SubSeq(rest, 1, N) = rest
    BY SubSeqFull DEF N
  <2> QED
    BY <2>2, <2>3 DEF Joined
<1>7. g[n] \in ToSet(rest) \/ g[n].tokens <= MergeLimit
  <2>1. CASE n = 1
    <3>1. g[n] = rest[1] /\ 1 \in DOMAIN rest
      BY <1>1, <1>4, <2>1
    <3> QED
      BY <3>1 DEF ToSet
  <2>2. CASE n # 1
    <3>1. n \in 2..n /\ n \in 2..N
      BY <1>1, <1>2, <2>2
    <3>2. Fits(g[n - 1], rest[n]) /\ g[n] = Merge(g[n - 1], rest[n])
      BY <1>2, <1>4, <3>1
    <3>3. g[n].tokens = g[n - 1].tokens + DelimTokens + rest[n].tokens
      BY <3>2 DEF Merge
    <3> QED
      BY <3>2, <3>3 DEF Fits
  <2> QED
    BY <2>1, <2>2
<1>8. g[n] \in C
  BY <1>2, <1>4
<1>9. \E k \in 1..N : taken = SubSeq(rest, 1, k) /\ g[n] = g[k]
  BY <1>2
<1> HIDE DEF taken, more
<1>10. Took(rest, taken, g[n], more, C)
  BY <1>5, <1>6, <1>7, <1>8, <1>9 DEF Took, N, g
<1> QED
  BY <1>10 DEF taken, more, n, g, N

\* phi goes with merging.
Additive(phi, C) == \A a, b \in C : phi[Merge(a, b)] = Joined(phi[a], phi[b])

\* A group has all of what was taken.
LEMMA TookAll ==
  ASSUME NEW C, NEW D, Mergeable(C), NEW phi, Maps(phi, C, D), Additive(phi, C),
         NEW rest \in Seq(C), NEW taken, NEW m, NEW more, Took(rest, taken, m, more, C)
  PROVE  Total(phi, taken) = phi[m]
<1> DEFINE N == Len(rest) g == Grouped(rest)
           G == {k \in 0..N : k > 0 => Total(phi, SubSeq(rest, 1, k)) = phi[g[k]]}
<1>1. PICK n \in 1..N : taken = SubSeq(rest, 1, n) /\ m = g[n]
  BY DEF Took
<1>2. N \in Nat /\ N > 0 /\ rest \in [1..N -> C] /\ rest # <<>>
  BY <1>1, LenProperties, EmptySeq
<1>3. GroupedAs(g, rest, C)
  BY <1>2, GroupedFacts
<1> HIDE DEF g
<1>4. g \in [1..N -> C] /\ g[1] = rest[1] /\ \A k \in 2..N : g[k] = Merge(g[k - 1], rest[k])
  BY <1>3 DEF GroupedAs
<1>5. 0 \in G
  BY <1>2
<1>6. ASSUME NEW k \in 1..N, k - 1 \in G PROVE k \in G
  <2> DEFINE before == SubSeq(rest, 1, k - 1)
  <2>1. SubSeq(rest, 1, k) = Joined(before, One(rest[k]))
    <3>1. 1 \in 1..Len(rest) /\ k \in 1..Len(rest)
      BY <1>2
    <3> QED
      BY <3>1, SubSeqRecursiveSecond DEF Joined, One
  <2>2. before \in Seq(C) /\ rest[k] \in C
    <3>1. \A i \in 1..k - 1 : rest[i] \in C
      BY <1>2
    <3>2. 1 \in Int /\ k - 1 \in Int
      OBVIOUS
    <3> QED
      BY <1>2, <3>1, <3>2, SubSeqProperties
  <2>3. Total(phi, SubSeq(rest, 1, k)) = Joined(Total(phi, before), phi[rest[k]])
    <3> HIDE DEF before, G
    <3> QED
      <4>1. \A s \in Seq(C), c \in C : Total(phi, Joined(s, One(c))) = Joined(Total(phi, s), phi[c])
        BY TotalEnds
      <4> QED
        BY <2>1, <2>2, <4>1, Zenon
  <2> HIDE DEF N
  <2>4. CASE k = 1
    <3>1. before = <<>>
      BY <2>4, SubSeqEmpty
    <3>2. Total(phi, before) = <<>>
      BY <3>1, TotalSmall
    <3>3. Total(phi, SubSeq(rest, 1, k)) = phi[rest[k]]
      <4>1. phi[rest[k]] \in Seq(D)
        BY <2>2 DEF Maps
      <4>2. Joined(<<>>, phi[rest[k]]) = phi[rest[k]]
        BY <4>1, JoinedFacts
      <4> QED
        BY <2>3, <3>2, <4>2
    <3> QED
      BY <1>2, <1>4, <2>4, <3>3
  <2>5. CASE k # 1
    <3>1. k \in 2..N /\ k - 1 > 0 /\ k - 1 \in 1..N
      BY <1>2, <2>5
    <3>2. Total(phi, before) = phi[g[k - 1]]
      BY <1>6, <3>1
    <3>3. g[k] = Merge(g[k - 1], rest[k]) /\ g[k - 1] \in C
      BY <1>4, <3>1
    <3>4. phi[g[k]] = Joined(phi[g[k - 1]], phi[rest[k]])
      BY <2>2, <3>3 DEF Additive
    <3>5. Total(phi, SubSeq(rest, 1, k)) = phi[g[k]]
      BY <2>3, <3>2, <3>4
    <3> QED
      BY <1>2, <3>5
  <2> QED
    BY <2>4, <2>5
<1>7. \A k \in 0..N : k \in G
  <2> HIDE DEF G, N
  <2> QED
    BY <1>2, <1>5, <1>6, Upwards
<1>8. n \in G /\ n > 0
  BY <1>2, <1>7
<1> QED
  BY <1>1, <1>8

\* A chunk in front of the others.
Leads(c, more, rest, C) ==
  /\ c \in C /\ more \in Seq(C) /\ rest = Joined(One(c), more) /\ Len(rest) = Len(more) + 1
  /\ c = Head(rest) /\ more = Tail(rest)
\* A chunk behind the others.
Trails(front, c, out, C) ==
  /\ front \in Seq(C) /\ c \in C /\ out = Joined(front, One(c))
  /\ c = Last(out) /\ front = Front(out)

\* What one pass may have done.
Passed(rest, out, st, C) ==
  \E c, more : /\ Leads(c, more, rest, C) /\ ~Undersized(c)
               /\ st.rest = more /\ st.out = Joined(out, One(c))
Forward(rest, out, st, C) ==
  \E taken, m, more, c, tail :
    /\ Took(rest, taken, m, more, C) /\ Leads(c, tail, more, C) /\ Fits(m, c)
    /\ st.rest = Joined(One(Merge(m, c)), tail) /\ st.out = out
Backward(rest, out, st, C) ==
  \E taken, m, more, front, l :
    /\ Took(rest, taken, m, more, C) /\ Trails(front, l, out, C) /\ Fits(l, m)
    /\ st.rest = more /\ st.out = Joined(front, One(Merge(l, m)))
Closed(rest, out, st, C) ==
  \E taken, m, more :
    /\ Took(rest, taken, m, more, C)
    /\ Undersized(m) => out = <<>> \/ ~Fits(Last(out), m)
    /\ st.rest = more /\ st.out = Joined(out, One(m))

\* What is not empty has a first chunk and a last one.
LEMMA EndsFacts ==
  ASSUME NEW C, NEW s \in Seq(C), s # <<>>
  PROVE  Leads(Head(s), Tail(s), s, C) /\ Trails(Front(s), Last(s), s, C)
<1> DEFINE n == Len(s)
<1>1. n \in Nat /\ n > 0 /\ 1 \in 1..n /\ n \in 1..n /\ s[n] \in C
  BY LenProperties, EmptySeq, ElementOfSeq
<1>2. Head(s) \in C /\ Tail(s) \in Seq(C) /\ Len(Tail(s)) = n - 1 /\ Tail(s) = SubSeq(s, 2, n)
  BY HeadTailProperties, TailIsSubSeq
<1>3. SubSeq(s, 1, n) = s
  BY SubSeqFull
<1>4. SubSeq(s, 1, n) = <<s[1]>> \o SubSeq(s, 1 + 1, n)
  BY <1>1, SubSeqRecursiveFirst
<1>5. SubSeq(s, 1, n) = SubSeq(s, 1, n - 1) \o <<s[n]>>
  BY <1>1, SubSeqRecursiveSecond
<1>6. s[1] = Head(s) /\ 1 + 1 = 2
  BY <1>1, <1>3, HeadTailOfSubSeq
<1>7. SubSeq(s, 1, n - 1) \in Seq(C)
  <2>1. 1 \in Int /\ n - 1 \in Int /\ \A i \in 1..n - 1 : s[i] \in C
    BY <1>1, ElementOfSeq
  <2> QED
    BY <2>1, SubSeqProperties
<1>8. Len(s) = Len(Tail(s)) + 1
  BY <1>1, <1>2
<1>9. s = <<Head(s)>> \o Tail(s)
  BY <1>2, <1>3, <1>4, <1>6
<1>10. Leads(Head(s), Tail(s), s, C)
  BY <1>2, <1>8, <1>9 DEF Leads, Joined, One
<1>11. Trails(Front(s), Last(s), s, C)
  BY <1>1, <1>3, <1>5, <1>7 DEF Trails, Joined, One, Front, Last
<1> QED
  BY <1>10, <1>11

\* A pass does one of these.
LEMMA MergeUpCases ==
  ASSUME NEW C, Mergeable(C), NEW rest \in Seq(C), NEW out \in Seq(C)
  PROVE  \/ rest = <<>> /\ MergeUp(rest, out) = [rest |-> rest, out |-> out]
         \/ Passed(rest, out, MergeUp(rest, out), C)
         \/ Forward(rest, out, MergeUp(rest, out), C)
         \/ Backward(rest, out, MergeUp(rest, out), C)
         \/ Closed(rest, out, MergeUp(rest, out), C)
<1> DEFINE n == GroupSize(rest)
           merged == Grouped(rest)[n]
           more == SubSeq(rest, n + 1, Len(rest))
           taken == SubSeq(rest, 1, n)
           forward == Undersized(merged) /\ more # <<>> /\ Fits(merged, Head(more))
           backward == Undersized(merged) /\ out # <<>> /\ Fits(Last(out), merged)
           up == MergeUp(rest, out)
<1>1. up = CASE rest = <<>> -> [rest |-> rest, out |-> out]
             [] rest # <<>> /\ ~Undersized(Head(rest)) ->
                  [rest |-> Tail(rest), out |-> Append(out, Head(rest))]
             [] OTHER ->
                  CASE forward -> [rest |-> <<Merge(merged, Head(more))>> \o Tail(more), out |-> out]
                    [] ~forward /\ backward ->
                         [rest |-> more, out |-> Append(Front(out), Merge(Last(out), merged))]
                    [] OTHER -> [rest |-> more, out |-> Append(out, merged)]
  BY DEF MergeUp
<1>2. \A s \in Seq(C), c \in C : Append(s, c) = Joined(s, One(c))
  BY AppendIsConcat DEF Joined, One
<1>3. \A s \in Seq(C) : s # <<>> => Leads(Head(s), Tail(s), s, C) /\ Trails(Front(s), Last(s), s, C)
  BY EndsFacts
<1>4. CASE rest = <<>>
  <2> HIDE DEF forward, backward, merged, more
  <2> QED
    BY <1>1, <1>4
<1>5. CASE rest # <<>> /\ ~Undersized(Head(rest))
  <2>1. Leads(Head(rest), Tail(rest), rest, C)
    BY <1>3, <1>5
  <2>2. up = [rest |-> Tail(rest), out |-> Append(out, Head(rest))]
    <3> HIDE DEF forward, backward, merged, more, up
    <3> QED
      BY <1>1, <1>5
  <2>3. Append(out, Head(rest)) = Joined(out, One(Head(rest)))
    BY <1>2, <2>1 DEF Leads
  <2> HIDE DEF up
  <2>4. Passed(rest, out, up, C)
    BY <1>5, <2>1, <2>2, <2>3 DEF Passed
  <2> QED
    BY <2>4 DEF up
<1>6. CASE rest # <<>> /\ Undersized(Head(rest))
  <2>1. Took(rest, taken, merged, more, C)
    BY <1>6, TookFacts
  <2> HIDE DEF merged, more, taken
  <2>2. merged \in C /\ more \in Seq(C)
    BY <2>1 DEF Took
  <2>3. CASE forward
    <3>1. up = [rest |-> <<Merge(merged, Head(more))>> \o Tail(more), out |-> out]
      <4> HIDE DEF forward, backward, up
      <4> QED
        BY <1>1, <1>6, <2>3
    <3>2. Leads(Head(more), Tail(more), more, C) /\ Fits(merged, Head(more))
      BY <1>3, <2>2, <2>3
    <3> HIDE DEF up
    <3>3. Forward(rest, out, up, C)
      BY <2>1, <3>1, <3>2 DEF Forward, Joined, One
    <3> QED
      BY <3>3 DEF up
  <2>4. CASE ~forward /\ backward
    <3>1. up = [rest |-> more, out |-> Append(Front(out), Merge(Last(out), merged))]
      <4> HIDE DEF forward, backward, up
      <4> QED
        BY <1>1, <1>6, <2>4
    <3>2. Trails(Front(out), Last(out), out, C) /\ Fits(Last(out), merged)
      BY <1>3, <2>4
    <3>3. Append(Front(out), Merge(Last(out), merged)) = Joined(Front(out), One(Merge(Last(out), merged)))
      <4>1. Front(out) \in Seq(C) /\ Merge(Last(out), merged) \in C
        BY <2>2, <3>2 DEF Trails, Mergeable
      <4> QED
        BY <1>2, <4>1
    <3> HIDE DEF up
    <3>4. Backward(rest, out, up, C)
      BY <2>1, <3>1, <3>2, <3>3 DEF Backward
    <3> QED
      BY <3>4 DEF up
  <2>5. CASE ~forward /\ ~backward
    <3>1. up = [rest |-> more, out |-> Append(out, merged)]
      <4> HIDE DEF forward, backward, up
      <4> QED
        BY <1>1, <1>6, <2>5
    <3>2. Append(out, merged) = Joined(out, One(merged))
      BY <1>2, <2>2
    <3>3. Undersized(merged) => out = <<>> \/ ~Fits(Last(out), merged)
      BY <2>5
    <3> HIDE DEF up
    <3>4. Closed(rest, out, up, C)
      BY <2>1, <3>1, <3>2, <3>3 DEF Closed
    <3> QED
      BY <3>4 DEF up
  <2> QED
    BY <2>3, <2>4, <2>5
<1> QED
  BY <1>4, <1>5, <1>6

\* What the chunks of a pass come to.
AllOf(phi, st) == Joined(Total(phi, st.out), Total(phi, st.rest))

\* A pass loses nothing, adds nothing and moves nothing.
LEMMA PassKeepsAll ==
  ASSUME NEW C, NEW D, Mergeable(C), NEW phi, Maps(phi, C, D), Additive(phi, C),
         NEW rest \in Seq(C), NEW out \in Seq(C), NEW st, st = MergeUp(rest, out)
  PROVE  /\ st.rest \in Seq(C) /\ st.out \in Seq(C)
         /\ AllOf(phi, st) = Joined(Total(phi, out), Total(phi, rest))
<1> DEFINE Good == /\ st.rest \in Seq(C) /\ st.out \in Seq(C)
                   /\ AllOf(phi, st) = Joined(Total(phi, out), Total(phi, rest))
<1>1. \/ rest = <<>> /\ st = [rest |-> rest, out |-> out]
      \/ Passed(rest, out, st, C) \/ Forward(rest, out, st, C)
      \/ Backward(rest, out, st, C) \/ Closed(rest, out, st, C)
  BY MergeUpCases
<1>2. \A s \in Seq(C), c \in C :
        /\ Total(phi, Joined(One(c), s)) = Joined(phi[c], Total(phi, s))
        /\ Total(phi, Joined(s, One(c))) = Joined(Total(phi, s), phi[c])
  BY TotalEnds
<1>0. \A s \in Seq(C), c \in C : Joined(One(c), s) \in Seq(C) /\ Joined(s, One(c)) \in Seq(C)
  BY EndsTyped
<1>3. \A s \in Seq(C) : Total(phi, s) \in Seq(D)
  BY TotalFacts
<1>4. \A c \in C : phi[c] \in Seq(D)
  BY DEF Maps
<1>5. \A x, y, z \in Seq(D) : Joined(Joined(x, y), z) = Joined(x, Joined(y, z))
  BY JoinedFacts
<1>6. \A a, b \in C : Merge(a, b) \in C /\ phi[Merge(a, b)] = Joined(phi[a], phi[b])
  BY DEF Mergeable, Additive
<1>7. ASSUME NEW taken, NEW m, NEW more, Took(rest, taken, m, more, C)
      PROVE  /\ m \in C /\ more \in Seq(C)
             /\ Total(phi, rest) = Joined(phi[m], Total(phi, more))
  <2>1. taken \in Seq(C) /\ more \in Seq(C) /\ m \in C /\ rest = Joined(taken, more)
    BY <1>7 DEF Took
  <2>2. Total(phi, taken) = phi[m]
    BY <1>7, TookAll
  <2>3. \A s, t \in Seq(C) : Total(phi, Joined(s, t)) = Joined(Total(phi, s), Total(phi, t))
    BY TotalConcat
  <2> QED
    BY <2>1, <2>2, <2>3, Zenon
<1>8. CASE rest = <<>> /\ st = [rest |-> rest, out |-> out]
  <2>1. st.rest = rest /\ st.out = out
    BY <1>8
  <2>2. AllOf(phi, st) = Joined(Total(phi, out), Total(phi, rest))
    BY <2>1, Zenon DEF AllOf
  <2> QED
    BY <2>1, <2>2
<1>9. CASE Passed(rest, out, st, C)
  <2>1. PICK c, more : /\ Leads(c, more, rest, C)
                       /\ st.rest = more /\ st.out = Joined(out, One(c))
    BY <1>9 DEF Passed
  <2>2. c \in C /\ more \in Seq(C) /\ rest = Joined(One(c), more) /\ st.rest = more /\ st.out = Joined(out, One(c))
    BY <2>1 DEF Leads
  <2>3. /\ Total(phi, st.out) = Joined(Total(phi, out), phi[c])
        /\ Total(phi, rest) = Joined(phi[c], Total(phi, more))
    BY <1>2, <2>2
  <2>4. Joined(Joined(Total(phi, out), phi[c]), Total(phi, more))
        = Joined(Total(phi, out), Joined(phi[c], Total(phi, more)))
    BY <1>3, <1>4, <1>5, <2>2
  <2>5. st.rest \in Seq(C) /\ st.out \in Seq(C)
    BY <1>0, <2>2
  <2> QED
    BY <2>2, <2>3, <2>4, <2>5 DEF AllOf
<1>10. CASE Forward(rest, out, st, C)
  <2>1. PICK taken, m, more, c, tail :
          /\ Took(rest, taken, m, more, C) /\ Leads(c, tail, more, C)
          /\ st.rest = Joined(One(Merge(m, c)), tail) /\ st.out = out
    BY <1>10 DEF Forward
  <2>2. /\ m \in C /\ more \in Seq(C) /\ Total(phi, rest) = Joined(phi[m], Total(phi, more))
    BY <1>7, <2>1
  <2>3. /\ c \in C /\ tail \in Seq(C) /\ more = Joined(One(c), tail)
        /\ st.rest = Joined(One(Merge(m, c)), tail) /\ st.out = out
    BY <2>1 DEF Leads
  <2>4. Total(phi, more) = Joined(phi[c], Total(phi, tail))
    BY <1>2, <2>3
  <2>5. Merge(m, c) \in C /\ phi[Merge(m, c)] = Joined(phi[m], phi[c])
    BY <1>6, <2>2, <2>3
  <2>6. Total(phi, st.rest) = Joined(Joined(phi[m], phi[c]), Total(phi, tail))
    BY <1>2, <2>3, <2>5
  <2>8. st.rest \in Seq(C)
    BY <1>0, <2>3, <2>5
  <2>7. Joined(Joined(phi[m], phi[c]), Total(phi, tail)) = Joined(phi[m], Joined(phi[c], Total(phi, tail)))
    BY <1>3, <1>4, <1>5, <2>2, <2>3
  <2> QED
    BY <2>2, <2>3, <2>4, <2>6, <2>7, <2>8 DEF AllOf
<1>11. CASE Backward(rest, out, st, C)
  <2>1. PICK taken, m, more, front, l :
          /\ Took(rest, taken, m, more, C) /\ Trails(front, l, out, C)
          /\ st.rest = more /\ st.out = Joined(front, One(Merge(l, m)))
    BY <1>11 DEF Backward
  <2>2. /\ m \in C /\ more \in Seq(C) /\ Total(phi, rest) = Joined(phi[m], Total(phi, more))
    BY <1>7, <2>1
  <2>3. /\ l \in C /\ front \in Seq(C) /\ out = Joined(front, One(l))
        /\ st.rest = more /\ st.out = Joined(front, One(Merge(l, m)))
    BY <2>1 DEF Trails
  <2>4. Total(phi, out) = Joined(Total(phi, front), phi[l])
    BY <1>2, <2>3
  <2>5. Merge(l, m) \in C /\ phi[Merge(l, m)] = Joined(phi[l], phi[m])
    BY <1>6, <2>2, <2>3
  <2>6. Total(phi, st.out) = Joined(Total(phi, front), Joined(phi[l], phi[m]))
    BY <1>2, <2>3, <2>5
  <2>13. st.out \in Seq(C)
    BY <1>0, <2>3, <2>5
  <2> DEFINE F == Total(phi, front) L == phi[l] M == phi[m] R == Total(phi, more)
  <2>7. F \in Seq(D) /\ L \in Seq(D) /\ M \in Seq(D) /\ R \in Seq(D) /\ Joined(F, L) \in Seq(D)
    BY <1>3, <1>4, <2>2, <2>3, JoinedFacts
  <2>8. AllOf(phi, st) = Joined(Joined(F, Joined(L, M)), R)
    BY <2>3, <2>6 DEF AllOf
  <2>9. Joined(Total(phi, out), Total(phi, rest)) = Joined(Joined(F, L), Joined(M, R))
    BY <2>2, <2>4
  <2> HIDE DEF F, L, M, R
  <2>10. Joined(F, Joined(L, M)) = Joined(Joined(F, L), M)
    BY <1>5, <2>7
  <2>11. Joined(Joined(Joined(F, L), M), R) = Joined(Joined(F, L), Joined(M, R))
    BY <1>5, <2>7
  <2>12. AllOf(phi, st) = Joined(Total(phi, out), Total(phi, rest))
    BY <2>8, <2>9, <2>10, <2>11
  <2> QED
    BY <2>2, <2>3, <2>12, <2>13
<1>12. CASE Closed(rest, out, st, C)
  <2>1. PICK taken, m, more : /\ Took(rest, taken, m, more, C)
                              /\ st.rest = more /\ st.out = Joined(out, One(m))
    BY <1>12 DEF Closed
  <2>2. /\ m \in C /\ more \in Seq(C) /\ Total(phi, rest) = Joined(phi[m], Total(phi, more))
        /\ st.rest = more /\ st.out = Joined(out, One(m))
    BY <1>7, <2>1
  <2>3. Total(phi, st.out) = Joined(Total(phi, out), phi[m])
    BY <1>2, <2>2
  <2>4. Joined(Joined(Total(phi, out), phi[m]), Total(phi, more))
        = Joined(Total(phi, out), Joined(phi[m], Total(phi, more)))
    BY <1>3, <1>4, <1>5, <2>2
  <2>5. st.rest \in Seq(C) /\ st.out \in Seq(C)
    BY <1>0, <2>2
  <2> QED
    BY <2>2, <2>3, <2>4, <2>5 DEF AllOf
<1>13. Good
  BY <1>1, <1>8, <1>9, <1>10, <1>11, <1>12
<1> QED
  BY <1>13

\* A pass takes something off the rest.
LEMMA PassShortens ==
  ASSUME NEW C, Mergeable(C), NEW rest \in Seq(C), NEW out \in Seq(C), rest # <<>>
  PROVE  Len(MergeUp(rest, out).rest) < Len(rest)
<1> DEFINE st == MergeUp(rest, out)
<1>1. \/ Passed(rest, out, st, C) \/ Forward(rest, out, st, C)
      \/ Backward(rest, out, st, C) \/ Closed(rest, out, st, C)
  BY MergeUpCases
<1> HIDE DEF st
<1>2. Len(rest) \in Nat
  BY LenProperties
<1>3. ASSUME NEW taken, NEW m, NEW more, Took(rest, taken, m, more, C)
      PROVE  Len(more) < Len(rest) /\ Len(more) \in Nat
  <2>1. Len(more) < Len(rest) /\ more \in Seq(C)
    BY <1>3 DEF Took
  <2> QED
    BY <2>1, LenProperties
<1>4. CASE Passed(rest, out, st, C)
  <2>1. PICK c, more : /\ Leads(c, more, rest, C)
                       /\ st.rest = more /\ st.out = Joined(out, One(c))
    BY <1>4 DEF Passed
  <2>2. Len(rest) = Len(more) + 1 /\ more \in Seq(C) /\ st.rest = more
    BY <2>1 DEF Leads
  <2>3. Len(more) \in Nat
    BY <2>2, LenProperties
  <2> QED
    BY <2>2, <2>3 DEF st
<1>5. CASE Forward(rest, out, st, C)
  <2>1. PICK taken, m, more, c, tail :
          /\ Took(rest, taken, m, more, C) /\ Leads(c, tail, more, C)
          /\ st.rest = Joined(One(Merge(m, c)), tail) /\ st.out = out
    BY <1>5 DEF Forward
  <2>2. Len(more) < Len(rest) /\ Len(more) \in Nat
    BY <1>3, <2>1
  <2>3. c \in C /\ tail \in Seq(C) /\ Len(more) = Len(tail) + 1 /\ m \in C
    BY <2>1 DEF Leads, Took
  <2>4. Merge(m, c) \in C
    BY <2>3 DEF Mergeable
  <2>6. Len(Joined(One(Merge(m, c)), tail)) = Len(tail) + 1
    BY <2>3, <2>4, EndsTyped
  <2>7. st.rest = Joined(One(Merge(m, c)), tail) /\ Len(tail) \in Nat
    BY <2>1, <2>3, LenProperties
  <2> QED
    BY <1>2, <2>2, <2>3, <2>6, <2>7 DEF st
<1>6. CASE Backward(rest, out, st, C)
  <2>1. PICK taken, m, more, front, l :
          /\ Took(rest, taken, m, more, C)
          /\ st.rest = more /\ st.out = Joined(front, One(Merge(l, m)))
    BY <1>6 DEF Backward
  <2> QED
    BY <1>3, <2>1 DEF st
<1>7. CASE Closed(rest, out, st, C)
  <2>1. PICK taken, m, more : /\ Took(rest, taken, m, more, C)
                              /\ st.rest = more /\ st.out = Joined(out, One(m))
    BY <1>7 DEF Closed
  <2> QED
    BY <1>3, <2>1 DEF st
<1> QED
  BY <1>1, <1>4, <1>5, <1>6, <1>7

\* The halves of a sequence are made of what it is made of.
LEMMA PartsIn ==
  ASSUME NEW C, NEW K, NEW s \in Seq(C), NEW t \in Seq(C), NEW u, u = Joined(s, t), u \in Seq(K)
  PROVE  s \in Seq(K) /\ t \in Seq(K)
<1>1. IsConcat(u, s, t, C)
  BY ConcatFacts DEF Joined
<1>2. /\ Len(u) = Len(s) + Len(t)
      /\ \A i \in 1..Len(s) : u[i] = s[i]
      /\ \A i \in 1..Len(t) : u[Len(s) + i] = t[i]
  BY <1>1 DEF IsConcat
<1>3. /\ Len(s) \in Nat /\ s = [i \in 1..Len(s) |-> s[i]]
      /\ Len(t) \in Nat /\ t = [i \in 1..Len(t) |-> t[i]]
  BY LenProperties
<1>4. \A i \in 1..Len(u) : u[i] \in K
  BY ElementOfSeq
<1>5. ASSUME NEW i \in 1..Len(s) PROVE s[i] \in K
  <2>1. i \in 1..Len(u)
    BY <1>2, <1>3
  <2> QED
    BY <1>2, <1>4, <2>1
<1>6. ASSUME NEW i \in 1..Len(t) PROVE t[i] \in K
  <2>1. PICK j \in 1..Len(u) : j = Len(s) + i
    BY <1>2, <1>3
  <2>2. u[j] = t[i]
    BY <1>2, <2>1
  <2> QED
    BY <1>4, <2>2
<1>7. s \in [1..Len(s) -> K] /\ t \in [1..Len(t) -> K]
  BY <1>3, <1>5, <1>6
<1> QED
  BY <1>3, <1>7, FunctionIsSeq

\* Chunks of B, and those within the limit.
Limited(C, B) == {c \in C : c \in B \/ c.tokens <= MergeLimit}

\* What fits is within the limit.
LEMMA FitsLimited ==
  ASSUME NEW C, Mergeable(C), NEW B, NEW a \in C, NEW b \in C, Fits(a, b)
  PROVE  Merge(a, b) \in Limited(C, B)
<1>1. Merge(a, b) \in C
  BY DEF Mergeable
<1>2. Merge(a, b).tokens = a.tokens + DelimTokens + b.tokens
  BY DEF Merge
<1> QED
  BY <1>1, <1>2 DEF Fits, Limited

\* A pass keeps to the limit where it merges.
LEMMA PassKeepsLimit ==
  ASSUME NEW C, Mergeable(C), NEW B, NEW rest \in Seq(Limited(C, B)), NEW out \in Seq(Limited(C, B)),
         NEW st, st = MergeUp(rest, out)
  PROVE  st.rest \in Seq(Limited(C, B)) /\ st.out \in Seq(Limited(C, B))
<1> DEFINE K == Limited(C, B)
<1>1. K \subseteq C /\ rest \in Seq(K) /\ out \in Seq(K)
  BY DEF Limited
<1>2. \A c \in C : c.tokens <= MergeLimit => c \in K
  BY DEF Limited
<1>3. \A a, b \in C : Fits(a, b) => Merge(a, b) \in K
  BY FitsLimited
<1> HIDE DEF K
<1>4. rest \in Seq(C) /\ out \in Seq(C)
  BY <1>1
<1>5. \/ rest = <<>> /\ st = [rest |-> rest, out |-> out]
      \/ Passed(rest, out, st, C) \/ Forward(rest, out, st, C)
      \/ Backward(rest, out, st, C) \/ Closed(rest, out, st, C)
  BY <1>4, MergeUpCases
<1>6. \A s \in Seq(K), c \in K : Joined(One(c), s) \in Seq(K) /\ Joined(s, One(c)) \in Seq(K)
  BY EndsTyped
<1>7. \A c : One(c) \in Seq(K) => c \in K
  BY DEF One
<1>8. \A c \in C : One(c) \in Seq(C)
  BY DEF One
<1>9. ASSUME NEW taken, NEW m, NEW more, Took(rest, taken, m, more, C)
      PROVE  m \in K /\ more \in Seq(K)
  <2>1. /\ taken \in Seq(C) /\ more \in Seq(C) /\ m \in C /\ rest = Joined(taken, more)
        /\ m \in ToSet(rest) \/ m.tokens <= MergeLimit
    BY <1>9 DEF Took
  <2>2. more \in Seq(K)
    BY <1>1, <2>1, PartsIn
  <2>3. m \in ToSet(rest) => m \in K
    BY <1>1, LenProperties, ElementOfSeq DEF ToSet
  <2> QED
    BY <1>2, <2>1, <2>2, <2>3
<1>10. CASE rest = <<>> /\ st = [rest |-> rest, out |-> out]
  <2>1. st.rest = rest /\ st.out = out
    BY <1>10
  <2> QED
    BY <1>1, <2>1 DEF K
<1>11. CASE Passed(rest, out, st, C)
  <2>1. PICK c, more : Leads(c, more, rest, C) /\ st.rest = more /\ st.out = Joined(out, One(c))
    BY <1>11 DEF Passed
  <2>2. c \in C /\ more \in Seq(C) /\ rest = Joined(One(c), more)
    BY <2>1 DEF Leads
  <2>3. One(c) \in Seq(K) /\ more \in Seq(K)
    BY <1>1, <1>8, <2>2, PartsIn
  <2>4. c \in K
    BY <1>7, <2>3
  <2>5. Joined(out, One(c)) \in Seq(K)
    BY <1>1, <1>6, <2>4
  <2> QED
    BY <2>1, <2>3, <2>5 DEF K
<1>12. CASE Forward(rest, out, st, C)
  <2>1. PICK taken, m, more, c, tail :
          /\ Took(rest, taken, m, more, C) /\ Leads(c, tail, more, C) /\ Fits(m, c)
          /\ st.rest = Joined(One(Merge(m, c)), tail) /\ st.out = out
    BY <1>12 DEF Forward
  <2>2. m \in K /\ more \in Seq(K)
    BY <1>9, <2>1
  <2>3. c \in C /\ tail \in Seq(C) /\ more = Joined(One(c), tail)
    BY <2>1 DEF Leads
  <2>4. tail \in Seq(K)
    BY <1>8, <2>2, <2>3, PartsIn
  <2>5. Merge(m, c) \in K
    BY <1>1, <1>3, <2>1, <2>2, <2>3
  <2>6. Joined(One(Merge(m, c)), tail) \in Seq(K)
    BY <1>6, <2>4, <2>5
  <2> QED
    BY <1>1, <2>1, <2>6 DEF K
<1>13. CASE Backward(rest, out, st, C)
  <2>1. PICK taken, m, more, front, l :
          /\ Took(rest, taken, m, more, C) /\ Trails(front, l, out, C) /\ Fits(l, m)
          /\ st.rest = more /\ st.out = Joined(front, One(Merge(l, m)))
    BY <1>13 DEF Backward
  <2>2. m \in K /\ more \in Seq(K)
    BY <1>9, <2>1
  <2>3. l \in C /\ front \in Seq(C) /\ out = Joined(front, One(l))
    BY <2>1 DEF Trails
  <2>4. front \in Seq(K)
    BY <1>1, <1>8, <2>3, PartsIn
  <2>5. Merge(l, m) \in K
    BY <1>1, <1>3, <2>1, <2>2, <2>3
  <2>6. Joined(front, One(Merge(l, m))) \in Seq(K)
    BY <1>6, <2>4, <2>5
  <2> QED
    BY <2>1, <2>2, <2>6 DEF K
<1>14. CASE Closed(rest, out, st, C)
  <2>1. PICK taken, m, more : /\ Took(rest, taken, m, more, C)
                              /\ st.rest = more /\ st.out = Joined(out, One(m))
    BY <1>14 DEF Closed
  <2>2. m \in K /\ more \in Seq(K)
    BY <1>9, <2>1
  <2>3. Joined(out, One(m)) \in Seq(K)
    BY <1>1, <1>6, <2>2
  <2> QED
    BY <2>1, <2>2, <2>3 DEF K
<1> QED
  BY <1>5, <1>10, <1>11, <1>12, <1>13, <1>14

\* Two that could have been one, and a sequence without such neighbours.
Could(a, b) == Undersized(a) /\ Undersized(b) /\ Fits(a, b)
Apart(s) == \A i \in 1..Len(s) - 1 : ~Could(s[i], s[i + 1])

\* One more is apart if it is from the last one.
LEMMA ApartBehind ==
  ASSUME NEW C, NEW s \in Seq(C), NEW c \in C
  PROVE  Apart(Joined(s, One(c))) <=> Apart(s) /\ (s = <<>> \/ ~Could(Last(s), c))
<1> DEFINE n == Len(s) u == Joined(s, One(c))
<1>1. n \in Nat /\ (s = <<>> <=> n = 0)
  BY LenProperties, EmptySeq
<1>2. One(c) \in Seq(C) /\ Len(One(c)) = 1 /\ One(c)[1] = c
  BY DEF One
<1>3. IsConcat(u, s, One(c), C)
  BY <1>2, ConcatFacts DEF Joined
<1>4. Len(u) = n + 1 /\ (\A i \in 1..n : u[i] = s[i]) /\ u[n + 1] = c
  BY <1>2, <1>3 DEF IsConcat
<1>5. Last(s) = s[n]
  BY DEF Last
<1> HIDE DEF u, n
<1>6. ASSUME NEW i \in 1..n - 1 PROVE u[i] = s[i] /\ u[i + 1] = s[i + 1]
  <2>1. i \in 1..n /\ i + 1 \in 1..n
    BY <1>1
  <2> QED
    BY <1>4, <2>1
<1>7. ASSUME n # 0 PROVE u[n] = s[n] /\ n \in 1..n /\ n \in 1..Len(u) - 1
  <2>1. n \in 1..n /\ n \in 1..Len(u) - 1
    BY <1>1, <1>4, <1>7
  <2> QED
    BY <1>4, <2>1
<1>8. ASSUME Apart(u) PROVE Apart(s) /\ (s = <<>> \/ ~Could(Last(s), c))
  <2>1. \A i \in 1..Len(u) - 1 : ~Could(u[i], u[i + 1])
    BY <1>8 DEF Apart
  <2>2. ASSUME NEW i \in 1..n - 1 PROVE ~Could(s[i], s[i + 1])
    <3>1. i \in 1..Len(u) - 1
      BY <1>1, <1>4
    <3> QED
      BY <1>6, <2>1, <3>1
  <2>3. n # 0 => ~Could(s[n], c)
    BY <1>4, <1>7, <2>1
  <2> QED
    BY <1>1, <1>5, <2>2, <2>3 DEF Apart, n
<1>9. ASSUME Apart(s), s = <<>> \/ ~Could(Last(s), c) PROVE Apart(u)
  <2>1. \A i \in 1..n - 1 : ~Could(s[i], s[i + 1])
    BY <1>9 DEF Apart, n
  <2>2. ASSUME NEW i \in 1..Len(u) - 1 PROVE ~Could(u[i], u[i + 1])
    <3>1. CASE i = n
      <4>1. n # 0
        BY <1>1, <1>4, <3>1
      <4> QED
        BY <1>1, <1>4, <1>5, <1>7, <1>9, <3>1, <4>1
    <3>2. CASE i # n
      <4>1. i \in 1..n - 1
        BY <1>1, <1>4, <3>2
      <4> QED
        BY <1>6, <2>1, <4>1
    <3> QED
      BY <3>1, <3>2
  <2> QED
    BY <2>2 DEF Apart
<1> QED
  BY <1>8, <1>9 DEF u

\* What grows fits less.
LEMMA CouldBefore ==
  ASSUME NEW C, Mergeable(C), NEW f \in C, NEW l \in C, NEW m \in C, Could(f, Merge(l, m))
  PROVE  Could(f, l)
<1>1. f.tokens \in Nat /\ l.tokens \in Nat /\ m.tokens \in Nat
  BY DEF Mergeable
<1>2. Merge(l, m).tokens = l.tokens + DelimTokens + m.tokens
  BY DEF Merge
<1>3. DelimTokens \in Nat /\ MinTokens \in Nat /\ MergeLimit \in Nat
  <2>1. MinTokens * MergeMultiplier \in Nat
    BY ChunkingAssumption
  <2> QED
    BY <2>1, ChunkingAssumption DEF MergeLimit, Least
<1> QED
  BY <1>1, <1>2, <1>3 DEF Could, Undersized, Fits

\* A pass leaves no two that could have been one.
LEMMA PassKeepsApart ==
  ASSUME NEW C, Mergeable(C), NEW rest \in Seq(C), NEW out \in Seq(C), Apart(out),
         NEW st, st = MergeUp(rest, out)
  PROVE  Apart(st.out)
<1>1. \/ rest = <<>> /\ st = [rest |-> rest, out |-> out]
      \/ Passed(rest, out, st, C) \/ Forward(rest, out, st, C)
      \/ Backward(rest, out, st, C) \/ Closed(rest, out, st, C)
  BY MergeUpCases
<1>2. CASE rest = <<>> /\ st = [rest |-> rest, out |-> out]
  <2>1. st.out = out
    BY <1>2
  <2> QED
    BY <2>1
<1>3. CASE Passed(rest, out, st, C)
  <2>1. PICK c, more : Leads(c, more, rest, C) /\ ~Undersized(c) /\ st.out = Joined(out, One(c))
    BY <1>3 DEF Passed
  <2>2. c \in C /\ ~Could(Last(out), c)
    BY <2>1 DEF Leads, Could
  <2>3. Apart(Joined(out, One(c)))
    BY <2>2, ApartBehind
  <2> QED
    BY <2>1, <2>3
<1>4. CASE Forward(rest, out, st, C)
  <2>1. st.out = out
    BY <1>4 DEF Forward
  <2> QED
    BY <2>1
<1>5. CASE Backward(rest, out, st, C)
  <2>1. PICK taken, m, more, front, l :
          /\ Took(rest, taken, m, more, C) /\ Trails(front, l, out, C)
          /\ st.out = Joined(front, One(Merge(l, m)))
    BY <1>5 DEF Backward
  <2>2. m \in C /\ l \in C /\ front \in Seq(C) /\ out = Joined(front, One(l))
    BY <2>1 DEF Took, Trails
  <2>3. Apart(front) /\ (front = <<>> \/ ~Could(Last(front), l))
    BY <2>2, ApartBehind
  <2>4. front = <<>> \/ Last(front) \in C
    <3> SUFFICES ASSUME front # <<>> PROVE Last(front) \in C
      OBVIOUS
    <3>1. Len(front) \in 1..Len(front)
      BY <2>2, EmptySeq
    <3> QED
      BY <2>2, <3>1, ElementOfSeq DEF Last
  <2>5. front = <<>> \/ ~Could(Last(front), Merge(l, m))
    BY <2>2, <2>3, <2>4, CouldBefore
  <2>6. Merge(l, m) \in C
    BY <2>2 DEF Mergeable
  <2>7. Apart(Joined(front, One(Merge(l, m))))
    BY <2>2, <2>3, <2>5, <2>6, ApartBehind
  <2> QED
    BY <2>1, <2>7
<1>6. CASE Closed(rest, out, st, C)
  <2>1. PICK taken, m, more : /\ Took(rest, taken, m, more, C)
                              /\ Undersized(m) => out = <<>> \/ ~Fits(Last(out), m)
                              /\ st.out = Joined(out, One(m))
    BY <1>6 DEF Closed
  <2>2. m \in C
    BY <2>1 DEF Took
  <2>3. out = <<>> \/ ~Could(Last(out), m)
    BY <2>1 DEF Could
  <2>4. Apart(Joined(out, One(m)))
    BY <2>2, <2>3, ApartBehind
  <2> QED
    BY <2>1, <2>4
<1> QED
  BY <1>1, <1>2, <1>3, <1>4, <1>5, <1>6

\* What a pass starts from and ends with.
Passes(C) == [rest : Seq(C), out : Seq(C)]

\* A pass ends as it may start.
LEMMA PassType ==
  ASSUME NEW C, Mergeable(C), NEW rest \in Seq(C), NEW out \in Seq(C)
  PROVE  MergeUp(rest, out) \in Passes(C)
<1> DEFINE n == GroupSize(rest)
           merged == Grouped(rest)[n]
           more == SubSeq(rest, n + 1, Len(rest))
           up == MergeUp(rest, out)
           forward == Undersized(merged) /\ more # <<>> /\ Fits(merged, Head(more))
           backward == Undersized(merged) /\ out # <<>> /\ Fits(Last(out), merged)
<1>1. up = CASE rest = <<>> -> [rest |-> rest, out |-> out]
             [] rest # <<>> /\ ~Undersized(Head(rest)) ->
                  [rest |-> Tail(rest), out |-> Append(out, Head(rest))]
             [] OTHER ->
                  CASE forward -> [rest |-> <<Merge(merged, Head(more))>> \o Tail(more), out |-> out]
                    [] ~forward /\ backward ->
                         [rest |-> more, out |-> Append(Front(out), Merge(Last(out), merged))]
                    [] OTHER -> [rest |-> more, out |-> Append(out, merged)]
  BY DEF MergeUp
<1> HIDE DEF forward, backward, merged, more, up
<1>2. \E a, b : up = [rest |-> a, out |-> b]
  <2>1. CASE rest = <<>>
    BY <1>1, <2>1
  <2>2. CASE rest # <<>> /\ ~Undersized(Head(rest))
    BY <1>1, <2>2
  <2>3. CASE rest # <<>> /\ Undersized(Head(rest)) /\ forward
    BY <1>1, <2>3
  <2>4. CASE rest # <<>> /\ Undersized(Head(rest)) /\ ~forward /\ backward
    BY <1>1, <2>4
  <2>5. CASE rest # <<>> /\ Undersized(Head(rest)) /\ ~forward /\ ~backward
    BY <1>1, <2>5
  <2> QED
    BY <2>1, <2>2, <2>3, <2>4, <2>5
<1>3. PICK a, b : up = [rest |-> a, out |-> b]
  BY <1>2
<1>4. up.rest \in Seq(C) /\ up.out \in Seq(C)
  <2> DEFINE phi == [c \in C |-> <<>>]
  <2>1. Maps(phi, C, {}) /\ \A c \in C : phi[c] = <<>>
    BY EmptySeq DEF Maps
  <2>2. Additive(phi, C)
    <3>1. Joined(<<>>, <<>>) = <<>>
      BY DEF Joined
    <3> HIDE DEF phi
    <3> QED
      BY <2>1, <3>1 DEF Additive, Mergeable
  <2> HIDE DEF phi
  <2> QED
    BY <2>1, <2>2, PassKeepsAll DEF up
<1>5. up.rest = a /\ up.out = b
  BY <1>3
<1>6. up \in Passes(C)
  BY <1>3, <1>4, <1>5 DEF Passes
<1> QED
  BY <1>6 DEF up

\* The passes over a document, one after the other.
MergedBy(after, base, C) ==
  LET N == Len(base)
  IN  /\ N \in Nat /\ after \in [0..N -> Passes(C)]
      /\ after[0] = [rest |-> base, out |-> <<>>]
      /\ \A n \in 1..N : after[n] = MergeUp(after[n - 1].rest, after[n - 1].out)
      /\ Chunks(base) = after[N].out

\* They exist.
LEMMA ChunksFacts ==
  ASSUME NEW C, Mergeable(C), NEW base \in Seq(C)
  PROVE  \E after : MergedBy(after, base, C)
<1> DEFINE N == Len(base) first == [rest |-> base, out |-> <<>>]
           F == [x \in Passes(C) \X (1..N) |-> MergeUp(x[1].rest, x[1].out)]
           Equal(f) == f = [n \in 0..N |-> IF n = 0 THEN [rest |-> base, out |-> <<>>]
                                           ELSE MergeUp(f[n - 1].rest, f[n - 1].out)]
           after == CHOOSE f : Equal(f)
<1>1. Chunks(base) = after[N].out
  BY DEF Chunks
<1>2. N \in Nat /\ first \in Passes(C)
  BY LenProperties, EmptySeq DEF Passes
<1> HIDE DEF N
<1>3. \A x \in Passes(C) : MergeUp(x.rest, x.out) \in Passes(C)
  <2> SUFFICES ASSUME NEW x \in Passes(C) PROVE MergeUp(x.rest, x.out) \in Passes(C)
    OBVIOUS
  <2>1. x.rest \in Seq(C) /\ x.out \in Seq(C)
    BY DEF Passes
  <2> QED
    BY <2>1, PassType
<1>4. /\ F \in [Passes(C) \X (1..N) -> Passes(C)]
      /\ \A x \in Passes(C), n \in 1..N : F[<<x, n>>] = MergeUp(x.rest, x.out)
  BY <1>3
<1> HIDE DEF F
<1>5. \E f : Equal(f)
  <2> HIDE DEF first
  <2>1. PICK f : Chained(f, Passes(C), first, N, F)
    BY <1>2, <1>4, Chain
  <2>2. f \in [0..N -> Passes(C)] /\ f[0] = first /\ \A n \in 1..N : f[n] = F[<<f[n - 1], n>>]
    BY <2>1 DEF Chained
  <2>3. ASSUME NEW n \in 1..N PROVE f[n] = MergeUp(f[n - 1].rest, f[n - 1].out)
    <3>1. f[n - 1] \in Passes(C)
      BY <1>2, <2>2
    <3> QED
      BY <1>4, <2>2, <3>1
  <2>4. Equal(f)
    <3>1. f = [n \in 0..N |-> f[n]]
      BY <2>2
    <3>2. \A n \in 0..N : n = 0 \/ n \in 1..N
      BY <1>2
    <3> QED
      BY <2>2, <2>3, <3>1, <3>2 DEF first
  <2> QED
    BY <2>4
<1>6. Equal(after)
  BY <1>5
<1> HIDE DEF after
<1>7. after[0] = first /\ \A n \in 1..N : after[n] = MergeUp(after[n - 1].rest, after[n - 1].out)
  <2>1. 0 \in 0..N /\ \A n \in 1..N : n \in 0..N /\ n # 0
    BY <1>2
  <2>2. after[0] = first
    BY <1>6, <2>1
  <2>3. ASSUME NEW n \in 1..N PROVE after[n] = MergeUp(after[n - 1].rest, after[n - 1].out)
    BY <1>6, <2>1
  <2> QED
    BY <2>2, <2>3
<1> DEFINE G == {n \in 0..N : after[n] \in Passes(C)}
<1>8. 0 \in G /\ \A n \in 1..N : n - 1 \in G => n \in G
  <2>1. 0 \in G
    BY <1>2, <1>7
  <2>2. ASSUME NEW n \in 1..N, n - 1 \in G PROVE n \in G
    <3>1. MergeUp(after[n - 1].rest, after[n - 1].out) \in Passes(C)
      BY <1>3, <2>2
    <3> QED
      BY <1>2, <1>7, <3>1
  <2> QED
    BY <2>1, <2>2
<1>9. \A n \in 0..N : n \in G
  <2> HIDE DEF G
  <2> QED
    BY <1>2, <1>8, Upwards
<1>10. after \in [0..N -> Passes(C)]
  <2>1. after = [n \in 0..N |-> after[n]]
    BY <1>6
  <2> QED
    BY <1>9, <2>1
<1>11. MergedBy(after, base, C)
  BY <1>1, <1>2, <1>7, <1>10 DEF MergedBy, N
<1> QED
  BY <1>11

\* What each pass keeps, the last one has.
LEMMA ChunksKeep ==
  ASSUME NEW C, Mergeable(C), NEW base \in Seq(C), NEW I,
         [rest |-> base, out |-> <<>>] \in I,
         \A st \in Passes(C) : st \in I => MergeUp(st.rest, st.out) \in I
  PROVE  /\ Chunks(base) \in Seq(C)
         /\ \E st \in I : st \in Passes(C) /\ st.rest = <<>> /\ st.out = Chunks(base)
<1> DEFINE N == Len(base)
<1>1. PICK after : MergedBy(after, base, C)
  BY ChunksFacts
<1>2. /\ N \in Nat /\ after \in [0..N -> Passes(C)]
      /\ after[0] = [rest |-> base, out |-> <<>>]
      /\ \A n \in 1..N : after[n] = MergeUp(after[n - 1].rest, after[n - 1].out)
      /\ Chunks(base) = after[N].out
  BY <1>1 DEF MergedBy
<1> DEFINE G == {n \in 0..N : after[n] \in I /\ Len(after[n].rest) + n <= N}
<1>3. 0 \in G
  <2>1. after[0] \in I
    BY <1>2
  <2>2. after[0].rest = base
    BY <1>2
  <2>3. Len(after[0].rest) + 0 <= N
    BY <1>2, <2>2
  <2> QED
    BY <1>2, <2>1, <2>3
<1>4. ASSUME NEW n \in 1..N, n - 1 \in G PROVE n \in G
  <2> DEFINE st == after[n - 1] next == after[n]
  <2>1. st \in Passes(C) /\ next \in Passes(C) /\ next = MergeUp(st.rest, st.out)
        /\ st \in I /\ Len(st.rest) + (n - 1) <= N /\ n \in 0..N
    BY <1>2, <1>4
  <2> HIDE DEF st, next
  <2>2. next \in I
    BY <2>1
  <2>3. st.rest \in Seq(C) /\ st.out \in Seq(C) /\ next.rest \in Seq(C)
    BY <2>1 DEF Passes
  <2>4. Len(st.rest) \in Nat /\ Len(next.rest) \in Nat
    BY <2>3, LenProperties
  <2>5. Len(next.rest) + n <= N
    <3>1. CASE st.rest = <<>>
      <4>1. next.rest = <<>>
        <5>1. next = [rest |-> st.rest, out |-> st.out]
          BY <2>1, <3>1 DEF MergeUp
        <5> QED
          BY <3>1, <5>1
      <4>2. Len(next.rest) = 0
        BY <4>1
      <4> QED
        BY <1>2, <4>2
    <3>2. CASE st.rest # <<>>
      <4>1. Len(next.rest) < Len(st.rest)
        BY <2>1, <2>3, <3>2, PassShortens
      <4> QED
        BY <1>2, <2>1, <2>4, <4>1
    <3> QED
      BY <3>1, <3>2
  <2>6. after[n] \in I /\ Len(after[n].rest) + n <= N
    BY <2>2, <2>5 DEF next
  <2> QED
    BY <2>1, <2>6
<1>5. \A n \in 0..N : n \in G
  <2> HIDE DEF G, N
  <2> QED
    BY <1>2, <1>3, <1>4, Upwards
<1>6. after[N] \in I /\ Len(after[N].rest) + N <= N /\ after[N] \in Passes(C)
  <2>1. N \in 0..N
    BY <1>2
  <2>2. N \in G
    BY <1>5, <2>1
  <2> QED
    BY <1>2, <2>1, <2>2
<1>7. after[N].rest \in Seq(C) /\ after[N].out \in Seq(C)
  BY <1>6 DEF Passes
<1>8. after[N].rest = <<>>
  <2>1. Len(after[N].rest) \in Nat
    BY <1>7, LenProperties
  <2>2. Len(after[N].rest) = 0
    BY <1>2, <1>6, <2>1
  <2> QED
    BY <1>7, <2>2, EmptySeq
<1> QED
  BY <1>2, <1>6, <1>7, <1>8

\* Whatever goes with merging is the same after it, piece by piece.
LEMMA NothingLost ==
  ASSUME NEW C, NEW D, Mergeable(C), NEW phi, Maps(phi, C, D), Additive(phi, C), NEW base \in Seq(C)
  PROVE  Total(phi, Chunks(base)) = Total(phi, base)
<1> DEFINE I == {st \in Passes(C) : AllOf(phi, st) = Total(phi, base)}
           first == [rest |-> base, out |-> <<>>]
<1>1. Total(phi, <<>>) = <<>>
  BY TotalSmall
<1>2. \A s \in Seq(C) : Total(phi, s) \in Seq(D)
  BY TotalFacts
<1>3. \A x \in Seq(D) : Joined(x, <<>>) = x /\ Joined(<<>>, x) = x
  BY JoinedFacts
<1>4. first \in I
  <2>1. first \in Passes(C) /\ first.rest = base /\ first.out = <<>>
    BY EmptySeq DEF Passes
  <2> HIDE DEF first
  <2>2. AllOf(phi, first) = Total(phi, base)
    BY <1>1, <1>2, <1>3, <2>1 DEF AllOf
  <2> QED
    BY <2>1, <2>2
<1>5. ASSUME NEW st \in Passes(C), st \in I PROVE MergeUp(st.rest, st.out) \in I
  <2>1. st.rest \in Seq(C) /\ st.out \in Seq(C)
    BY DEF Passes
  <2>2. MergeUp(st.rest, st.out) \in Passes(C)
    BY <2>1, PassType
  <2>3. AllOf(phi, MergeUp(st.rest, st.out)) = Joined(Total(phi, st.out), Total(phi, st.rest))
    BY <2>1, PassKeepsAll
  <2>4. AllOf(phi, st) = Total(phi, base)
    BY <1>5
  <2>5. AllOf(phi, st) = Joined(Total(phi, st.out), Total(phi, st.rest))
    BY DEF AllOf
  <2> QED
    BY <2>2, <2>3, <2>4, <2>5
<1> HIDE DEF I
<1>6. \A st \in Passes(C) : st \in I => MergeUp(st.rest, st.out) \in I
  BY <1>5
<1>7. \E st \in I : st \in Passes(C) /\ st.rest = <<>> /\ st.out = Chunks(base)
  BY <1>4, <1>6, ChunksKeep
<1>8. PICK st \in I : st.rest = <<>> /\ st.out = Chunks(base) /\ st \in Passes(C)
  BY <1>7
<1>9. AllOf(phi, st) = Total(phi, base)
  BY DEF I
<1>10. Chunks(base) \in Seq(C)
  BY <1>8 DEF Passes
<1> QED
  BY <1>1, <1>2, <1>3, <1>8, <1>9, <1>10 DEF AllOf

\* Merging keeps to its limit.
LEMMA LimitKept ==
  ASSUME NEW C, Mergeable(C), NEW base \in Seq(C)
  PROVE  \A c \in ToSet(Chunks(base)) : c \notin ToSet(base) => c.tokens <= MergeLimit
<1> DEFINE K == Limited(C, ToSet(base))
           I == {st \in Passes(C) : st.rest \in Seq(K) /\ st.out \in Seq(K)}
           first == [rest |-> base, out |-> <<>>]
<1>1. Len(base) \in Nat /\ DOMAIN base = 1..Len(base) /\ base = [i \in 1..Len(base) |-> base[i]]
      /\ \A i \in 1..Len(base) : base[i] \in C
  BY LenProperties, ElementOfSeq
<1>2. base \in Seq(K)
  <2>1. \A i \in 1..Len(base) : base[i] \in K
    BY <1>1 DEF Limited, ToSet
  <2> HIDE DEF K
  <2>2. base \in [1..Len(base) -> K]
    BY <1>1, <2>1
  <2> QED
    BY <1>1, <2>2, FunctionIsSeq
<1> HIDE DEF K
<1>3. first \in I
  <2>1. first \in Passes(C) /\ first.rest = base /\ first.out = <<>>
    BY EmptySeq DEF Passes
  <2> QED
    BY <1>2, <2>1, EmptySeq
<1>4. ASSUME NEW st \in Passes(C), st \in I PROVE MergeUp(st.rest, st.out) \in I
  <2>1. st.rest \in Seq(C) /\ st.out \in Seq(C)
    BY DEF Passes
  <2>2. MergeUp(st.rest, st.out) \in Passes(C)
    BY <2>1, PassType
  <2>3. st.rest \in Seq(K) /\ st.out \in Seq(K)
    BY <1>4
  <2>4. MergeUp(st.rest, st.out).rest \in Seq(K) /\ MergeUp(st.rest, st.out).out \in Seq(K)
    BY <2>3, PassKeepsLimit DEF K
  <2> QED
    BY <2>2, <2>4
<1>5. \A st \in I : st.out \in Seq(K)
  OBVIOUS
<1> HIDE DEF I
<1>6. \A st \in Passes(C) : st \in I => MergeUp(st.rest, st.out) \in I
  BY <1>4
<1>7. \E st \in I : st \in Passes(C) /\ st.rest = <<>> /\ st.out = Chunks(base)
  BY <1>3, <1>6, ChunksKeep
<1>8. Chunks(base) \in Seq(K)
  BY <1>5, <1>7
<1>9. \A c \in ToSet(Chunks(base)) : c \in K
  BY <1>8, LenProperties, ElementOfSeq DEF ToSet
<1> QED
  BY <1>9 DEF K, Limited

\* No two neighbours could have been one.
LEMMA NeighboursApart ==
  ASSUME NEW C, Mergeable(C), NEW base \in Seq(C)
  PROVE  Apart(Chunks(base))
<1> DEFINE I == {st \in Passes(C) : Apart(st.out)}
           first == [rest |-> base, out |-> <<>>]
<1>1. first \in I
  <2>1. first \in Passes(C) /\ first.out = <<>>
    BY EmptySeq DEF Passes
  <2>2. Apart(<<>>)
    <3>1. Len(<<>>) - 1 < 1
      OBVIOUS
    <3> QED
      BY <3>1 DEF Apart
  <2> QED
    BY <2>1, <2>2
<1>2. ASSUME NEW st \in Passes(C), st \in I PROVE MergeUp(st.rest, st.out) \in I
  <2>1. st.rest \in Seq(C) /\ st.out \in Seq(C) /\ Apart(st.out)
    BY <1>2 DEF Passes
  <2>2. MergeUp(st.rest, st.out) \in Passes(C)
    BY <2>1, PassType
  <2>3. Apart(MergeUp(st.rest, st.out).out)
    BY <2>1, PassKeepsApart
  <2> QED
    BY <2>2, <2>3
<1>3. \A st \in I : Apart(st.out)
  OBVIOUS
<1> HIDE DEF I
<1>4. \A st \in Passes(C) : st \in I => MergeUp(st.rest, st.out) \in I
  BY <1>2
<1>5. \E st \in I : st \in Passes(C) /\ st.rest = <<>> /\ st.out = Chunks(base)
  BY <1>1, <1>4, ChunksKeep
<1> QED
  BY <1>3, <1>5

-----------------------------------------------------------------------------
(* Documents: placeholders and what fills them.                            *)

\* One word more is one placeholder more, or none.
LEMMA HolesStep ==
  ASSUME NEW text
  PROVE  /\ Holes(text, 0) = 0
         /\ \A n \in Nat : Holes(text, n) \in Nat
         /\ \A n \in Nat \ {0} :
              Holes(text, n) = Holes(text, n - 1) + IF text[n] = Image THEN 1 ELSE 0
<1> DEFINE P(n) == {i \in 1..n : text[i] = Image}
<1>1. \A n \in Nat : IsFiniteSet(P(n)) /\ Cardinality(P(n)) \in Nat
  <2> SUFFICES ASSUME NEW n \in Nat PROVE IsFiniteSet(P(n)) /\ Cardinality(P(n)) \in Nat
    OBVIOUS
  <2>1. IsFiniteSet(1..n) /\ P(n) \subseteq 1..n
    BY FS_Interval
  <2> QED
    BY <2>1, FS_Subset, FS_CardinalityType
<1>2. Holes(text, 0) = 0
  <2>1. P(0) = {}
    OBVIOUS
  <2> QED
    BY <2>1, FS_EmptySet DEF Holes
<1>3. ASSUME NEW n \in Nat \ {0}
      PROVE  Holes(text, n) = Holes(text, n - 1) + IF text[n] = Image THEN 1 ELSE 0
  <2>1. n - 1 \in Nat /\ n \notin P(n - 1)
    OBVIOUS
  <2>2. CASE text[n] = Image
    <3>1. P(n) = P(n - 1) \cup {n}
      BY <2>2
    <3>2. Cardinality(P(n - 1) \cup {n}) = Cardinality(P(n - 1)) + 1
      <4> HIDE DEF P
      <4> QED
        BY <1>1, <2>1, FS_AddElement
    <3> QED
      BY <2>2, <3>1, <3>2 DEF Holes
  <2>3. CASE text[n] # Image
    <3>1. P(n) = P(n - 1)
      BY <2>3
    <3>2. Cardinality(P(n)) = Cardinality(P(n - 1)) + 0
      <4>1. Cardinality(P(n)) = Cardinality(P(n - 1))
        BY <3>1
      <4>2. Cardinality(P(n - 1)) \in Nat
        BY <1>1, <2>1
      <4> HIDE DEF P
      <4> QED
        BY <4>1, <4>2
    <3> QED
      BY <2>3, <3>2 DEF Holes
  <2> QED
    BY <2>2, <2>3
<1> QED
  BY <1>1, <1>2, <1>3 DEF Holes

\* A placeholder is counted, and counts do not fall.
LEMMA HolesGrow ==
  ASSUME NEW text, NEW n \in Nat
  PROVE  \A i \in 1..n : /\ Holes(text, i) \in Nat /\ Holes(text, i) <= Holes(text, n)
                         /\ text[i] = Image => Holes(text, i) >= 1
<1>1. /\ \A k \in Nat : Holes(text, k) \in Nat
      /\ \A k \in Nat \ {0} : Holes(text, k) = Holes(text, k - 1) + IF text[k] = Image THEN 1 ELSE 0
  BY HolesStep
<1> SUFFICES ASSUME NEW i \in 1..n
             PROVE  /\ Holes(text, i) \in Nat /\ Holes(text, i) <= Holes(text, n)
                    /\ text[i] = Image => Holes(text, i) >= 1
  OBVIOUS
<1>2. text[i] = Image => Holes(text, i) >= 1
  <2>1. i \in Nat \ {0} /\ i - 1 \in Nat
    OBVIOUS
  <2> QED
    BY <1>1, <2>1
<1> DEFINE G == {k \in 0..n : i <= k => Holes(text, i) <= Holes(text, k)}
<1>3. 0 \in G
  OBVIOUS
<1>4. ASSUME NEW k \in 1..n, k - 1 \in G PROVE k \in G
  <2>1. k \in Nat \ {0} /\ k - 1 \in Nat /\ i \in Nat
    OBVIOUS
  <2>2. Holes(text, k - 1) <= Holes(text, k)
    BY <1>1, <2>1
  <2>3. CASE i <= k - 1
    <3>1. Holes(text, i) <= Holes(text, k - 1)
      BY <1>4, <2>3
    <3> QED
      BY <1>1, <2>1, <2>2, <3>1
  <2>4. CASE i = k
    BY <1>1, <2>4
  <2>5. CASE i > k
    BY <2>5
  <2> QED
    BY <2>1, <2>3, <2>4, <2>5
<1>5. \A k \in 0..n : k \in G
  <2> HIDE DEF G
  <2> QED
    BY <1>3, <1>4, Upwards
<1>6. Holes(text, i) <= Holes(text, n)
  <2>1. n \in G
    BY <1>5
  <2> QED
    BY <2>1
<1> QED
  BY <1>1, <1>2, <1>6

\* The placeholders of two texts are those of one and those of the other.
LEMMA HolesJoined ==
  ASSUME NEW W, NEW s \in Seq(W), NEW t \in Seq(W), NEW u, IsConcat(u, s, t, W)
  PROVE  /\ \A i \in 0..Len(s) : Holes(u, i) = Holes(s, i)
         /\ \A i \in 0..Len(t) : Holes(u, Len(s) + i) = Holes(s, Len(s)) + Holes(t, i)
<1> DEFINE n == Len(s) m == Len(t)
<1>1. n \in Nat /\ m \in Nat
  BY LenProperties
<1>2. (\A i \in 1..n : u[i] = s[i]) /\ (\A i \in 1..m : u[n + i] = t[i])
  BY DEF IsConcat
<1> HIDE DEF n, m
<1>3. \A text : /\ Holes(text, 0) = 0
                /\ \A k \in Nat : Holes(text, k) \in Nat
                /\ \A k \in Nat \ {0} :
                     Holes(text, k) = Holes(text, k - 1) + IF text[k] = Image THEN 1 ELSE 0
  BY HolesStep
<1> DEFINE G == {i \in 0..n : Holes(u, i) = Holes(s, i)}
<1>4. 0 \in G
  BY <1>1, <1>3
<1>5. ASSUME NEW i \in 1..n, i - 1 \in G PROVE i \in G
  <2>1. i \in Nat \ {0} /\ u[i] = s[i] /\ Holes(u, i - 1) = Holes(s, i - 1)
    BY <1>1, <1>2, <1>5
  <2>2. /\ Holes(u, i) = Holes(u, i - 1) + IF u[i] = Image THEN 1 ELSE 0
        /\ Holes(s, i) = Holes(s, i - 1) + IF s[i] = Image THEN 1 ELSE 0
    BY <1>3, <2>1
  <2>3. Holes(u, i) = Holes(s, i)
    BY <2>1, <2>2
  <2> QED
    BY <1>1, <2>3
<1>6. \A i \in 0..n : i \in G
  <2> HIDE DEF G
  <2> QED
    BY <1>1, <1>4, <1>5, Upwards
<1> DEFINE H == {i \in 0..m : Holes(u, n + i) = Holes(s, n) + Holes(t, i)}
<1>7. 0 \in H
  <2>1. n \in 0..n /\ n + 0 = n
    BY <1>1
  <2>2. Holes(u, n) = Holes(s, n) /\ Holes(t, 0) = 0 /\ Holes(s, n) \in Nat
    BY <1>1, <1>3, <1>6, <2>1
  <2>3. Holes(u, n + 0) = Holes(s, n) + Holes(t, 0)
    BY <2>1, <2>2
  <2> QED
    BY <1>1, <2>3
<1>8. ASSUME NEW i \in 1..m, i - 1 \in H PROVE i \in H
  <2>1. PICK j : j = n + i
    OBVIOUS
  <2>2. j \in Nat \ {0} /\ j - 1 = n + (i - 1) /\ u[j] = t[i] /\ i \in Nat \ {0} /\ i - 1 \in Nat
    BY <1>1, <1>2, <2>1
  <2>3. /\ Holes(u, j) = Holes(u, j - 1) + IF u[j] = Image THEN 1 ELSE 0
        /\ Holes(t, i) = Holes(t, i - 1) + IF t[i] = Image THEN 1 ELSE 0
    BY <1>3, <2>2
  <2>4. Holes(u, j - 1) = Holes(s, n) + Holes(t, i - 1)
    BY <1>8, <2>2
  <2>5. Holes(s, n) \in Nat /\ Holes(t, i - 1) \in Nat
    BY <1>1, <1>3, <2>2
  <2>6. Holes(u, j) = Holes(s, n) + Holes(t, i)
    <3>1. CASE t[i] = Image
      BY <2>2, <2>3, <2>4, <2>5, <3>1
    <3>2. CASE t[i] # Image
      BY <2>2, <2>3, <2>4, <2>5, <3>2
    <3> QED
      BY <3>1, <3>2
  <2> QED
    BY <1>1, <2>1, <2>6
<1>9. \A i \in 0..m : i \in H
  <2> HIDE DEF H
  <2> QED
    BY <1>1, <1>7, <1>8, Upwards
<1> QED
  BY <1>6, <1>9 DEF n, m

\* The references that are left after the first h.
After(refs, h) == SubSeq(refs, h + 1, Len(refs))

\* They are a sequence, as long as what is left.
LEMMA AfterFacts ==
  ASSUME NEW R, NEW refs \in Seq(R), NEW h \in Nat
  PROVE  /\ After(refs, h) \in Seq(R)
         /\ Len(After(refs, h)) = IF h <= Len(refs) THEN Len(refs) - h ELSE 0
         /\ \A k \in 1..Len(After(refs, h)) : After(refs, h)[k] = refs[h + k]
<1> DEFINE L == Len(refs)
<1>1. L \in Nat
  BY LenProperties
<1>2. h + 1 \in Int /\ L \in Int /\ \A i \in h + 1..L : refs[i] \in R
  <2>1. \A i \in h + 1..L : i \in 1..L
    BY <1>1
  <2> QED
    BY <1>1, <2>1, ElementOfSeq
<1> HIDE DEF L
<1>3. /\ SubSeq(refs, h + 1, L) \in Seq(R)
      /\ Len(SubSeq(refs, h + 1, L)) = IF h + 1 <= L THEN L - (h + 1) + 1 ELSE 0
      /\ \A k \in 1..L - (h + 1) + 1 : SubSeq(refs, h + 1, L)[k] = refs[h + 1 + k - 1]
  BY <1>2, SubSeqProperties
<1>4. Len(SubSeq(refs, h + 1, L)) = IF h <= L THEN L - h ELSE 0
  BY <1>1, <1>3
<1>5. ASSUME NEW k \in 1..Len(SubSeq(refs, h + 1, L)) PROVE SubSeq(refs, h + 1, L)[k] = refs[h + k]
  <2>1. k \in 1..L - (h + 1) + 1 /\ h + 1 + k - 1 = h + k
    BY <1>1, <1>4
  <2> QED
    BY <1>3, <2>1
<1> QED
  BY <1>3, <1>4, <1>5 DEF After, L

\* What is left of what is left, and after the first of two.
LEMMA AfterAfter ==
  ASSUME NEW R, NEW refs \in Seq(R), NEW h \in Nat, NEW k \in Nat
  PROVE  After(After(refs, h), k) = After(refs, h + k)
<1> DEFINE a == After(refs, h) b == After(a, k) c == After(refs, h + k)
<1>1. Len(refs) \in Nat /\ h + k \in Nat
  BY LenProperties
<1>2. /\ a \in Seq(R) /\ Len(a) = IF h <= Len(refs) THEN Len(refs) - h ELSE 0
      /\ \A i \in 1..Len(a) : a[i] = refs[h + i]
  BY AfterFacts
<1>3. /\ c \in Seq(R) /\ Len(c) = IF h + k <= Len(refs) THEN Len(refs) - (h + k) ELSE 0
      /\ \A i \in 1..Len(c) : c[i] = refs[h + k + i]
  BY <1>1, AfterFacts
<1> HIDE DEF a, c
<1>4. /\ b \in Seq(R) /\ Len(b) = IF k <= Len(a) THEN Len(a) - k ELSE 0
      /\ \A i \in 1..Len(b) : b[i] = a[k + i]
  BY <1>2, AfterFacts
<1> HIDE DEF b
<1>5. Len(b) = Len(c)
  BY <1>1, <1>2, <1>3, <1>4
<1>6. ASSUME NEW i \in 1..Len(b) PROVE b[i] = c[i]
  <2>1. PICK j \in 1..Len(a) : j = k + i
    BY <1>1, <1>2, <1>4
  <2>2. h + j = h + k + i
    BY <2>1
  <2> QED
    BY <1>2, <1>3, <1>4, <1>5, <2>1, <2>2
<1>7. b = c
  BY <1>3, <1>4, <1>5, <1>6, SeqEqual
<1> QED
  BY <1>7 DEF a, b, c

\* The first of what is left is the next one.
LEMMA AfterFirst ==
  ASSUME NEW R, NEW s \in Seq(R), NEW t \in Seq(R)
  PROVE  /\ After(Joined(s, t), Len(s)) = t
         /\ Len(Joined(s, t)) = Len(s) + Len(t)
         /\ \A k \in 1..Len(s) : Joined(s, t)[k] = s[k]
<1> DEFINE u == Joined(s, t) a == After(u, Len(s))
<1>1. IsConcat(u, s, t, R)
  BY ConcatFacts DEF Joined
<1> HIDE DEF u
<1>2. /\ u \in Seq(R) /\ Len(u) = Len(s) + Len(t)
      /\ \A i \in 1..Len(s) : u[i] = s[i]
      /\ \A i \in 1..Len(t) : u[Len(s) + i] = t[i]
  BY <1>1 DEF IsConcat
<1>3. Len(s) \in Nat /\ Len(t) \in Nat
  BY LenProperties
<1>4. /\ a \in Seq(R) /\ Len(a) = IF Len(s) <= Len(u) THEN Len(u) - Len(s) ELSE 0
      /\ \A i \in 1..Len(a) : a[i] = u[Len(s) + i]
  BY <1>2, <1>3, AfterFacts
<1> HIDE DEF a
<1>5. Len(a) = Len(t)
  BY <1>2, <1>3, <1>4
<1>6. \A i \in 1..Len(a) : a[i] = t[i]
  BY <1>2, <1>4, <1>5
<1>7. a = t
  BY <1>4, <1>5, <1>6, SeqEqual
<1> QED
  BY <1>2, <1>7 DEF a, u

\* What stands for a word, the placeholder at hand being the k-th, and for those
\* of a text.
At(w, k, refs, described) ==
  CASE w # Image -> <<w>>
    [] w = Image /\ k <= Len(refs) /\ refs[k] \in described -> <<<<refs[k]>>>>
    [] OTHER -> <<>>
Filled(text, refs, described) ==
  [i \in DOMAIN text |-> At(text[i], Holes(text, i), refs, described)]

\* Words that are shown, and the names of pictures.
Plain(W, R) == {w \in W : w # Image} \cup {<<r>> : r \in R}

\* A word stays, and a placeholder is filled by what is at its place.
LEMMA AtFacts ==
  ASSUME NEW W, NEW R, NEW w \in W, NEW refs \in Seq(R), NEW described, NEW k \in Nat,
         w = Image => k >= 1
  PROVE  At(w, k, refs, described) \in Seq(Plain(W, R))
<1>1. CASE w # Image
  <2>1. w \in Plain(W, R)
    BY <1>1 DEF Plain
  <2>2. At(w, k, refs, described) = <<w>>
    BY <1>1 DEF At
  <2> HIDE DEF Plain
  <2> QED
    BY <2>1, <2>2
<1>2. CASE w = Image /\ k <= Len(refs) /\ refs[k] \in described
  <2>1. refs[k] \in R
    <3>1. Len(refs) \in Nat /\ k \in 1..Len(refs)
      BY <1>2, LenProperties
    <3> QED
      BY <3>1, ElementOfSeq
  <2>2. <<refs[k]>> \in Plain(W, R)
    BY <2>1 DEF Plain
  <2>3. At(w, k, refs, described) = <<<<refs[k]>>>>
    BY <1>2 DEF At
  <2> DEFINE v == <<refs[k]>>
  <2> HIDE DEF Plain, v
  <2>4. <<v>> \in Seq(Plain(W, R))
    BY <2>2 DEF v
  <2> QED
    BY <2>3, <2>4 DEF v
<1>3. CASE w = Image /\ ~(k <= Len(refs) /\ refs[k] \in described)
  <2>1. At(w, k, refs, described) = <<>>
    BY <1>3 DEF At
  <2> QED
    BY <2>1, EmptySeq
<1> QED
  BY <1>1, <1>2, <1>3

\* What a text becomes, word by word.
FilledIn(filled, text, refs, described, W, R) ==
  /\ filled \in Seq(Seq(Plain(W, R))) /\ Len(filled) = Len(text)
  /\ \A i \in 1..Len(text) : filled[i] = At(text[i], Holes(text, i), refs, described)

\* Each word becomes a sequence of its own.
LEMMA FilledFacts ==
  ASSUME NEW W, NEW R, NEW text \in Seq(W), NEW refs \in Seq(R), NEW described
  PROVE  FilledIn(Filled(text, refs, described), text, refs, described, W, R)
<1> DEFINE n == Len(text) filled == Filled(text, refs, described)
<1>1. n \in Nat /\ DOMAIN text = 1..n /\ \A i \in 1..n : text[i] \in W
  BY LenProperties, ElementOfSeq
<1> HIDE DEF n
<1>2. \A i \in 1..n : Holes(text, i) \in Nat /\ (text[i] = Image => Holes(text, i) >= 1)
  BY <1>1, HolesGrow
<1>3. \A i \in 1..n : At(text[i], Holes(text, i), refs, described) \in Seq(Plain(W, R))
  BY <1>1, <1>2, AtFacts
<1>4. filled = [i \in 1..n |-> At(text[i], Holes(text, i), refs, described)]
  BY <1>1 DEF Filled
<1>5. /\ filled \in [1..n -> Seq(Plain(W, R))]
      /\ \A i \in 1..n : filled[i] = At(text[i], Holes(text, i), refs, described)
  BY <1>3, <1>4
<1> HIDE DEF filled
<1>6. filled \in Seq(Seq(Plain(W, R))) /\ Len(filled) = n
  BY <1>1, <1>5, FunctionIsSeq
<1> QED
  BY <1>5, <1>6 DEF FilledIn, filled, n

\* What a text becomes, and what is left for the next.
Filling(text, refs, described, W, R) ==
  /\ Substitute(text, refs, described).text = FlattenSeq(Filled(text, refs, described))
  /\ Substitute(text, refs, described).text \in Seq(Plain(W, R))
  /\ Substitute(text, refs, described).refs = After(refs, Holes(text, Len(text)))
  /\ Substitute(text, refs, described).refs \in Seq(R)

\* Texts can be filled.
LEMMA SubstituteFacts ==
  ASSUME NEW W, NEW R, NEW text \in Seq(W), NEW refs \in Seq(R), NEW described
  PROVE  Filling(text, refs, described, W, R)
<1> DEFINE filled == Filled(text, refs, described) rest == After(refs, Holes(text, Len(text)))
<1>1. Substitute(text, refs, described) = [text |-> FlattenSeq(filled), refs |-> rest]
  BY DEF Substitute, Filled, At, After
<1>2. FlattenSeq(filled) \in Seq(Plain(W, R))
  <2>1. filled \in Seq(Seq(Plain(W, R)))
    BY FilledFacts DEF FilledIn
  <2> HIDE DEF filled
  <2> QED
    BY <2>1, FlattenType
<1>3. rest \in Seq(R)
  <2>1. Len(text) \in Nat
    BY LenProperties
  <2>2. Holes(text, Len(text)) \in Nat
    BY <2>1, HolesStep
  <2> QED
    BY <2>2, AfterFacts
<1> HIDE DEF filled, rest
<1>4. Substitute(text, refs, described).text = FlattenSeq(filled) /\ Substitute(text, refs, described).refs = rest
  BY <1>1
<1> QED
  BY <1>2, <1>3, <1>4 DEF Filling, filled, rest

\* The rest of a text is filled by the rest of the pictures.
LEMMA SubstituteOn ==
  ASSUME NEW W, NEW R, NEW s \in Seq(W), NEW t \in Seq(W), NEW refs \in Seq(R), NEW described,
         NEW left, left = Substitute(s, refs, described).refs
  PROVE  /\ Substitute(Joined(s, t), refs, described).text
            = Joined(Substitute(s, refs, described).text, Substitute(t, left, described).text)
         /\ Substitute(Joined(s, t), refs, described).refs = Substitute(t, left, described).refs
<1> DEFINE u == Joined(s, t) n == Len(s) m == Len(t)
           fs == Filled(s, refs, described) ft == Filled(t, left, described)
           fu == Filled(u, refs, described) both == Joined(fs, ft)
           P == Plain(W, R) h == Holes(s, n)
<1>1. IsConcat(u, s, t, W)
  BY ConcatFacts DEF Joined
<1>2. n \in Nat /\ m \in Nat
  BY LenProperties
<1> HIDE DEF u
<1>3. /\ u \in Seq(W) /\ Len(u) = n + m
      /\ \A i \in 1..n : u[i] = s[i]
      /\ \A i \in 1..m : u[n + i] = t[i]
  BY <1>1 DEF IsConcat
<1>4. /\ \A i \in 0..n : Holes(u, i) = Holes(s, i)
      /\ \A i \in 0..m : Holes(u, n + i) = h + Holes(t, i)
  BY <1>1, HolesJoined
<1>5. h \in Nat /\ Holes(t, m) \in Nat
  BY <1>2, HolesStep
<1>6. left = After(refs, h) /\ left \in Seq(R)
  <2>1. Filling(s, refs, described, W, R)
    BY SubstituteFacts
  <2> QED
    BY <2>1 DEF Filling
<1> HIDE DEF h
<1>7. /\ fs \in Seq(Seq(P)) /\ Len(fs) = n
      /\ \A i \in 1..n : fs[i] = At(s[i], Holes(s, i), refs, described)
  <2>1. FilledIn(fs, s, refs, described, W, R)
    BY FilledFacts
  <2> HIDE DEF fs
  <2> QED
    BY <2>1 DEF FilledIn
<1>8. /\ ft \in Seq(Seq(P)) /\ Len(ft) = m
      /\ \A i \in 1..m : ft[i] = At(t[i], Holes(t, i), left, described)
  <2>1. FilledIn(ft, t, left, described, W, R)
    BY <1>6, FilledFacts
  <2> HIDE DEF ft
  <2> QED
    BY <2>1 DEF FilledIn
<1>9. /\ fu \in Seq(Seq(P)) /\ Len(fu) = n + m
      /\ \A i \in 1..n + m : fu[i] = At(u[i], Holes(u, i), refs, described)
  <2>1. FilledIn(fu, u, refs, described, W, R)
    BY <1>3, FilledFacts
  <2> HIDE DEF fu
  <2> QED
    BY <2>1, <1>3 DEF FilledIn
<1> HIDE DEF fs, ft, fu, P
<1>10. IsConcat(both, fs, ft, Seq(P))
  BY <1>7, <1>8, ConcatFacts DEF Joined
<1> HIDE DEF both
<1>11. /\ both \in Seq(Seq(P)) /\ Len(both) = n + m
       /\ \A i \in 1..n : both[i] = fs[i]
       /\ \A i \in 1..m : both[n + i] = ft[i]
  BY <1>7, <1>8, <1>10 DEF IsConcat
<1> HIDE DEF n, m
<1>12. ASSUME NEW i \in 1..n PROVE fu[i] = both[i]
  <2>1. i \in 0..n /\ i \in 1..n + m
    BY <1>2
  <2>2. u[i] = s[i] /\ Holes(u, i) = Holes(s, i)
    BY <1>3, <1>4, <2>1
  <2> QED
    BY <1>7, <1>9, <1>11, <2>1, <2>2
<1>13. ASSUME NEW i \in 1..m PROVE fu[n + i] = both[n + i]
  <2> DEFINE k == Holes(t, i) w == t[i]
  <2>1. i \in 0..m /\ n + i \in 1..n + m
    BY <1>2
  <2>2. u[n + i] = w /\ Holes(u, n + i) = h + k
    BY <1>3, <1>4, <2>1
  <2>3. fu[n + i] = At(w, h + k, refs, described) /\ ft[i] = At(w, k, left, described)
    BY <1>8, <1>9, <2>1, <2>2
  <2>4. k \in Nat /\ (w = Image => k >= 1)
    BY <1>2, HolesGrow
  <2> HIDE DEF k, w
  <2>5. w = Image => (h + k <= Len(refs) <=> k <= Len(left))
    <3>1. Len(refs) \in Nat /\ Len(left) = IF h <= Len(refs) THEN Len(refs) - h ELSE 0
      BY <1>5, <1>6, AfterFacts, LenProperties
    <3> QED
      BY <1>5, <2>4, <3>1
  <2>6. w = Image /\ k <= Len(left) => left[k] = refs[h + k]
    <3> SUFFICES ASSUME w = Image, k <= Len(left) PROVE left[k] = refs[h + k]
      OBVIOUS
    <3>1. Len(left) \in Nat
      BY <1>6, LenProperties
    <3>2. k \in 1..Len(left)
      BY <2>4, <3>1
    <3> QED
      BY <1>5, <1>6, <3>2, AfterFacts
  <2>7. At(w, h + k, refs, described) = At(w, k, left, described)
    <3>1. CASE w # Image
      BY <3>1 DEF At
    <3>2. CASE w = Image /\ k <= Len(left)
      BY <2>5, <2>6, <3>2 DEF At
    <3>3. CASE w = Image /\ ~(k <= Len(left))
      BY <2>5, <3>3 DEF At
    <3> QED
      BY <3>1, <3>2, <3>3
  <2> QED
    BY <1>11, <2>3, <2>7
<1>14. fu = both
  <2>1. ASSUME NEW i \in 1..Len(fu) PROVE fu[i] = both[i]
    <3>1. CASE i \in 1..n
      BY <1>12, <3>1
    <3>2. CASE i \notin 1..n
      <4>1. i - n \in 1..m /\ n + (i - n) = i
        BY <1>2, <1>9, <3>2
      <4>2. fu[n + (i - n)] = both[n + (i - n)]
        BY <1>13, <4>1
      <4> QED
        BY <4>1, <4>2
    <3> QED
      BY <3>1, <3>2
  <2>2. Len(fu) = Len(both)
    BY <1>9, <1>11
  <2> QED
    BY <1>9, <1>11, <2>1, <2>2, SeqEqual
<1>15. FlattenSeq(fu) = Joined(FlattenSeq(fs), FlattenSeq(ft))
  BY <1>7, <1>8, <1>14, FlattenConcat DEF both
<1>16. /\ Filling(u, refs, described, W, R) /\ Filling(s, refs, described, W, R)
       /\ Filling(t, left, described, W, R)
  BY <1>3, <1>6, SubstituteFacts
<1>17. Substitute(u, refs, described).text = Joined(Substitute(s, refs, described).text, Substitute(t, left, described).text)
  <2>1. /\ Substitute(u, refs, described).text = FlattenSeq(fu)
        /\ Substitute(s, refs, described).text = FlattenSeq(fs)
        /\ Substitute(t, left, described).text = FlattenSeq(ft)
    BY <1>16 DEF Filling, fu, fs, ft
  <2> QED
    BY <1>15, <2>1
<1>18. Substitute(u, refs, described).refs = Substitute(t, left, described).refs
  <2>1. Substitute(u, refs, described).refs = After(refs, Holes(u, Len(u)))
    BY <1>16 DEF Filling
  <2>2. Substitute(t, left, described).refs = After(left, Holes(t, m))
    BY <1>16 DEF Filling, m
  <2>3. Holes(u, Len(u)) = h + Holes(t, m)
    <3>1. m \in 0..m
      BY <1>2
    <3> QED
      BY <1>3, <1>4, <3>1
  <2>4. After(left, Holes(t, m)) = After(refs, h + Holes(t, m))
    BY <1>5, <1>6, AfterAfter DEF m
  <2> QED
    BY <2>1, <2>2, <2>3, <2>4
<1> QED
  BY <1>17, <1>18 DEF u

\* A text whose pictures are all there needs none of the next one's.
LEMMA SubstituteOwn ==
  ASSUME NEW W, NEW R, NEW s \in Seq(W), NEW r \in Seq(R), NEW q \in Seq(R), NEW described,
         Holes(s, Len(s)) = Len(r)
  PROVE  /\ Substitute(s, Joined(r, q), described).text = Substitute(s, r, described).text
         /\ Substitute(s, Joined(r, q), described).refs = q
<1> DEFINE both == Joined(r, q) n == Len(s) a == Filled(s, both, described) b == Filled(s, r, described)
<1>1. both \in Seq(R)
  BY JoinedFacts
<1>2. Len(both) = Len(r) + Len(q) /\ (\A k \in 1..Len(r) : both[k] = r[k]) /\ After(both, Len(r)) = q
  BY AfterFirst
<1>3. n \in Nat /\ Len(r) \in Nat /\ Len(q) \in Nat
  BY LenProperties
<1> HIDE DEF both
<1>4. /\ a \in Seq(Seq(Plain(W, R))) /\ Len(a) = n
      /\ \A i \in 1..n : a[i] = At(s[i], Holes(s, i), both, described)
  <2>1. FilledIn(a, s, both, described, W, R)
    BY <1>1, FilledFacts
  <2> HIDE DEF a
  <2> QED
    BY <2>1 DEF FilledIn
<1>5. /\ b \in Seq(Seq(Plain(W, R))) /\ Len(b) = n
      /\ \A i \in 1..n : b[i] = At(s[i], Holes(s, i), r, described)
  <2>1. FilledIn(b, s, r, described, W, R)
    BY FilledFacts
  <2> HIDE DEF b
  <2> QED
    BY <2>1 DEF FilledIn
<1> HIDE DEF a, b
<1>6. ASSUME NEW i \in 1..Len(a) PROVE a[i] = b[i]
  <2> DEFINE k == Holes(s, i) w == s[i]
  <2>1. i \in 1..n
    BY <1>4
  <2>2. k \in Nat /\ k <= Len(r) /\ (w = Image => k >= 1)
    BY <1>3, <2>1, HolesGrow
  <2>3. a[i] = At(w, k, both, described) /\ b[i] = At(w, k, r, described)
    BY <1>4, <1>5, <2>1
  <2> HIDE DEF k, w
  <2>4. At(w, k, both, described) = At(w, k, r, described)
    <3>1. CASE w # Image
      BY <3>1 DEF At
    <3>2. CASE w = Image
      <4>1. k \in 1..Len(r) /\ k <= Len(both)
        BY <1>2, <1>3, <2>2, <3>2
      <4>2. both[k] = r[k]
        BY <1>2, <4>1
      <4> QED
        BY <2>2, <3>2, <4>1, <4>2 DEF At
    <3> QED
      BY <3>1, <3>2
  <2> QED
    BY <2>3, <2>4
<1>7. a = b
  <2>1. Len(a) = Len(b)
    BY <1>4, <1>5
  <2> QED
    BY <1>4, <1>5, <1>6, <2>1, SeqEqual
<1>8. Substitute(s, both, described).text = FlattenSeq(a) /\ Substitute(s, r, described).text = FlattenSeq(b)
      /\ Substitute(s, both, described).refs = After(both, Holes(s, Len(s)))
  <2>1. Filling(s, both, described, W, R) /\ Filling(s, r, described, W, R)
    BY <1>1, SubstituteFacts
  <2> QED
    BY <2>1 DEF Filling, a, b
<1> QED
  BY <1>2, <1>7, <1>8 DEF both

-----------------------------------------------------------------------------
(* Documents: what the chunks hold.                                        *)

\* A sequence made of another element by element.
LEMMA SameMap ==
  ASSUME NEW s, NEW phi, NEW ss, ss = [i \in DOMAIN s |-> ss[i]], \A i \in DOMAIN s : ss[i] = phi[s[i]]
  PROVE  FlattenSeq(ss) = Total(phi, s)
<1>1. ss = [i \in DOMAIN s |-> phi[s[i]]]
  BY Zenon
<1> QED
  BY <1>1 DEF Total, Mapped

\* Chunks of headings H, words W and items I, of which the pictures are named
\* by R, with a placeholder for each picture.
HeadedText(H, W) == [headings : Seq(H), text : Seq(W)]
Parts(H, W, I) == [tokens : Nat, pieces : Seq(HeadedText(H, W)), items : Seq(I)]
NamedBy(I, R) == \A i \in I : i.label = "picture" => i.ref \in R
Aligned(c) == Holes(Text(c), Len(Text(c))) = Len(PictureRefs(c))
AnyChunk(H, W, I) == {c \in Parts(H, W, I) : Aligned(c)}

TextOf(H, W) == [p \in HeadedText(H, W) |-> p.text]
RefOf(I) == [i \in I |-> IF i.label = "picture" THEN <<i.ref>> ELSE <<>>]

\* They make sequences.
LEMMA PartMaps ==
  ASSUME NEW H, NEW W, NEW I, NEW R, NamedBy(I, R)
  PROVE  Maps(TextOf(H, W), HeadedText(H, W), W) /\ Maps(RefOf(I), I, R)
<1>1. \A p \in HeadedText(H, W) : p.text \in Seq(W)
  BY DEF HeadedText
<1>2. TextOf(H, W) \in [HeadedText(H, W) -> Seq(W)]
  BY <1>1 DEF TextOf
<1>3. ASSUME NEW i \in I PROVE (IF i.label = "picture" THEN <<i.ref>> ELSE <<>>) \in Seq(R)
  <2>1. CASE i.label = "picture"
    <3>1. i.ref \in R
      BY <2>1 DEF NamedBy
    <3> DEFINE r == i.ref
    <3> HIDE DEF r
    <3>2. <<r>> \in Seq(R)
      BY <3>1 DEF r
    <3> QED
      BY <2>1, <3>2 DEF r
  <2>2. CASE i.label # "picture"
    BY <2>2, EmptySeq
  <2> QED
    BY <2>1, <2>2
<1>4. RefOf(I) \in [I -> Seq(R)]
  BY <1>3 DEF RefOf
<1> QED
  BY <1>2, <1>4 DEF Maps

\* What a chunk holds.
Holding(c, H, W, I, R) ==
  /\ c.tokens \in Nat /\ c.pieces \in Seq(HeadedText(H, W)) /\ c.items \in Seq(I)
  /\ Text(c) = Total(TextOf(H, W), c.pieces) /\ Text(c) \in Seq(W)
  /\ PictureRefs(c) = Total(RefOf(I), c.items) /\ PictureRefs(c) \in Seq(R)

\* It is what its pieces and items hold.
LEMMA ChunkHolds ==
  ASSUME NEW H, NEW W, NEW I, NEW R, NamedBy(I, R), NEW c \in Parts(H, W, I)
  PROVE  Holding(c, H, W, I, R)
<1>1. c.tokens \in Nat /\ c.pieces \in Seq(HeadedText(H, W)) /\ c.items \in Seq(I)
  BY DEF Parts
<1> DEFINE ps == c.pieces is == c.items
<1> HIDE DEF ps, is
<1>2. Text(c) = Total(TextOf(H, W), ps)
  <2> DEFINE ss == [i \in DOMAIN ps |-> ps[i].text]
  <2>1. Text(c) = FlattenSeq(ss)
    BY DEF Text, FlatMap, ps
  <2>2. \A i \in DOMAIN ps : ss[i] = TextOf(H, W)[ps[i]]
    <3> SUFFICES ASSUME NEW i \in DOMAIN ps PROVE ss[i] = TextOf(H, W)[ps[i]]
      OBVIOUS
    <3>1. ps[i] \in HeadedText(H, W)
      <4>1. DOMAIN ps = 1..Len(ps)
        BY <1>1, LenProperties DEF ps
      <4> QED
        BY <1>1, <4>1, ElementOfSeq DEF ps
    <3> QED
      BY <3>1 DEF TextOf
  <2>3. ss = [i \in DOMAIN ps |-> ss[i]]
    OBVIOUS
  <2> HIDE DEF ss
  <2> QED
    BY <2>1, <2>2, <2>3, SameMap
<1>3. PictureRefs(c) = Total(RefOf(I), is)
  <2> DEFINE ss == [i \in DOMAIN is |-> IF is[i].label = "picture" THEN <<is[i].ref>> ELSE <<>>]
  <2>1. PictureRefs(c) = FlattenSeq(ss)
    BY DEF PictureRefs, FlatMap, is
  <2>2. \A i \in DOMAIN is : ss[i] = RefOf(I)[is[i]]
    <3> SUFFICES ASSUME NEW i \in DOMAIN is PROVE ss[i] = RefOf(I)[is[i]]
      OBVIOUS
    <3>1. is[i] \in I
      <4>1. DOMAIN is = 1..Len(is)
        BY <1>1, LenProperties DEF is
      <4> QED
        BY <1>1, <4>1, ElementOfSeq DEF is
    <3> QED
      BY <3>1 DEF RefOf
  <2>3. ss = [i \in DOMAIN is |-> ss[i]]
    OBVIOUS
  <2> HIDE DEF ss
  <2> QED
    BY <2>1, <2>2, <2>3, SameMap
<1>4. Maps(TextOf(H, W), HeadedText(H, W), W) /\ Maps(RefOf(I), I, R)
  BY PartMaps
<1>5. ps \in Seq(HeadedText(H, W)) /\ is \in Seq(I)
  BY <1>1 DEF ps, is
<1>6. Total(TextOf(H, W), ps) \in Seq(W)
  BY <1>4, <1>5, TotalFacts
<1>7. Total(RefOf(I), is) \in Seq(R)
  BY <1>4, <1>5, TotalFacts
<1> QED
  BY <1>1, <1>2, <1>3, <1>6, <1>7 DEF Holding, ps, is

\* m is a and b in one.
OneOf(m, a, b) ==
  /\ m.tokens = a.tokens + DelimTokens + b.tokens
  /\ m.pieces = Joined(a.pieces, b.pieces) /\ m.items = Joined(a.items, b.items)
  /\ Text(m) = Joined(Text(a), Text(b)) /\ PictureRefs(m) = Joined(PictureRefs(a), PictureRefs(b))

\* Two chunks in one have the text and the pictures of both.
LEMMA MergeHolds ==
  ASSUME NEW H, NEW W, NEW I, NEW R, NamedBy(I, R),
         NEW a \in AnyChunk(H, W, I), NEW b \in AnyChunk(H, W, I)
  PROVE  Merge(a, b) \in AnyChunk(H, W, I) /\ OneOf(Merge(a, b), a, b)
<1> DEFINE m == Merge(a, b) P == HeadedText(H, W)
<1>1. a \in Parts(H, W, I) /\ b \in Parts(H, W, I) /\ Aligned(a) /\ Aligned(b)
  BY DEF AnyChunk
<1>2. Holding(a, H, W, I, R) /\ Holding(b, H, W, I, R)
  BY <1>1, ChunkHolds
<1>3. a.tokens \in Nat /\ b.tokens \in Nat
      /\ a.pieces \in Seq(P) /\ b.pieces \in Seq(P) /\ a.items \in Seq(I) /\ b.items \in Seq(I)
  BY <1>2 DEF Holding
<1>4. /\ m = [tokens |-> a.tokens + DelimTokens + b.tokens,
              pieces |-> Joined(a.pieces, b.pieces), items |-> Joined(a.items, b.items)]
  BY DEF Merge, Joined
<1>5. DelimTokens \in Nat
  BY ChunkingAssumption
<1>6. Joined(a.pieces, b.pieces) \in Seq(P) /\ Joined(a.items, b.items) \in Seq(I)
  BY <1>3, JoinedFacts
<1>7. a.tokens + DelimTokens + b.tokens \in Nat
  BY <1>3, <1>5
<1> HIDE DEF m, P
<1>8. m \in Parts(H, W, I)
  BY <1>4, <1>6, <1>7 DEF Parts, P
<1>9. /\ m.tokens = a.tokens + DelimTokens + b.tokens
      /\ m.pieces = Joined(a.pieces, b.pieces) /\ m.items = Joined(a.items, b.items)
  BY <1>4
<1>10. Holding(m, H, W, I, R)
  BY <1>8, ChunkHolds
<1>11. Maps(TextOf(H, W), P, W) /\ Maps(RefOf(I), I, R)
  BY PartMaps DEF P
<1>12. Text(m) = Joined(Text(a), Text(b))
  <2>1. Total(TextOf(H, W), Joined(a.pieces, b.pieces))
        = Joined(Total(TextOf(H, W), a.pieces), Total(TextOf(H, W), b.pieces))
    BY <1>3, <1>11, TotalConcat
  <2> QED
    BY <1>2, <1>9, <1>10, <2>1 DEF Holding
<1>13. PictureRefs(m) = Joined(PictureRefs(a), PictureRefs(b))
  <2>1. Total(RefOf(I), Joined(a.items, b.items)) = Joined(Total(RefOf(I), a.items), Total(RefOf(I), b.items))
    BY <1>3, <1>11, TotalConcat
  <2> QED
    BY <1>2, <1>9, <1>10, <2>1 DEF Holding
<1>14. Aligned(m)
  <2> DEFINE s == Text(a) t == Text(b) u == Joined(s, t)
  <2>1. s \in Seq(W) /\ t \in Seq(W) /\ PictureRefs(a) \in Seq(R) /\ PictureRefs(b) \in Seq(R)
    BY <1>2 DEF Holding
  <2>2. Holes(s, Len(s)) = Len(PictureRefs(a)) /\ Holes(t, Len(t)) = Len(PictureRefs(b))
    BY <1>1 DEF Aligned
  <2> HIDE DEF s, t
  <2>3. IsConcat(u, s, t, W)
    BY <2>1, ConcatFacts DEF Joined
  <2> HIDE DEF u
  <2>4. Len(u) = Len(s) + Len(t)
    BY <2>3 DEF IsConcat
  <2>5. Len(t) \in Nat /\ Len(t) \in 0..Len(t)
    BY <2>1, LenProperties
  <2>6. Holes(u, Len(u)) = Holes(s, Len(s)) + Holes(t, Len(t))
    BY <2>1, <2>3, <2>4, <2>5, HolesJoined
  <2>7. Len(Joined(PictureRefs(a), PictureRefs(b))) = Len(PictureRefs(a)) + Len(PictureRefs(b))
    BY <2>1, AfterFirst
  <2>8. Holes(u, Len(u)) = Len(Joined(PictureRefs(a), PictureRefs(b)))
    BY <2>2, <2>6, <2>7
  <2>9. Holes(Text(m), Len(Text(m))) = Len(PictureRefs(m))
    BY <1>12, <1>13, <2>8 DEF s, t, u
  <2> QED
    BY <2>9 DEF Aligned
<1>15. m \in AnyChunk(H, W, I)
  BY <1>8, <1>14 DEF AnyChunk
<1> QED
  BY <1>9, <1>12, <1>13, <1>15 DEF OneOf, m

\* What is kept of each chunk.
PiecesOf(H, W, I) == [c \in AnyChunk(H, W, I) |-> c.pieces]
ItemsOf(H, W, I) == [c \in AnyChunk(H, W, I) |-> c.items]
RawOf(H, W, I, described) == [c \in AnyChunk(H, W, I) |-> RawText(c, described)]

\* The text of two chunks in one is that of one and that of the other.
LEMMA RawJoined ==
  ASSUME NEW H, NEW W, NEW I, NEW R, NamedBy(I, R), NEW described,
         NEW a \in AnyChunk(H, W, I), NEW b \in AnyChunk(H, W, I)
  PROVE  /\ RawText(a, described) \in Seq(Plain(W, R))
         /\ RawText(Merge(a, b), described) = Joined(RawText(a, described), RawText(b, described))
<1> DEFINE m == Merge(a, b) s == Text(a) t == Text(b) r == PictureRefs(a) q == PictureRefs(b)
           both == Joined(r, q)
<1>1. a \in Parts(H, W, I) /\ b \in Parts(H, W, I) /\ Aligned(a) /\ Aligned(b)
  BY DEF AnyChunk
<1>2. Holding(a, H, W, I, R) /\ Holding(b, H, W, I, R)
  BY <1>1, ChunkHolds
<1>3. s \in Seq(W) /\ t \in Seq(W) /\ r \in Seq(R) /\ q \in Seq(R)
  BY <1>2 DEF Holding
<1>4. Holes(s, Len(s)) = Len(r)
  BY <1>1 DEF Aligned
<1>5. OneOf(m, a, b)
  BY MergeHolds
<1>6. Text(m) = Joined(s, t) /\ PictureRefs(m) = both
  BY <1>5 DEF OneOf
<1> HIDE DEF m, s, t, r, q
<1>7. both \in Seq(R)
  BY <1>3, JoinedFacts
<1>8. /\ Substitute(s, both, described).text = Substitute(s, r, described).text
      /\ Substitute(s, both, described).refs = q
  BY <1>3, <1>4, SubstituteOwn
<1> HIDE DEF both
<1>9. Substitute(Joined(s, t), both, described).text
      = Joined(Substitute(s, both, described).text, Substitute(t, q, described).text)
  <2> DEFINE left == Substitute(s, both, described).refs
  <2>1. Substitute(Joined(s, t), both, described).text
        = Joined(Substitute(s, both, described).text, Substitute(t, left, described).text)
    <3> HIDE DEF left
    <3>1. left = Substitute(s, both, described).refs
      BY DEF left
    <3> QED
      BY <1>3, <1>7, <3>1, SubstituteOn
  <2>2. left = q
    BY <1>8
  <2> QED
    BY <2>1, <2>2
<1>10. Filling(s, r, described, W, R)
  BY <1>3, SubstituteFacts
<1>11. Substitute(s, r, described).text \in Seq(Plain(W, R))
  BY <1>10 DEF Filling
<1> QED
  BY <1>6, <1>8, <1>9, <1>11 DEF RawText, m, s, t, r, q

\* Merging keeps them all.
LEMMA ChunkMaps ==
  ASSUME NEW H, NEW W, NEW I, NEW R, NamedBy(I, R), NEW described, NEW C, C = AnyChunk(H, W, I)
  PROVE  /\ Mergeable(C)
         /\ Maps(PiecesOf(H, W, I), C, HeadedText(H, W)) /\ Additive(PiecesOf(H, W, I), C)
         /\ Maps(ItemsOf(H, W, I), C, I) /\ Additive(ItemsOf(H, W, I), C)
         /\ Maps(RawOf(H, W, I, described), C, Plain(W, R)) /\ Additive(RawOf(H, W, I, described), C)
<1>1. \A a, b \in C : Merge(a, b) \in C /\ OneOf(Merge(a, b), a, b)
  BY MergeHolds
<1>2. ASSUME NEW a \in C
      PROVE  a.tokens \in Nat /\ a.pieces \in Seq(HeadedText(H, W)) /\ a.items \in Seq(I)
  <2>1. a \in Parts(H, W, I)
    BY DEF AnyChunk
  <2> QED
    BY <2>1 DEF Parts
<1>3. \A a, b \in C : /\ RawText(a, described) \in Seq(Plain(W, R))
                      /\ RawText(Merge(a, b), described) = Joined(RawText(a, described), RawText(b, described))
  BY RawJoined
<1>4. Mergeable(C)
  BY <1>1, <1>2 DEF Mergeable
<1>5. Maps(PiecesOf(H, W, I), C, HeadedText(H, W)) /\ Additive(PiecesOf(H, W, I), C)
  BY <1>1, <1>2 DEF Maps, Additive, PiecesOf, OneOf
<1>6. Maps(ItemsOf(H, W, I), C, I) /\ Additive(ItemsOf(H, W, I), C)
  BY <1>1, <1>2 DEF Maps, Additive, ItemsOf, OneOf
<1>7. Maps(RawOf(H, W, I, described), C, Plain(W, R)) /\ Additive(RawOf(H, W, I, described), C)
  BY <1>1, <1>3 DEF Maps, Additive, RawOf
<1> QED
  BY <1>4, <1>5, <1>6, <1>7

\* The beginnings of a sequence, each one longer than the last.
Grows(s, C) ==
  /\ Len(s) \in Nat /\ SubSeq(s, 1, 0) = <<>> /\ SubSeq(s, 1, Len(s)) = s
  /\ \A k \in 0..Len(s) : SubSeq(s, 1, k) \in Seq(C)
  /\ \A k \in 1..Len(s) : s[k] \in C /\ SubSeq(s, 1, k) = Joined(SubSeq(s, 1, k - 1), One(s[k]))

\* So do those of any sequence.
LEMMA Beginnings == ASSUME NEW C, NEW s \in Seq(C) PROVE Grows(s, C)
<1> DEFINE n == Len(s)
<1>1. n \in Nat /\ \A k \in 1..n : s[k] \in C
  BY LenProperties, ElementOfSeq
<1>2. ASSUME NEW k \in 0..n PROVE SubSeq(s, 1, k) \in Seq(C)
  <2>1. \A i \in 1..k : s[i] \in C
    BY <1>1
  <2>2. 1 \in Int /\ k \in Int
    OBVIOUS
  <2> QED
    BY <2>1, <2>2, SubSeqProperties
<1>3. ASSUME NEW k \in 1..n PROVE SubSeq(s, 1, k) = Joined(SubSeq(s, 1, k - 1), One(s[k]))
  <2>1. 1 \in 1..Len(s) /\ k \in 1..Len(s)
    BY <1>1
  <2> QED
    BY <2>1, SubSeqRecursiveSecond DEF Joined, One
<1>4. SubSeq(s, 1, 0) = <<>>
  BY SubSeqEmpty
<1>5. SubSeq(s, 1, n) = s
  BY SubSeqFull
<1> QED
  BY <1>1, <1>2, <1>3, <1>4, <1>5 DEF Grows

\* What keeps each element keeps them all, and what drops each one drops them all.
LEMMA TotalSame ==
  ASSUME NEW C, NEW phi, Maps(phi, C, C), NEW s \in Seq(C)
  PROVE  /\ (\A k \in 1..Len(s) : phi[s[k]] = One(s[k])) => Total(phi, s) = s
         /\ (\A k \in 1..Len(s) : phi[s[k]] = <<>>) => Total(phi, s) = <<>>
<1> DEFINE n == Len(s) P(k) == SubSeq(s, 1, k)
<1>1. Grows(s, C)
  BY Beginnings
<1> HIDE DEF n
<1>2. /\ n \in Nat /\ P(0) = <<>> /\ P(n) = s
      /\ \A k \in 0..n : P(k) \in Seq(C)
      /\ \A k \in 1..n : s[k] \in C /\ P(k) = Joined(P(k - 1), One(s[k]))
  BY <1>1 DEF Grows, n
<1> HIDE DEF P
<1>3. \A t \in Seq(C), c \in C : Total(phi, Joined(t, One(c))) = Joined(Total(phi, t), phi[c])
  BY TotalEnds
<1>4. Total(phi, <<>>) = <<>>
  BY TotalSmall
<1>5. ASSUME NEW k \in 1..n PROVE Total(phi, P(k)) = Joined(Total(phi, P(k - 1)), phi[s[k]])
  <2>1. P(k - 1) \in Seq(C) /\ s[k] \in C /\ P(k) = Joined(P(k - 1), One(s[k]))
    <3>1. k - 1 \in 0..n
      BY <1>2
    <3> QED
      BY <1>2, <3>1
  <2> QED
    BY <1>3, <2>1
<1>6. ASSUME \A k \in 1..n : phi[s[k]] = One(s[k]) PROVE Total(phi, s) = s
  <2> DEFINE G == {k \in 0..n : Total(phi, P(k)) = P(k)}
  <2>1. 0 \in G
    BY <1>2, <1>4
  <2>2. ASSUME NEW k \in 1..n, k - 1 \in G PROVE k \in G
    <3>1. Total(phi, P(k)) = P(k)
      BY <1>2, <1>5, <1>6, <2>2
    <3> QED
      BY <1>2, <3>1
  <2>3. \A k \in 0..n : k \in G
    <3> HIDE DEF G
    <3> QED
      BY <1>2, <2>1, <2>2, Upwards
  <2>4. n \in G
    BY <1>2, <2>3
  <2> QED
    BY <1>2, <2>4
<1>7. ASSUME \A k \in 1..n : phi[s[k]] = <<>> PROVE Total(phi, s) = <<>>
  <2> DEFINE G == {k \in 0..n : Total(phi, P(k)) = <<>>}
  <2>1. 0 \in G
    BY <1>2, <1>4
  <2>2. ASSUME NEW k \in 1..n, k - 1 \in G PROVE k \in G
    <3>1. Joined(<<>>, <<>>) = <<>>
      BY JoinedFacts
    <3>2. Total(phi, P(k)) = <<>>
      BY <1>5, <1>7, <2>2, <3>1
    <3> QED
      BY <1>2, <3>2
  <2>3. \A k \in 0..n : k \in G
    <3> HIDE DEF G
    <3> QED
      BY <1>2, <2>1, <2>2, Upwards
  <2>4. n \in G
    BY <1>2, <2>3
  <2> QED
    BY <1>2, <2>4
<1> QED
  BY <1>6, <1>7 DEF n

\* Headings are told from words and from the names of pictures.
ToldApart(H, W, R) ==
  /\ \A h \in H : h[1] = "h"
  /\ \A w \in W : w = Image \/ w[1] # "h"
  /\ "h" \notin R
Shown(V) == [w \in V |-> IF w[1] = "h" THEN <<>> ELSE <<w>>]

\* A body is made word by word, of headings nothing and of the rest all.
LEMMA BodyFacts ==
  ASSUME NEW H, NEW W, NEW R, ToldApart(H, W, R), NEW V, V = H \cup Plain(W, R)
  PROVE  /\ Maps(Shown(V), V, V)
         /\ \A s \in Seq(V) : Body(s) = Total(Shown(V), s)
         /\ \A s \in Seq(H) : s \in Seq(V) /\ Total(Shown(V), s) = <<>>
         /\ \A s \in Seq(Plain(W, R)) : s \in Seq(V) /\ Total(Shown(V), s) = s
<1> DEFINE phi == Shown(V) P == Plain(W, R)
<1>1. \A w \in V : phi[w] = IF w[1] = "h" THEN <<>> ELSE One(w)
  BY DEF Shown, One
<1>2. Maps(phi, V, V)
  <2>1. \A w \in V : (IF w[1] = "h" THEN <<>> ELSE One(w)) \in Seq(V)
    <3> SUFFICES ASSUME NEW w \in V PROVE (IF w[1] = "h" THEN <<>> ELSE One(w)) \in Seq(V)
      OBVIOUS
    <3>1. <<>> \in Seq(V)
      BY EmptySeq
    <3>2. One(w) \in Seq(V)
      <4>1. <<w>> \in Seq(V)
        OBVIOUS
      <4> QED
        BY <4>1 DEF One
    <3> QED
      BY <3>1, <3>2
  <2>2. phi = [w \in V |-> IF w[1] = "h" THEN <<>> ELSE One(w)]
    BY DEF Shown, One
  <2> HIDE DEF phi
  <2> QED
    BY <2>1, <2>2 DEF Maps
<1> HIDE DEF phi
<1>3. ASSUME NEW w \in P PROVE w[1] # "h"
  <2>1. CASE w \in W /\ w # Image
    BY <2>1 DEF ToldApart
  <2>2. CASE w \in {<<r>> : r \in R}
    BY <2>2 DEF ToldApart
  <2> QED
    BY <2>1, <2>2 DEF Plain
<1> HIDE DEF P
<1>4. ASSUME NEW s \in Seq(V) PROVE Body(s) = Total(phi, s)
  <2> DEFINE ss == [i \in DOMAIN s |-> IF s[i][1] = "h" THEN <<>> ELSE <<s[i]>>]
  <2>1. Body(s) = FlattenSeq(ss)
    BY DEF Body, FlatMap
  <2>2. \A i \in DOMAIN s : s[i] \in V
    BY LenProperties, ElementOfSeq
  <2>3. \A i \in DOMAIN s : ss[i] = phi[s[i]]
    BY <1>1, <2>2 DEF One
  <2>4. ss = [i \in DOMAIN s |-> ss[i]]
    OBVIOUS
  <2> HIDE DEF ss
  <2> QED
    BY <2>1, <2>3, <2>4, SameMap
<1>5. ASSUME NEW D, D \in SUBSET V, NEW s \in Seq(D) PROVE s \in Seq(V) /\ \A k \in 1..Len(s) : s[k] \in D
  <2>1. Len(s) \in Nat /\ s \in [1..Len(s) -> D]
    BY LenProperties
  <2>2. s \in [1..Len(s) -> V]
    BY <1>5, <2>1
  <2> QED
    BY <2>1, <2>2, FunctionIsSeq
<1>6. ASSUME NEW s \in Seq(H) PROVE s \in Seq(V) /\ Total(phi, s) = <<>>
  <2>1. s \in Seq(V) /\ \A k \in 1..Len(s) : s[k] \in H
    BY <1>5
  <2>2. \A k \in 1..Len(s) : phi[s[k]] = <<>>
    BY <1>1, <2>1 DEF ToldApart
  <2> QED
    BY <1>2, <2>1, <2>2, TotalSame
<1>7. ASSUME NEW s \in Seq(P) PROVE s \in Seq(V) /\ Total(phi, s) = s
  <2>1. s \in Seq(V) /\ \A k \in 1..Len(s) : s[k] \in P
    <3>1. P \in SUBSET V
      BY DEF P
    <3> QED
      BY <1>5, <3>1
  <2>2. \A k \in 1..Len(s) : phi[s[k]] = One(s[k])
    <3>1. P \subseteq V
      BY DEF P
    <3> QED
      BY <1>1, <1>3, <2>1, <3>1
  <2> QED
    BY <1>2, <2>1, <2>2, TotalSame
<1> QED
  BY <1>2, <1>4, <1>6, <1>7 DEF phi, P

\* The pieces of a chunk under their headings, one after the other.
Under(s, piece, described) ==
  [text |-> Joined(Joined(s.text, piece.headings), Substitute(piece.text, s.refs, described).text),
   refs |-> Substitute(piece.text, s.refs, described).refs]
Told(V, R) == [text : Seq(V), refs : Seq(R)]
Tells(after, c, described, V, R) ==
  LET N == Len(c.pieces)
  IN  /\ N \in Nat /\ after \in [0..N -> Told(V, R)]
      /\ after[0] = [text |-> <<>>, refs |-> PictureRefs(c)]
      /\ \A n \in 1..N : after[n] = Under(after[n - 1], c.pieces[n], described)
      /\ Contextualize(c, described) = after[N].text

\* They can be told.
LEMMA ContextFacts ==
  ASSUME NEW H, NEW W, NEW I, NEW R, NamedBy(I, R), ToldApart(H, W, R), NEW described,
         NEW V, V = H \cup Plain(W, R), NEW c \in Parts(H, W, I)
  PROVE  \E after : Tells(after, c, described, V, R)
<1> DEFINE ps == c.pieces N == Len(ps) first == [text |-> <<>>, refs |-> PictureRefs(c)]
           F == [x \in Told(V, R) \X (1..N) |-> Under(x[1], ps[x[2]], described)]
           Equal(f) == f = [n \in 0..N |-> IF n = 0 THEN [text |-> <<>>, refs |-> PictureRefs(c)]
                                           ELSE Under(f[n - 1], ps[n], described)]
           after == CHOOSE f : Equal(f)
<1>1. Contextualize(c, described) = after[N].text
  BY DEF Contextualize, Under, Joined
<1>2. Holding(c, H, W, I, R)
  BY ChunkHolds
<1>3. ps \in Seq(HeadedText(H, W)) /\ PictureRefs(c) \in Seq(R)
  BY <1>2 DEF Holding
<1>4. N \in Nat /\ \A n \in 1..N : ps[n] \in HeadedText(H, W)
  BY <1>3, LenProperties, ElementOfSeq
<1>5. first \in Told(V, R) /\ first.text = <<>> /\ first.refs = PictureRefs(c)
  BY <1>3, EmptySeq DEF Told
<1> HIDE DEF N, ps
<1>6. ASSUME NEW s \in Told(V, R), NEW n \in 1..N PROVE Under(s, ps[n], described) \in Told(V, R)
  <2> DEFINE p == ps[n] t == Substitute(p.text, s.refs, described)
  <2>1. s.text \in Seq(V) /\ s.refs \in Seq(R)
    BY DEF Told
  <2>2. p.headings \in Seq(H) /\ p.text \in Seq(W)
    <3>1. p \in HeadedText(H, W)
      BY <1>4
    <3> QED
      BY <3>1 DEF HeadedText
  <2> HIDE DEF p
  <2>3. Filling(p.text, s.refs, described, W, R)
    BY <2>1, <2>2, SubstituteFacts
  <2>4. t.text \in Seq(Plain(W, R)) /\ t.refs \in Seq(R)
    BY <2>3 DEF Filling
  <2> HIDE DEF t
  <2>5. p.headings \in Seq(V) /\ t.text \in Seq(V)
    BY <2>2, <2>4, BodyFacts
  <2>6. Joined(s.text, p.headings) \in Seq(V)
    BY <2>1, <2>5, JoinedFacts
  <2>7. Joined(Joined(s.text, p.headings), t.text) \in Seq(V)
    BY <2>5, <2>6, JoinedFacts
  <2>8. Under(s, p, described) = [text |-> Joined(Joined(s.text, p.headings), t.text), refs |-> t.refs]
    BY DEF Under, t
  <2>9. Under(s, p, described) \in Told(V, R)
    BY <2>4, <2>7, <2>8 DEF Told
  <2> QED
    BY <2>9 DEF p
<1>7. /\ F \in [Told(V, R) \X (1..N) -> Told(V, R)]
      /\ \A x \in Told(V, R), n \in 1..N : F[<<x, n>>] = Under(x, ps[n], described)
  BY <1>6
<1> HIDE DEF F
<1>8. \E f : Equal(f)
  <2> HIDE DEF first
  <2>1. PICK f : Chained(f, Told(V, R), first, N, F)
    BY <1>4, <1>5, <1>7, Chain
  <2>2. f \in [0..N -> Told(V, R)] /\ f[0] = first /\ \A n \in 1..N : f[n] = F[<<f[n - 1], n>>]
    BY <2>1 DEF Chained
  <2>3. ASSUME NEW n \in 1..N PROVE f[n] = Under(f[n - 1], ps[n], described)
    <3>1. n - 1 \in 0..N
      BY <1>4
    <3>2. f[n - 1] \in Told(V, R)
      BY <2>2, <3>1
    <3> QED
      BY <1>7, <2>2, <3>2
  <2>4. Equal(f)
    <3>1. f = [n \in 0..N |-> f[n]]
      BY <2>2
    <3>2. \A n \in 0..N : n = 0 \/ n \in 1..N
      BY <1>4
    <3> QED
      BY <2>2, <2>3, <3>1, <3>2 DEF first
  <2> QED
    BY <2>4
<1>9. Equal(after)
  BY <1>8
<1> HIDE DEF after
<1>10. after[0] = first /\ \A n \in 1..N : after[n] = Under(after[n - 1], ps[n], described)
  <2>1. 0 \in 0..N /\ \A n \in 1..N : n \in 0..N /\ n # 0
    BY <1>4
  <2>2. after[0] = first
    BY <1>9, <2>1
  <2>3. ASSUME NEW n \in 1..N PROVE after[n] = Under(after[n - 1], ps[n], described)
    BY <1>9, <2>1
  <2> QED
    BY <2>2, <2>3
<1> DEFINE G == {n \in 0..N : after[n] \in Told(V, R)}
<1>11. 0 \in G
  BY <1>4, <1>5, <1>10
<1>12. ASSUME NEW n \in 1..N, n - 1 \in G PROVE n \in G
  <2>1. Under(after[n - 1], ps[n], described) \in Told(V, R)
    BY <1>6, <1>12
  <2> QED
    BY <1>4, <1>10, <2>1
<1>13. \A n \in 0..N : n \in G
  <2> HIDE DEF G
  <2> QED
    BY <1>4, <1>11, <1>12, Upwards
<1>14. after \in [0..N -> Told(V, R)]
  <2>1. after = [n \in 0..N |-> after[n]]
    BY <1>9
  <2> QED
    BY <1>13, <2>1
<1>15. Tells(after, c, described, V, R)
  BY <1>1, <1>4, <1>10, <1>14 DEF Tells, N, ps
<1> QED
  BY <1>15

\* An empty text takes no picture.
LEMMA SubstituteNone ==
  ASSUME NEW R, NEW refs \in Seq(R), NEW described
  PROVE  Substitute(<<>>, refs, described).text = <<>> /\ Substitute(<<>>, refs, described).refs = refs
<1> DEFINE none == <<>>
<1>1. none \in Seq({}) /\ Len(none) = 0
  BY EmptySeq
<1>2. Filling(none, refs, described, {}, R) /\ FilledIn(Filled(none, refs, described), none, refs, described, {}, R)
  BY <1>1, SubstituteFacts, FilledFacts
<1>3. Holes(none, 0) = 0
  BY HolesStep
<1> DEFINE filled == Filled(none, refs, described) P == Plain({}, R)
<1>4. FlattenSeq(filled) = <<>>
  <2>1. filled \in Seq(Seq(P)) /\ Len(filled) = 0
    BY <1>1, <1>2 DEF FilledIn
  <2> HIDE DEF filled, P
  <2> QED
    BY <2>1, FlattenFacts
<1>5. After(refs, 0) = refs
  <2>1. <<>> \in Seq(R) /\ Joined(<<>>, refs) = refs
    BY JoinedFacts
  <2>2. After(Joined(<<>>, refs), Len(<<>>)) = refs
    BY <2>1, AfterFirst
  <2> QED
    BY <2>1, <2>2
<1>6. /\ Substitute(none, refs, described).text = FlattenSeq(filled)
      /\ Substitute(none, refs, described).refs = After(refs, Holes(none, Len(none)))
  BY <1>2 DEF Filling
<1> QED
  BY <1>1, <1>3, <1>4, <1>5, <1>6

\* The embedded text without its headings is the stored one.
LEMMA BodyIsRaw ==
  ASSUME NEW H, NEW W, NEW I, NEW R, NamedBy(I, R), ToldApart(H, W, R), NEW described,
         NEW c \in Parts(H, W, I)
  PROVE  Body(Contextualize(c, described)) = RawText(c, described)
<1> DEFINE V == H \cup Plain(W, R) ps == c.pieces N == Len(ps) refs == PictureRefs(c)
           phi == TextOf(H, W) P(n) == SubSeq(ps, 1, n) T(n) == Total(phi, P(n)) Q == HeadedText(H, W)
           shown == Shown(V)
<1>1. PICK after : Tells(after, c, described, V, R)
  BY ContextFacts
<1>2. Holding(c, H, W, I, R)
  BY ChunkHolds
<1>3. ps \in Seq(Q) /\ refs \in Seq(R) /\ Text(c) = Total(phi, ps)
  BY <1>2 DEF Holding
<1>4. Maps(phi, Q, W)
  BY PartMaps
<1>5. /\ Maps(shown, V, V)
      /\ \A s \in Seq(V) : Body(s) = Total(shown, s)
      /\ \A s \in Seq(H) : s \in Seq(V) /\ Total(shown, s) = <<>>
      /\ \A s \in Seq(Plain(W, R)) : s \in Seq(V) /\ Total(shown, s) = s
  BY BodyFacts
<1>6. /\ N \in Nat /\ after \in [0..N -> Told(V, R)]
      /\ after[0] = [text |-> <<>>, refs |-> refs]
      /\ \A n \in 1..N : after[n] = Under(after[n - 1], ps[n], described)
      /\ Contextualize(c, described) = after[N].text
  BY <1>1 DEF Tells
<1>7. Grows(ps, Q)
  BY <1>3, Beginnings
<1>8. /\ P(0) = <<>> /\ P(N) = ps
      /\ \A k \in 0..N : P(k) \in Seq(Q)
      /\ \A k \in 1..N : ps[k] \in Q /\ P(k) = Joined(P(k - 1), One(ps[k]))
  BY <1>7 DEF Grows
<1> HIDE DEF P, N, V, phi, shown, Q
<1>9. \A k \in 0..N : T(k) \in Seq(W)
  BY <1>4, <1>8, TotalFacts
<1>10. T(0) = <<>>
  BY <1>4, <1>8, TotalSmall
<1>11. ASSUME NEW k \in 1..N
       PROVE  /\ T(k) = Joined(T(k - 1), ps[k].text)
              /\ ps[k].text \in Seq(W) /\ ps[k].headings \in Seq(H)
  <2>1. k - 1 \in 0..N
    BY <1>6
  <2>2. ps[k] \in Q /\ P(k - 1) \in Seq(Q) /\ P(k) = Joined(P(k - 1), One(ps[k]))
    BY <1>8, <2>1
  <2>3. \A s \in Seq(Q), p \in Q : Total(phi, Joined(s, One(p))) = Joined(Total(phi, s), phi[p])
    BY <1>4, TotalEnds
  <2>4. phi[ps[k]] = ps[k].text
    BY <2>2 DEF phi, TextOf, Q
  <2>5. ps[k].text \in Seq(W) /\ ps[k].headings \in Seq(H)
    BY <2>2 DEF Q, HeadedText
  <2> QED
    BY <2>2, <2>3, <2>4, <2>5
<1> HIDE DEF T, ps, refs
<1> DEFINE G == {n \in 0..N : /\ Total(shown, after[n].text) = Substitute(T(n), refs, described).text
                              /\ after[n].refs = Substitute(T(n), refs, described).refs}
<1>12. 0 \in G
  <2>1. after[0].text = <<>> /\ after[0].refs = refs
    BY <1>6
  <2>2. Total(shown, <<>>) = <<>>
    BY <1>5, TotalSmall
  <2>3. Substitute(<<>>, refs, described).text = <<>> /\ Substitute(<<>>, refs, described).refs = refs
    BY <1>3, SubstituteNone
  <2> QED
    BY <1>6, <1>10, <2>1, <2>2, <2>3
<1>13. ASSUME NEW n \in 1..N, n - 1 \in G PROVE n \in G
  <2> DEFINE s == after[n - 1] piece == ps[n] left == Substitute(T(n - 1), refs, described).refs
             t == Substitute(piece.text, left, described)
             before == Substitute(T(n - 1), refs, described).text
  <2>1. s \in Told(V, R) /\ n - 1 \in 0..N
    BY <1>6
  <2>2. Total(shown, s.text) = before /\ s.refs = left
    BY <1>13
  <2>3. /\ T(n) = Joined(T(n - 1), piece.text)
        /\ piece.text \in Seq(W) /\ piece.headings \in Seq(H) /\ T(n - 1) \in Seq(W)
    BY <1>9, <1>11, <2>1
  <2>4. after[n] = Under(s, piece, described)
    BY <1>6
  <2>5. s.text \in Seq(V) /\ left \in Seq(R)
    BY <2>1, <2>2 DEF Told
  <2> HIDE DEF s, piece
  <2>6. /\ Substitute(T(n), refs, described).text = Joined(before, t.text)
        /\ Substitute(T(n), refs, described).refs = t.refs
    <3>1. left = Substitute(T(n - 1), refs, described).refs
      OBVIOUS
    <3> HIDE DEF left
    <3>2. /\ Substitute(Joined(T(n - 1), piece.text), refs, described).text = Joined(before, t.text)
          /\ Substitute(Joined(T(n - 1), piece.text), refs, described).refs = t.refs
      BY <1>3, <2>3, <3>1, SubstituteOn
    <3> QED
      BY <2>3, <3>2
  <2> HIDE DEF left, before
  <2>7. t.text \in Seq(Plain(W, R))
    <3>1. Filling(piece.text, left, described, W, R)
      BY <2>3, <2>5, SubstituteFacts
    <3> QED
      BY <3>1 DEF Filling
  <2>8. after[n] = [text |-> Joined(Joined(s.text, piece.headings), t.text), refs |-> t.refs]
    BY <2>2, <2>4 DEF Under
  <2> HIDE DEF t
  <2>9. after[n].text = Joined(Joined(s.text, piece.headings), t.text) /\ after[n].refs = t.refs
    BY <2>8
  <2>10. Total(shown, after[n].text) = Joined(before, t.text)
    <3>1. piece.headings \in Seq(V) /\ Total(shown, piece.headings) = <<>>
          /\ t.text \in Seq(V) /\ Total(shown, t.text) = t.text
      BY <1>5, <2>3, <2>7
    <3>2. \A x, y \in Seq(V) : Total(shown, Joined(x, y)) = Joined(Total(shown, x), Total(shown, y))
      BY <1>5, TotalConcat
    <3>3. Joined(s.text, piece.headings) \in Seq(V)
      BY <2>5, <3>1, JoinedFacts
    <3>4. before \in Seq(V)
      BY <1>5, <2>2, <2>5, TotalFacts
    <3>5. Joined(before, <<>>) = before
      BY <3>4, JoinedFacts
    <3>6. Total(shown, Joined(s.text, piece.headings)) = before
      BY <2>2, <2>5, <3>1, <3>2, <3>5
    <3> QED
      BY <2>9, <3>1, <3>2, <3>3, <3>6
  <2>11. /\ Total(shown, after[n].text) = Substitute(T(n), refs, described).text
         /\ after[n].refs = Substitute(T(n), refs, described).refs
    BY <2>6, <2>9, <2>10
  <2> QED
    BY <1>6, <2>11
<1>14. \A n \in 0..N : n \in G
  <2> HIDE DEF G
  <2> QED
    BY <1>6, <1>12, <1>13, Upwards
<1>15. Total(shown, after[N].text) = Substitute(T(N), refs, described).text
  <2>1. N \in G
    BY <1>6, <1>14
  <2> QED
    BY <2>1
<1>16. T(N) = Text(c)
  BY <1>3, <1>8 DEF T
<1>17. after[N].text \in Seq(V)
  <2>1. after[N] \in Told(V, R)
    BY <1>6
  <2> QED
    BY <2>1 DEF Told
<1> QED
  BY <1>5, <1>6, <1>15, <1>16, <1>17 DEF RawText, refs

\* What is kept of a document's chunks, as one function of them.
KeptAs(s, H, W, I, described) ==
  /\ FlatMap(LAMBDA c : c.pieces, s) = Total(PiecesOf(H, W, I), s)
  /\ FlatMap(LAMBDA c : c.items, s) = Total(ItemsOf(H, W, I), s)
  /\ FlatMap(LAMBDA c : RawText(c, described), s) = Total(RawOf(H, W, I, described), s)

\* It is.
LEMMA KeptOf ==
  ASSUME NEW H, NEW W, NEW I, NEW described, NEW s \in Seq(AnyChunk(H, W, I))
  PROVE  KeptAs(s, H, W, I, described)
<1> DEFINE C == AnyChunk(H, W, I)
           ps == [i \in DOMAIN s |-> s[i].pieces]
           is == [i \in DOMAIN s |-> s[i].items]
           rs == [i \in DOMAIN s |-> RawText(s[i], described)]
<1>1. \A i \in DOMAIN s : s[i] \in C
  BY LenProperties, ElementOfSeq
<1>2. /\ FlatMap(LAMBDA c : c.pieces, s) = FlattenSeq(ps)
      /\ FlatMap(LAMBDA c : c.items, s) = FlattenSeq(is)
      /\ FlatMap(LAMBDA c : RawText(c, described), s) = FlattenSeq(rs)
  BY DEF FlatMap
<1> HIDE DEF C
<1>3. \A i \in DOMAIN s : ps[i] = PiecesOf(H, W, I)[s[i]]
  BY <1>1 DEF PiecesOf, C
<1>4. \A i \in DOMAIN s : is[i] = ItemsOf(H, W, I)[s[i]]
  BY <1>1 DEF ItemsOf, C
<1>5. \A i \in DOMAIN s : rs[i] = RawOf(H, W, I, described)[s[i]]
  BY <1>1 DEF RawOf, C
<1>6. /\ ps = [i \in DOMAIN s |-> ps[i]] /\ is = [i \in DOMAIN s |-> is[i]]
      /\ rs = [i \in DOMAIN s |-> rs[i]]
  OBVIOUS
<1> HIDE DEF ps, is, rs
<1>7. FlattenSeq(ps) = Total(PiecesOf(H, W, I), s)
  BY <1>3, <1>6, SameMap
<1>8. FlattenSeq(is) = Total(ItemsOf(H, W, I), s)
  BY <1>4, <1>6, SameMap
<1>9. FlattenSeq(rs) = Total(RawOf(H, W, I, described), s)
  BY <1>5, <1>6, SameMap
<1> QED
  BY <1>2, <1>7, <1>8, <1>9 DEF KeptAs

\* Chunks of any document are merged well.
LEMMA MergedWell ==
  ASSUME NEW H, NEW W, NEW I, NEW R, NamedBy(I, R), NEW base \in Seq(AnyChunk(H, W, I))
  PROVE  WellMerged(Chunks(base), base)
<1> DEFINE C == AnyChunk(H, W, I) out == Chunks(base)
<1>1. /\ Mergeable(C)
      /\ Maps(PiecesOf(H, W, I), C, HeadedText(H, W)) /\ Additive(PiecesOf(H, W, I), C)
      /\ Maps(ItemsOf(H, W, I), C, I) /\ Additive(ItemsOf(H, W, I), C)
  BY ChunkMaps
<1>2. base \in Seq(C)
  OBVIOUS
<1> HIDE DEF C
<1>3. Total(PiecesOf(H, W, I), out) = Total(PiecesOf(H, W, I), base)
  BY <1>1, <1>2, NothingLost
<1>4. Total(ItemsOf(H, W, I), out) = Total(ItemsOf(H, W, I), base)
  BY <1>1, <1>2, NothingLost
<1>5. \A c \in ToSet(out) : c \notin ToSet(base) => c.tokens <= MergeLimit
  BY <1>1, <1>2, LimitKept
<1>6. Apart(out)
  BY <1>1, <1>2, NeighboursApart
<1>7. out \in Seq(C)
  <2>1. \E after : MergedBy(after, base, C)
    BY <1>1, <1>2, ChunksFacts
  <2>2. PICK after : MergedBy(after, base, C)
    BY <2>1
  <2>3. Len(base) \in 0..Len(base) /\ after[Len(base)] \in Passes(C) /\ out = after[Len(base)].out
    BY <2>2 DEF MergedBy
  <2> QED
    BY <2>3 DEF Passes
<1> HIDE DEF out
<1>8. /\ FlatMap(LAMBDA c : c.pieces, out) = Total(PiecesOf(H, W, I), out)
      /\ FlatMap(LAMBDA c : c.items, out) = Total(ItemsOf(H, W, I), out)
  <2>1. KeptAs(out, H, W, I, {})
    BY <1>7, KeptOf DEF C
  <2> QED
    BY <2>1 DEF KeptAs, FlatMap
<1>9. /\ FlatMap(LAMBDA c : c.pieces, base) = Total(PiecesOf(H, W, I), base)
      /\ FlatMap(LAMBDA c : c.items, base) = Total(ItemsOf(H, W, I), base)
  <2>1. KeptAs(base, H, W, I, {})
    BY KeptOf
  <2> QED
    BY <2>1 DEF KeptAs, FlatMap
<1>10. \A i \in 1..Len(out) - 1 :
         Undersized(out[i]) /\ Undersized(out[i + 1]) => ~Fits(out[i], out[i + 1])
  BY <1>6 DEF Apart, Could
<1>11. FlatMap(LAMBDA c : c.pieces, out) = FlatMap(LAMBDA c : c.pieces, base)
  BY <1>3, <1>8, <1>9
<1>12. FlatMap(LAMBDA c : c.items, out) = FlatMap(LAMBDA c : c.items, base)
  BY <1>4, <1>8, <1>9
<1>13. WellMerged(out, base)
  BY <1>5, <1>10, <1>11, <1>12 DEF WellMerged
<1> QED
  BY <1>13 DEF out

\* Rows of any document have its text in place.
LEMMA RowsInPlace ==
  ASSUME NEW H, NEW W, NEW I, NEW R, NamedBy(I, R), ToldApart(H, W, R), NEW described,
         NEW base \in Seq(AnyChunk(H, W, I))
  PROVE  InPlace(ChunkDocument(base, described), base, described)
<1> DEFINE C == AnyChunk(H, W, I) out == Chunks(base) rows == ChunkDocument(base, described)
           raw == RawOf(H, W, I, described)
<1>1. Mergeable(C) /\ Maps(raw, C, Plain(W, R)) /\ Additive(raw, C)
  BY ChunkMaps
<1>2. base \in Seq(C)
  OBVIOUS
<1>3. rows = [i \in DOMAIN out |-> ChunkRow(out[i], i - 1, described)]
  BY DEF ChunkDocument
<1> HIDE DEF C, raw, out, rows
<1>4. Total(raw, out) = Total(raw, base)
  BY <1>1, <1>2, NothingLost DEF out
<1>5. out \in Seq(C)
  <2>1. PICK after : MergedBy(after, base, C)
    BY <1>1, <1>2, ChunksFacts
  <2>2. Len(base) \in 0..Len(base) /\ after[Len(base)] \in Passes(C) /\ out = after[Len(base)].out
    BY <2>1 DEF MergedBy, out
  <2> QED
    BY <2>2 DEF Passes
<1>6. DOMAIN rows = DOMAIN out /\ DOMAIN out = 1..Len(out)
      /\ \A i \in DOMAIN out : rows[i] = ChunkRow(out[i], i - 1, described) /\ out[i] \in C
  BY <1>3, <1>5, LenProperties, ElementOfSeq
<1>7. ASSUME NEW i \in DOMAIN out
      PROVE  /\ rows[i].raw = RawText(out[i], described) /\ rows[i].raw = raw[out[i]]
             /\ rows[i].enriched = Contextualize(out[i], described)
  <2>1. rows[i].raw = RawText(out[i], described) /\ rows[i].enriched = Contextualize(out[i], described)
    BY <1>6 DEF ChunkRow
  <2>2. raw[out[i]] = RawText(out[i], described)
    BY <1>6 DEF raw, RawOf, C
  <2> QED
    BY <2>1, <2>2
<1>8. FlatMap(LAMBDA r : r.raw, rows) = Total(raw, out)
  <2> DEFINE ss == [i \in DOMAIN rows |-> rows[i].raw]
  <2>1. FlatMap(LAMBDA r : r.raw, rows) = FlattenSeq(ss)
    BY DEF FlatMap
  <2>2. ss = [i \in DOMAIN out |-> ss[i]] /\ \A i \in DOMAIN out : ss[i] = raw[out[i]]
    BY <1>6, <1>7
  <2> HIDE DEF ss
  <2> QED
    BY <2>1, <2>2, SameMap
<1>9. FlatMap(LAMBDA c : RawText(c, described), base) = Total(raw, base)
  <2>1. KeptAs(base, H, W, I, described)
    BY KeptOf
  <2> QED
    BY <2>1 DEF KeptAs, FlatMap, raw
<1>10. ASSUME NEW r \in ToSet(rows) PROVE Body(r.enriched) = r.raw
  <2>1. PICK i \in DOMAIN out : r = rows[i]
    BY <1>6 DEF ToSet
  <2>2. out[i] \in Parts(H, W, I)
    BY <1>6 DEF C, AnyChunk
  <2>3. Body(Contextualize(out[i], described)) = RawText(out[i], described)
    BY <2>2, BodyIsRaw
  <2> QED
    BY <1>7, <2>1, <2>3
<1>11. FlatMap(LAMBDA r : r.raw, rows) = FlatMap(LAMBDA c : RawText(c, described), base)
  BY <1>4, <1>8, <1>9
<1>12. InPlace(rows, base, described)
  BY <1>10, <1>11 DEF InPlace
<1> QED
  BY <1>12 DEF rows

-----------------------------------------------------------------------------
(* Documents: runs of headers.                                             *)

\* Of a sequence's first places all are picked.
LEMMA PickedAll ==
  ASSUME NEW s, NEW k \in Nat
  PROVE  Picked(s, 1..k) = [n \in 1..k |-> s[n]]
<1> DEFINE picked == Picked(s, 1..k)
<1> DEFINE places == 1..k
<1>0. places \in SUBSET (1..k) /\ Cardinality(places) = k
  BY FS_Interval
<1> HIDE DEF places
<1>1. IsPicked(picked, s, places)
  <2>1. IsPicked(Picked(s, places), s, places)
    BY <1>0, PickedFacts
  <2> QED
    BY <2>1 DEF places
<1> HIDE DEF picked
<1>2. picked = [n \in 1..k |-> picked[n]]
  BY <1>0, <1>1 DEF IsPicked
<1> DEFINE N == Cardinality(places)
<1> HIDE DEF N
<1>3. N = k
  BY <1>0 DEF N
<1>4. PICK at \in [1..N -> places] :
        /\ \A n \in 1..N : picked[n] = s[at[n]]
        /\ \A m, n \in 1..N : m < n <=> at[m] < at[n]
        /\ \A i \in places : \E n \in 1..N : at[n] = i
  BY <1>1 DEF IsPicked, N
<1>5. /\ at \in [1..k -> 1..k]
      /\ \A n \in 1..k : picked[n] = s[at[n]]
      /\ \A m, n \in 1..k : m < n <=> at[m] < at[n]
      /\ \A i \in 1..k : \E n \in 1..k : at[n] = i
  BY <1>3, <1>4 DEF places
<1> DEFINE G == {n \in 0..k : \A i \in 1..n : at[i] = i}
<1>6. 0 \in G
  OBVIOUS
<1>7. ASSUME NEW n \in 1..k, n - 1 \in G PROVE n \in G
  <2>1. \A i \in 1..n - 1 : at[i] = i
    BY <1>7
  <2>2. at[n] >= n
    <3>1. CASE n = 1
      <4>1. at[n] \in 1..k
        BY <1>5
      <4> QED
        BY <3>1, <4>1
    <3>2. CASE n # 1
      <4>1. n - 1 \in 1..n - 1 /\ n - 1 \in 1..k /\ n - 1 < n
        BY <3>2
      <4>2. at[n - 1] = n - 1 /\ at[n - 1] < at[n]
        BY <1>5, <2>1, <4>1
      <4>3. at[n] \in 1..k
        BY <1>5
      <4> QED
        BY <4>2, <4>3
    <3> QED
      BY <3>1, <3>2
  <2>3. PICK m \in 1..k : at[m] = n
    BY <1>5
  <2>4. m >= n
    <3>1. ASSUME m < n PROVE FALSE
      <4>1. m \in 1..n - 1
        BY <3>1
      <4> QED
        BY <2>1, <2>3, <3>1, <4>1
    <3> QED
      BY <3>1
  <2>5. at[n] = n
    <3>1. ASSUME n < m PROVE FALSE
      <4>1. at[n] < at[m]
        BY <1>5, <3>1
      <4>2. at[n] \in 1..k
        BY <1>5
      <4> QED
        BY <2>2, <2>3, <4>1, <4>2
    <3> QED
      BY <2>3, <2>4, <3>1
  <2>6. \A i \in 1..n : i = n \/ i \in 1..n - 1
    OBVIOUS
  <2> QED
    BY <2>1, <2>5, <2>6
<1>8. \A n \in 0..k : n \in G
  <2> HIDE DEF G
  <2> QED
    BY <1>6, <1>7, Upwards
<1>9. \A n \in 1..k : picked[n] = s[n]
  <2>1. k \in G
    BY <1>8
  <2> QED
    BY <1>5, <2>1
<1> QED
  BY <1>2, <1>9 DEF picked

\* Items of which each is a header of the first level or content.
FlatHeaders(I) == \A i \in I : i.kind \in {"header", "content"} /\ (i.kind = "header" => i.level = 1)

\* What is known while headers are nested.
Runs(T) == UNION {[S -> Nat \ {0}] : S \in SUBSET T}
Nesting(I) ==
  [run : Runs({i.text : i \in I}), prev : Nat, page : {i.page : i \in I} \cup {0}, levels : Seq(Nat)]

\* What an item is nested on.
Fresh(s, item) == item.page # s.page
RunOf(s, item) == IF Fresh(s, item) THEN <<>> ELSE s.run
PrevOf(s, item) == IF Fresh(s, item) THEN 0 ELSE s.prev
LevelOf(s, item) ==
  CASE item.text \in DOMAIN RunOf(s, item) -> RunOf(s, item)[item.text]
    [] item.text \notin DOMAIN RunOf(s, item) /\ item.level > PrevOf(s, item) -> item.level
    [] OTHER -> Least(PrevOf(s, item) + 1, MaxRunDepth)
KeptOn(s, item) ==
  LET run == RunOf(s, item)
  IN  IF item.text \in DOMAIN run THEN {t \in DOMAIN run : run[t] <= LevelOf(s, item)} ELSE DOMAIN run
RunWith(s, item) ==
  [t \in KeptOn(s, item) \cup {item.text} |->
     IF t = item.text THEN LevelOf(s, item) ELSE RunOf(s, item)[t]]

\* A header extends the run it stands in and content ends it.
Nested(t, s, item) ==
  /\ item.kind = "header" =>
       /\ t.run = RunWith(s, item) /\ t.prev = LevelOf(s, item) /\ t.page = item.page
       /\ t.levels = Append(s.levels, LevelOf(s, item))
  /\ item.kind = "content" =>
       t.run = <<>> /\ t.prev = 0 /\ t.page = s.page /\ t.levels = Append(s.levels, 0)

\* An item is nested so.
LEMMA NestFacts ==
  ASSUME NEW I, FlatHeaders(I), NEW s \in Nesting(I), NEW item \in I
  PROVE  Nest(s, item) \in Nesting(I) /\ Nested(Nest(s, item), s, item)
<1> DEFINE T == {i.text : i \in I} t == Nest(s, item) level == LevelOf(s, item) run == RunOf(s, item)
           P == {i.page : i \in I} \cup {0} prev == PrevOf(s, item)
<1>1. s.run \in Runs(T) /\ s.prev \in Nat /\ s.page \in P /\ s.levels \in Seq(Nat)
  BY DEF Nesting
<1>2. item.kind \in {"header", "content"} /\ (item.kind = "header" => item.level = 1)
  BY DEF FlatHeaders
<1>3. <<>> \in Runs(T)
  <2>1. <<>> \in [{} -> Nat \ {0}] /\ {} \in SUBSET T
    OBVIOUS
  <2> HIDE DEF T
  <2> QED
    BY <2>1 DEF Runs
<1>4. run \in Runs(T) /\ prev \in Nat
  BY <1>1, <1>3 DEF RunOf, PrevOf
<1>5. item.text \in T /\ item.page \in P
  OBVIOUS
<1> HIDE DEF T, P
<1>6. PICK S \in SUBSET T : run \in [S -> Nat \ {0}]
  BY <1>4 DEF Runs
<1>7. CASE item.kind = "header"
  <2>1. level \in Nat \ {0}
    <3>1. Least(prev + 1, MaxRunDepth) \in Nat \ {0}
      BY <1>4, ChunkingAssumption DEF Least
    <3>2. CASE item.text \in DOMAIN run
      BY <1>6, <3>2 DEF LevelOf
    <3>3. CASE item.text \notin DOMAIN run /\ item.level > prev
      BY <1>2, <1>7, <3>3 DEF LevelOf
    <3>4. CASE item.text \notin DOMAIN run /\ ~(item.level > prev)
      BY <3>1, <3>4 DEF LevelOf
    <3> QED
      BY <3>2, <3>3, <3>4
  <2> HIDE DEF level, run, prev
  <2>2. t = [run |-> RunWith(s, item), prev |-> level, page |-> item.page, levels |-> Append(s.levels, level)]
    BY <1>7 DEF Nest, RunWith, KeptOn, LevelOf, RunOf, PrevOf, Fresh, level
  <2>3. RunWith(s, item) \in Runs(T)
    <3> DEFINE K == KeptOn(s, item) \cup {item.text}
    <3>1. KeptOn(s, item) \subseteq S
      <4>1. DOMAIN run = S
        BY <1>6
      <4>2. KeptOn(s, item) \subseteq DOMAIN run
        BY DEF KeptOn, run
      <4> QED
        BY <4>1, <4>2
    <3>2. K \in SUBSET T
      BY <1>5, <1>6, <3>1
    <3>3. \A x \in K : (IF x = item.text THEN level ELSE run[x]) \in Nat \ {0}
      BY <1>6, <2>1, <3>1
    <3>4. RunWith(s, item) = [x \in K |-> IF x = item.text THEN level ELSE run[x]]
      BY DEF RunWith, level, run
    <3> HIDE DEF K
    <3>5. RunWith(s, item) \in [K -> Nat \ {0}]
      BY <3>3, <3>4
    <3> QED
      BY <3>2, <3>5 DEF Runs
  <2>4. Append(s.levels, level) \in Seq(Nat)
    BY <1>1, <2>1, AppendProperties
  <2> DEFINE r == RunWith(s, item) ls == Append(s.levels, level)
  <2> HIDE DEF t, r, ls
  <2>5. t = [run |-> r, prev |-> level, page |-> item.page, levels |-> ls]
    BY <2>2 DEF r, ls
  <2>6. t \in Nesting(I)
    BY <1>5, <2>1, <2>3, <2>4, <2>5 DEF Nesting, T, P, r, ls
  <2>7. t.run = r /\ t.prev = level /\ t.page = item.page /\ t.levels = ls
    BY <2>5
  <2> QED
    BY <1>7, <2>6, <2>7 DEF Nested, t, r, ls, level
<1>8. CASE item.kind = "content"
  <2>1. t = [s EXCEPT !.run = <<>>, !.prev = 0, !.levels = Append(@, 0)]
    BY <1>8 DEF Nest
  <2> HIDE DEF t
  <2>2. s = [run |-> s.run, prev |-> s.prev, page |-> s.page, levels |-> s.levels]
    BY DEF Nesting
  <2>3. t = [run |-> <<>>, prev |-> 0, page |-> s.page, levels |-> Append(s.levels, 0)]
    BY <2>1, <2>2
  <2>4. Append(s.levels, 0) \in Seq(Nat)
    BY <1>1, AppendProperties
  <2> DEFINE ls == Append(s.levels, 0) none == <<>>
  <2> HIDE DEF ls, none
  <2>5. t = [run |-> none, prev |-> 0, page |-> s.page, levels |-> ls]
    BY <2>3 DEF ls, none
  <2>6. t \in Nesting(I)
    BY <1>1, <1>3, <2>4, <2>5 DEF Nesting, T, P, ls, none
  <2>7. t.run = none /\ t.prev = 0 /\ t.page = s.page /\ t.levels = ls
    BY <2>5
  <2> QED
    BY <1>8, <2>6, <2>7 DEF Nested, t, ls, none
<1> QED
  BY <1>2, <1>7, <1>8

\* The nesting item by item.
NestedBy(after, items, I) ==
  LET N == Len(items)
  IN  /\ N \in Nat /\ after \in [0..N -> Nesting(I)]
      /\ after[0].run = <<>> /\ after[0].prev = 0 /\ after[0].levels = <<>>
      /\ \A n \in 1..N : Nested(after[n], after[n - 1], items[n])
      /\ NestHeaderRuns(items) = after[N].levels

\* They can be nested, one level to an item.
LEMMA NestingFacts ==
  ASSUME NEW I, FlatHeaders(I), NEW items \in Seq(I)
  PROVE  \E after : NestedBy(after, items, I)
<1> DEFINE N == Len(items) D == Nesting(I)
           first == [run |-> <<>>, prev |-> 0, page |-> 0, levels |-> <<>>]
           F == [x \in D \X (1..N) |-> Nest(x[1], items[x[2]])]
           Equal(f) == f = [n \in 0..N |-> IF n = 0 THEN [run |-> <<>>, prev |-> 0, page |-> 0, levels |-> <<>>]
                                           ELSE Nest(f[n - 1], items[n])]
           after == CHOOSE f : Equal(f)
<1>1. NestHeaderRuns(items) = after[N].levels
  BY DEF NestHeaderRuns
<1>2. N \in Nat /\ \A n \in 1..N : items[n] \in I
  BY LenProperties, ElementOfSeq
<1>3. first \in D /\ first.run = <<>> /\ first.prev = 0 /\ first.levels = <<>>
  <2> DEFINE none == <<>> T == {i.text : i \in I} P == {i.page : i \in I} \cup {0}
  <2>1. none \in Runs(T)
    <3>1. none \in [{} -> Nat \ {0}] /\ {} \in SUBSET T
      OBVIOUS
    <3> HIDE DEF T, none
    <3> QED
      BY <3>1 DEF Runs
  <2>2. none \in Seq(Nat)
    BY EmptySeq
  <2>3. 0 \in P
    OBVIOUS
  <2>4. first = [run |-> none, prev |-> 0, page |-> 0, levels |-> none]
    OBVIOUS
  <2> HIDE DEF none, T, P, first
  <2>5. first \in D
    BY <2>1, <2>2, <2>3, <2>4 DEF Nesting, T, P
  <2>6. first.run = none /\ first.prev = 0 /\ first.levels = none
    BY <2>4
  <2> QED
    BY <2>5, <2>6 DEF none
<1>4. \A s \in D, n \in 1..N : Nest(s, items[n]) \in D /\ Nested(Nest(s, items[n]), s, items[n])
  BY <1>2, NestFacts
<1> HIDE DEF N, D
<1>5. /\ F \in [D \X (1..N) -> D]
      /\ \A x \in D, n \in 1..N : F[<<x, n>>] = Nest(x, items[n])
  BY <1>4
<1> HIDE DEF F
<1>6. \E f : Equal(f)
  <2> HIDE DEF first
  <2>1. PICK f : Chained(f, D, first, N, F)
    BY <1>2, <1>3, <1>5, Chain
  <2>2. f \in [0..N -> D] /\ f[0] = first /\ \A n \in 1..N : f[n] = F[<<f[n - 1], n>>]
    BY <2>1 DEF Chained
  <2>3. ASSUME NEW n \in 1..N PROVE f[n] = Nest(f[n - 1], items[n])
    <3>1. n - 1 \in 0..N
      BY <1>2
    <3>2. f[n - 1] \in D
      BY <2>2, <3>1
    <3> QED
      BY <1>5, <2>2, <3>2
  <2>4. Equal(f)
    <3>1. f = [n \in 0..N |-> f[n]]
      BY <2>2
    <3>2. \A n \in 0..N : n = 0 \/ n \in 1..N
      BY <1>2
    <3> QED
      BY <2>2, <2>3, <3>1, <3>2 DEF first
  <2> QED
    BY <2>4
<1>7. Equal(after)
  BY <1>6
<1> HIDE DEF after
<1>8. after[0] = first /\ \A n \in 1..N : after[n] = Nest(after[n - 1], items[n])
  <2>1. 0 \in 0..N /\ \A n \in 1..N : n \in 0..N /\ n # 0
    BY <1>2
  <2>2. after[0] = first
    BY <1>7, <2>1
  <2>3. ASSUME NEW n \in 1..N PROVE after[n] = Nest(after[n - 1], items[n])
    BY <1>7, <2>1
  <2> QED
    BY <2>2, <2>3
<1> HIDE DEF first
<1> DEFINE G == {n \in 0..N : after[n] \in D}
<1>9. 0 \in G
  BY <1>2, <1>3, <1>8
<1>10. ASSUME NEW n \in 1..N, n - 1 \in G PROVE n \in G
  <2>1. Nest(after[n - 1], items[n]) \in D
    BY <1>4, <1>10
  <2> QED
    BY <1>2, <1>8, <2>1
<1>11. \A n \in 0..N : n \in G
  <2> HIDE DEF G
  <2> QED
    BY <1>2, <1>9, <1>10, Upwards
<1>12. after \in [0..N -> D]
  <2>1. after = [n \in 0..N |-> after[n]]
    BY <1>7
  <2> QED
    BY <1>11, <2>1
<1>13. \A n \in 1..N : Nested(after[n], after[n - 1], items[n])
  <2> SUFFICES ASSUME NEW n \in 1..N PROVE Nested(after[n], after[n - 1], items[n])
    OBVIOUS
  <2>1. n - 1 \in 0..N
    BY <1>2
  <2>2. after[n - 1] \in D
    BY <1>12, <2>1
  <2> QED
    BY <1>4, <1>8, <2>2
<1>14. NestedBy(after, items, I)
  BY <1>1, <1>2, <1>3, <1>8, <1>12, <1>13 DEF NestedBy, N, D
<1> QED
  BY <1>14

\* What one item's level is, which no later item changes.
Levelled(levels, after, items) ==
  LET N == Len(items)
  IN  /\ levels \in [1..N -> Nat]
      /\ \A n \in 1..N : /\ items[n].kind = "header" => levels[n] = LevelOf(after[n - 1], items[n])
                         /\ items[n].kind = "content" => levels[n] = 0

\* Each item keeps the level it was given when it was reached.
LEMMA LevelFacts ==
  ASSUME NEW I, FlatHeaders(I), NEW items \in Seq(I), NEW after, NestedBy(after, items, I)
  PROVE  Levelled(NestHeaderRuns(items), after, items)
<1> DEFINE N == Len(items)
           Own(n) == IF items[n].kind = "header" THEN LevelOf(after[n - 1], items[n]) ELSE 0
           G == {n \in 0..N : /\ Len(after[n].levels) = n
                              /\ \A i \in 1..n : after[n].levels[i] = Own(i)}
<1>1. /\ N \in Nat /\ after \in [0..N -> Nesting(I)] /\ after[0].levels = <<>>
      /\ \A n \in 1..N : Nested(after[n], after[n - 1], items[n])
      /\ NestHeaderRuns(items) = after[N].levels
  BY DEF NestedBy
<1>2. \A n \in 1..N : items[n].kind \in {"header", "content"}
  BY <1>1, ElementOfSeq DEF FlatHeaders
<1>3. \A n \in 0..N : after[n].levels \in Seq(Nat)
  BY <1>1 DEF Nesting
<1> HIDE DEF N
<1>4. ASSUME NEW n \in 1..N PROVE after[n].levels = Append(after[n - 1].levels, Own(n))
  <2>1. Nested(after[n], after[n - 1], items[n]) /\ items[n].kind \in {"header", "content"}
    BY <1>1, <1>2
  <2> QED
    BY <2>1 DEF Nested
<1> HIDE DEF Own
<1>5. 0 \in G
  <2>1. Len(after[0].levels) = 0
    BY <1>1
  <2> QED
    BY <1>1, <2>1
<1>6. ASSUME NEW n \in 1..N, n - 1 \in G PROVE n \in G
  <2> DEFINE ls == after[n - 1].levels ms == after[n].levels own == Own(n)
  <2>1. n - 1 \in 0..N /\ n \in 0..N /\ n - 1 \in Nat
    BY <1>1
  <2>2. ls \in Seq(Nat) /\ ms \in Seq(Nat) /\ ms = Append(ls, own)
    BY <1>3, <1>4, <2>1
  <2>3. Len(ls) = n - 1 /\ \A i \in 1..n - 1 : ls[i] = Own(i)
    BY <1>6
  <2> HIDE DEF ls, ms, own
  <2>4. /\ Len(ms) = n
        /\ ms[n] = own /\ \A i \in 1..n - 1 : ms[i] = ls[i]
    <3>1. Len(Append(ls, own)) = Len(ls) + 1
      BY <2>2
    <3>2. \A i \in 1..Len(ls) + 1 : Append(ls, own)[i] = IF i = Len(ls) + 1 THEN own ELSE ls[i]
      BY <2>2
    <3>3. Len(ls) + 1 = n /\ n \in 1..n /\ \A i \in 1..n - 1 : i \in 1..n /\ i # n
      BY <2>3
    <3> QED
      BY <2>2, <3>1, <3>2, <3>3
  <2>5. ASSUME NEW i \in 1..n PROVE ms[i] = Own(i)
    <3>1. i = n \/ i \in 1..n - 1
      OBVIOUS
    <3> QED
      BY <2>3, <2>4, <3>1 DEF own
  <2> QED
    BY <2>1, <2>4, <2>5 DEF ms
<1>7. \A n \in 0..N : n \in G
  <2> HIDE DEF G
  <2> QED
    BY <1>1, <1>5, <1>6, Upwards
<1> DEFINE levels == NestHeaderRuns(items)
<1>8. Len(levels) = N /\ levels \in Seq(Nat) /\ \A i \in 1..N : levels[i] = Own(i)
  <2>1. N \in G /\ N \in 0..N
    BY <1>1, <1>7
  <2> QED
    BY <1>1, <1>3, <2>1
<1> HIDE DEF levels
<1>9. levels \in [1..N -> Nat]
  BY <1>8, LenProperties
<1>10. Levelled(levels, after, items)
  BY <1>8, <1>9 DEF Levelled, Own, N
<1> QED
  BY <1>10 DEF levels

\* A header opens its level and closes those below.
Opening(trail, level, text) ==
  [l \in {k \in DOMAIN trail : k < level} \cup {level} |-> IF l = level THEN text ELSE trail[l]]
OpenTrails(T) == UNION {[S -> T] : S \in SUBSET (Nat \ {0})}
OpenedBy(open, items, levels) ==
  LET N == Len(items)
  IN  /\ DOMAIN open = 0..N /\ \A n \in 0..N : DOMAIN open[n] \subseteq Nat \ {0}
      /\ \A n \in 1..N : /\ levels[n] = 0 => open[n] = open[n - 1]
                         /\ levels[n] # 0 => open[n] = Opening(open[n - 1], levels[n], items[n].text)
      /\ Trail(items, N + 1) = Picked(open[N], DOMAIN open[N])

\* Headings can be opened item by item.
LEMMA OpenFacts ==
  ASSUME NEW I, NEW items \in Seq(I), NEW levels, levels = NestHeaderRuns(items),
         levels \in [1..Len(items) -> Nat]
  PROVE  \E open : OpenedBy(open, items, levels)
<1> DEFINE N == Len(items) T == {i.text : i \in I} D == OpenTrails(T)
           Following(trail, n) == IF levels[n] = 0 THEN trail ELSE Opening(trail, levels[n], items[n].text)
           F == [x \in D \X (1..N) |-> Following(x[1], x[2])]
           Equal(f) == f = [n \in 0..N |-> IF n = 0 THEN <<>> ELSE Following(f[n - 1], n)]
           open == CHOOSE f : Equal(f)
<1>1. N \in Nat /\ N + 1 - 1 = N /\ \A n \in 1..N : items[n].text \in T
  BY LenProperties, ElementOfSeq
<1>2. Trail(items, N + 1) = Picked(open[N], DOMAIN open[N])
  <2> DEFINE Equal0(f) == f = [n \in 0..N + 1 - 1 |-> IF n = 0 THEN <<>> ELSE Following(f[n - 1], n)]
             open0 == CHOOSE f : Equal0(f)
  <2>1. Trail(items, N + 1) = Picked(open0[N + 1 - 1], DOMAIN open0[N + 1 - 1])
    BY DEF Trail, Opening
  <2>2. open0 = open
    BY <1>1
  <2> HIDE DEF open0, open
  <2> QED
    BY <1>1, <2>1, <2>2
<1>3. <<>> \in D
  <2>1. <<>> \in [{} -> T] /\ {} \in SUBSET (Nat \ {0})
    OBVIOUS
  <2> HIDE DEF T
  <2> QED
    BY <2>1 DEF OpenTrails
<1> HIDE DEF N, T
<1>4. ASSUME NEW trail \in D, NEW n \in 1..N PROVE Following(trail, n) \in D
  <2>1. CASE levels[n] = 0
    BY <2>1
  <2>2. CASE levels[n] # 0
    <3> DEFINE level == levels[n] text == items[n].text K == {k \in DOMAIN trail : k < level} \cup {level}
    <3>1. level \in Nat \ {0} /\ text \in T
      BY <1>1, <2>2 DEF N
    <3>2. PICK S \in SUBSET (Nat \ {0}) : trail \in [S -> T]
      BY DEF OpenTrails
    <3> HIDE DEF level, text
    <3>3. K \in SUBSET (Nat \ {0})
      BY <3>1, <3>2
    <3>4. \A l \in K : (IF l = level THEN text ELSE trail[l]) \in T
      BY <3>1, <3>2
    <3>5. Opening(trail, level, text) = [l \in K |-> IF l = level THEN text ELSE trail[l]]
      BY DEF Opening
    <3> HIDE DEF K
    <3>6. Opening(trail, level, text) \in [K -> T]
      BY <3>4, <3>5
    <3>7. Opening(trail, level, text) \in D
      BY <3>3, <3>6 DEF OpenTrails
    <3> QED
      BY <2>2, <3>7 DEF level, text
  <2> QED
    BY <2>1, <2>2
<1> HIDE DEF D, Following
<1>5. /\ F \in [D \X (1..N) -> D]
      /\ \A x \in D, n \in 1..N : F[<<x, n>>] = Following(x, n)
  BY <1>4
<1> HIDE DEF F
<1>6. \E f : Equal(f)
  <2> DEFINE none == <<>>
  <2>0. none \in D
    BY <1>3
  <2> HIDE DEF none
  <2>1. PICK f : Chained(f, D, none, N, F)
    BY <1>1, <1>5, <2>0, Chain
  <2>2. f \in [0..N -> D] /\ f[0] = none /\ \A n \in 1..N : f[n] = F[<<f[n - 1], n>>]
    BY <2>1 DEF Chained
  <2>3. ASSUME NEW n \in 1..N PROVE f[n] = Following(f[n - 1], n)
    <3>1. n - 1 \in 0..N
      BY <1>1
    <3>2. f[n - 1] \in D
      BY <2>2, <3>1
    <3> QED
      BY <1>5, <2>2, <3>2
  <2>4. Equal(f)
    <3>1. f = [n \in 0..N |-> f[n]]
      BY <2>2
    <3>2. \A n \in 0..N : n = 0 \/ n \in 1..N
      BY <1>1
    <3> QED
      BY <2>2, <2>3, <3>1, <3>2 DEF none
  <2> QED
    BY <2>4
<1>7. Equal(open)
  BY <1>6
<1> HIDE DEF open
<1>8. open[0] = <<>> /\ (\A n \in 1..N : open[n] = Following(open[n - 1], n)) /\ DOMAIN open = 0..N
  <2>1. 0 \in 0..N /\ \A n \in 1..N : n \in 0..N /\ n # 0
    BY <1>1
  <2>2. open[0] = <<>>
    BY <1>7, <2>1
  <2>3. ASSUME NEW n \in 1..N PROVE open[n] = Following(open[n - 1], n)
    BY <1>7, <2>1
  <2>4. DOMAIN open = 0..N
    BY <1>7
  <2> QED
    BY <2>2, <2>3, <2>4
<1> DEFINE G == {n \in 0..N : open[n] \in D}
<1>9. 0 \in G
  BY <1>1, <1>3, <1>8
<1>10. ASSUME NEW n \in 1..N, n - 1 \in G PROVE n \in G
  <2>1. Following(open[n - 1], n) \in D
    BY <1>4, <1>10
  <2> QED
    BY <1>1, <1>8, <2>1
<1>11. \A n \in 0..N : n \in G
  <2> HIDE DEF G
  <2> QED
    BY <1>1, <1>9, <1>10, Upwards
<1>12. ASSUME NEW n \in 0..N PROVE DOMAIN open[n] \subseteq Nat \ {0}
  <2>1. open[n] \in D
    BY <1>11
  <2>2. PICK S \in SUBSET (Nat \ {0}) : open[n] \in [S -> T]
    BY <2>1 DEF D, OpenTrails
  <2> QED
    BY <2>2
<1>13. \A n \in 1..N : /\ levels[n] = 0 => open[n] = open[n - 1]
                       /\ levels[n] # 0 => open[n] = Opening(open[n - 1], levels[n], items[n].text)
  BY <1>8 DEF Following
<1>14. OpenedBy(open, items, levels)
  BY <1>2, <1>8, <1>12, <1>13 DEF OpenedBy, N
<1> QED
  BY <1>14

\* Items stand in one run up to the end.
OneRun(items, k) == \A i \in k..Len(items) : items[i].kind = "header" /\ items[i].page = items[Len(items)].page
StartsAt(items, from) ==
  LET n == Len(items)
  IN  /\ from \in 1..n + 1 /\ (from = n + 1 \/ OneRun(items, from))
      /\ from > 1 => ~OneRun(items, from - 1)
      /\ Run(items) = [i \in 1..n - from + 1 |-> items[from + i - 1].text]

\* Every sequence of items has a place where its last run starts.
LEMMA RunFacts ==
  ASSUME NEW I, NEW items \in Seq(I)
  PROVE  \E from : StartsAt(items, from)
<1> DEFINE n == Len(items)
           Good(k) == (k = n + 1 \/ OneRun(items, k)) /\ (k > 1 => ~OneRun(items, k - 1))
           T == {k \in 1..n + 1 : k = n + 1 \/ OneRun(items, k)}
           from == CHOOSE k \in 1..n + 1 : Good(k)
<1>1. n \in Nat
  BY LenProperties
<1>2. Run(items) = [i \in 1..n - from + 1 |-> items[from + i - 1].text]
  BY DEF Run, OneRun
<1> HIDE DEF n
<1>3. PICK k \in T : \A y \in T : k <= y
  <2>1. n + 1 \in T /\ T \in SUBSET Nat
    BY <1>1
  <2> HIDE DEF T
  <2> QED
    BY <2>1, LeastNumber
<1>4. k \in 1..n + 1 /\ Good(k)
  <2>1. k > 1 => k - 1 \in 1..n + 1 /\ ~(k <= k - 1)
    BY <1>1
  <2> QED
    BY <1>3, <2>1
<1>5. from \in 1..n + 1 /\ Good(from)
  <2> HIDE DEF Good
  <2> QED
    BY <1>4
<1> HIDE DEF from
<1>6. StartsAt(items, from)
  BY <1>2, <1>5 DEF StartsAt, n
<1> QED
  BY <1>6

\* Where a run starts nothing is open from before it.
LEMMA RunStarts ==
  ASSUME NEW I, FlatHeaders(I), NEW items \in Seq(I), NEW after, NestedBy(after, items, I),
         NEW from, StartsAt(items, from), from <= Len(items)
  PROVE  /\ items[from].kind = "header"
         /\ DOMAIN RunOf(after[from - 1], items[from]) = {} /\ PrevOf(after[from - 1], items[from]) = 0
<1> DEFINE n == Len(items) s == after[from - 1] item == items[from]
<1>1. /\ n \in Nat /\ after \in [0..n -> Nesting(I)]
      /\ after[0].run = <<>> /\ after[0].prev = 0
      /\ \A k \in 1..n : Nested(after[k], after[k - 1], items[k])
  BY DEF NestedBy
<1>2. from \in 1..n /\ OneRun(items, from) /\ (from > 1 => ~OneRun(items, from - 1))
  BY <1>1 DEF StartsAt
<1>3. item.kind = "header" /\ item.page = items[n].page
  <2>1. from \in from..n
    BY <1>1, <1>2
  <2> QED
    BY <1>2, <2>1 DEF OneRun
<1>4. DOMAIN <<>> = {}
  OBVIOUS
<1>5. ASSUME s.run = <<>>, s.prev = 0
      PROVE  DOMAIN RunOf(s, item) = {} /\ PrevOf(s, item) = 0
  BY <1>4, <1>5 DEF RunOf, PrevOf
<1>6. CASE from = 1
  <2>1. from - 1 = 0
    BY <1>6
  <2>2. s.run = <<>> /\ s.prev = 0
    BY <1>1, <2>1
  <2> QED
    BY <1>3, <1>5, <2>2
<1>7. CASE from # 1
  <2> DEFINE b == items[from - 1]
  <2>1. from - 1 \in 1..n /\ from > 1
    BY <1>1, <1>2, <1>7
  <2>2. ~(b.kind = "header" /\ b.page = items[n].page)
    <3>1. ASSUME b.kind = "header", b.page = items[n].page PROVE FALSE
      <4>1. \A i \in from - 1..n : i = from - 1 \/ i \in from..n
        BY <1>1, <1>2
      <4>2. OneRun(items, from - 1)
        BY <1>2, <3>1, <4>1 DEF OneRun
      <4> QED
        BY <1>2, <2>1, <4>2
    <3> QED
      BY <3>1
  <2>3. Nested(s, after[from - 1 - 1], b)
    BY <1>1, <2>1
  <2>4. b.kind \in {"header", "content"}
    BY <2>1, ElementOfSeq DEF FlatHeaders
  <2>5. CASE b.kind = "content"
    <3>1. s.run = <<>> /\ s.prev = 0
      BY <2>3, <2>5 DEF Nested
    <3> QED
      BY <1>3, <1>5, <3>1
  <2>6. CASE b.kind = "header"
    <3>1. s.page = b.page
      BY <2>3, <2>6 DEF Nested
    <3>2. Fresh(s, item)
      BY <1>3, <2>2, <2>6, <3>1 DEF Fresh
    <3> QED
      BY <1>3, <1>4, <3>2 DEF RunOf, PrevOf
  <2> QED
    BY <2>4, <2>5, <2>6
<1> QED
  BY <1>6, <1>7

\* In a run each header is nested right below the one before it.
Standing(s, run, j, page) ==
  /\ s.page = page /\ s.prev = j
  /\ DOMAIN s.run = {run[i] : i \in 1..j} /\ \A i \in 1..j : s.run[run[i]] = i

\* So it is item by item up to the end of the run.
LEMMA RunNests ==
  ASSUME NEW I, FlatHeaders(I), NEW items \in Seq(I), NEW after, NestedBy(after, items, I),
         NEW from, StartsAt(items, from), NEW run, run = Run(items), run # <<>>,
         IsInjective(run), Len(run) <= MaxRunDepth
  PROVE  /\ from \in 1..Len(items) /\ Len(run) = Len(items) - from + 1
         /\ DOMAIN run = 1..Len(run) /\ \A j \in 1..Len(run) : run[j] = items[from + j - 1].text
         /\ \A j \in 1..Len(run) : NestHeaderRuns(items)[from + j - 1] = j
<1> DEFINE n == Len(items) m == n - from + 1 page == items[n].page levels == NestHeaderRuns(items)
<1>1. /\ n \in Nat /\ after \in [0..n -> Nesting(I)]
      /\ \A k \in 1..n : Nested(after[k], after[k - 1], items[k])
  BY DEF NestedBy
<1>2. /\ from \in 1..n + 1 /\ (from = n + 1 \/ OneRun(items, from))
      /\ run = [i \in 1..m |-> items[from + i - 1].text]
  BY DEF StartsAt
<1> HIDE DEF n
<1>3. m \in Nat
  BY <1>1, <1>2
<1>4. Len(run) = m /\ DOMAIN run = 1..m /\ \A j \in 1..m : run[j] = items[from + j - 1].text
  <2> HIDE DEF m
  <2> QED
    BY <1>2, <1>3
<1>5. from \in 1..n /\ m > 0
  <2>1. ASSUME m = 0 PROVE FALSE
    <3>1. 1..m = {}
      BY <2>1
    <3>2. run = <<>>
      <4> HIDE DEF m
      <4> QED
        BY <1>2, <3>1
    <3> QED
      BY <3>2
  <2> QED
    BY <1>1, <1>2, <1>3, <2>1
<1>6. Levelled(levels, after, items)
  BY LevelFacts
<1> HIDE DEF levels
<1>7. ASSUME NEW j \in 1..m
      PROVE  LET k == from + j - 1 IN
             /\ k \in 1..n /\ items[k].kind = "header" /\ items[k].page = page
             /\ items[k].level = 1 /\ items[k].text = run[j]
             /\ Nested(after[k], after[k - 1], items[k]) /\ levels[k] = LevelOf(after[k - 1], items[k])
  <2> DEFINE k == from + j - 1
  <2>1. k \in 1..n /\ k \in from..n /\ from # n + 1
    BY <1>1, <1>5
  <2> HIDE DEF k
  <2>2. items[k].kind = "header" /\ items[k].page = page
    BY <1>2, <2>1 DEF OneRun, n
  <2>3. items[k] \in I
    BY <2>1, ElementOfSeq DEF n
  <2>4. items[k].level = 1
    BY <2>2, <2>3 DEF FlatHeaders
  <2>5. items[k].text = run[j]
    BY <1>4 DEF k
  <2>6. Nested(after[k], after[k - 1], items[k])
    BY <1>1, <2>1
  <2>7. levels[k] = LevelOf(after[k - 1], items[k])
    BY <1>6, <2>1, <2>2 DEF Levelled, n
  <2> QED
    BY <2>1, <2>2, <2>4, <2>5, <2>6, <2>7 DEF k
<1> DEFINE G == {j \in 0..m : j > 0 => /\ Standing(after[from + j - 1], run, j, page)
                                       /\ levels[from + j - 1] = j}
<1>8. 0 \in G
  BY <1>3
<1>9. ASSUME NEW j \in 1..m, j - 1 \in G PROVE j \in G
  <2> DEFINE k == from + j - 1 s == after[k - 1] t == after[k] item == items[k]
  <2>1. /\ k \in 1..n /\ item.kind = "header" /\ item.page = page
        /\ item.level = 1 /\ item.text = run[j]
        /\ Nested(t, s, item) /\ levels[k] = LevelOf(s, item)
    BY <1>7
  <2>2. DOMAIN RunOf(s, item) = {run[i] : i \in 1..j - 1} /\ PrevOf(s, item) = j - 1
        /\ \A i \in 1..j - 1 : RunOf(s, item)[run[i]] = i
    <3>1. CASE j = 1
      <4>1. k = from
        BY <1>5, <3>1
      <4>2. DOMAIN RunOf(s, item) = {} /\ PrevOf(s, item) = 0
        BY <1>5, <4>1, RunStarts DEF n
      <4>3. 1..j - 1 = {}
        BY <3>1
      <4> QED
        BY <3>1, <4>2, <4>3
    <3>2. CASE j # 1
      <4>1. j - 1 \in 1..m /\ j - 1 > 0 /\ from + (j - 1) - 1 = k - 1
        <5>1. from \in Nat /\ n \in Nat /\ j \in Nat
          BY <1>1, <1>5
        <5> QED
          BY <1>3, <3>2, <5>1
      <4>2. Standing(s, run, j - 1, page)
        BY <1>9, <4>1
      <4>3. ~Fresh(s, item)
        BY <2>1, <4>2 DEF Fresh, Standing
      <4> QED
        BY <4>2, <4>3 DEF RunOf, PrevOf, Standing
    <3> QED
      BY <3>1, <3>2
  <2> HIDE DEF k, s, t, item
  <2>3. item.text \notin DOMAIN RunOf(s, item)
    <3>1. ASSUME NEW i \in 1..j - 1, run[i] = run[j] PROVE FALSE
      <4>1. i \in 1..m /\ i # j
        BY <1>3
      <4>2. i = j
        BY <1>4, <3>1, <4>1 DEF IsInjective
      <4> QED
        BY <4>1, <4>2
    <3> QED
      BY <2>1, <2>2, <3>1
  <2>4. LevelOf(s, item) = j
    <3>1. j <= MaxRunDepth /\ MaxRunDepth \in Nat
      <4>1. m <= MaxRunDepth /\ MaxRunDepth \in Nat
        BY <1>4, ChunkingAssumption
      <4> QED
        BY <1>3, <4>1
    <3>2. CASE j = 1
      BY <2>1, <2>2, <2>3, <3>2 DEF LevelOf
    <3>3. CASE j # 1
      <4>1. ~(item.level > PrevOf(s, item)) /\ j - 1 + 1 = j
        BY <2>1, <2>2, <3>3
      <4>2. LevelOf(s, item) = Least(PrevOf(s, item) + 1, MaxRunDepth)
        BY <2>3, <4>1 DEF LevelOf
      <4>3. Least(j, MaxRunDepth) = j
        BY <3>1 DEF Least
      <4> QED
        BY <2>2, <4>1, <4>2, <4>3
    <3> QED
      BY <3>2, <3>3
  <2>5. t.run = RunWith(s, item) /\ t.prev = j /\ t.page = page
    BY <2>1, <2>4 DEF Nested
  <2>6. DOMAIN t.run = {run[i] : i \in 1..j} /\ \A i \in 1..j : t.run[run[i]] = i
    <3> DEFINE before == {run[i] : i \in 1..j - 1} all == {run[i] : i \in 1..j}
    <3>1. KeptOn(s, item) = before
      BY <2>2, <2>3 DEF KeptOn
    <3>2. \A i \in 1..j : i = j \/ i \in 1..j - 1
      OBVIOUS
    <3>3. \A i \in 1..j - 1 : i \in 1..j
      OBVIOUS
    <3>4. before \cup {run[j]} = all
      BY <3>2, <3>3
    <3>5. t.run = [x \in all |-> IF x = run[j] THEN j ELSE RunOf(s, item)[x]]
      BY <2>1, <2>4, <2>5, <3>1, <3>4 DEF RunWith
    <3>6. ASSUME NEW i \in 1..j PROVE t.run[run[i]] = i
      <4>1. run[i] \in all
        OBVIOUS
      <4>2. CASE i = j
        BY <3>5, <4>1, <4>2
      <4>3. CASE i # j
        <5>1. i \in 1..j - 1
          BY <4>3
        <5>2. run[i] # run[j]
          BY <2>1, <2>2, <2>3, <5>1
        <5> QED
          BY <2>2, <3>5, <4>1, <5>1, <5>2
      <4> QED
        BY <4>2, <4>3
    <3>7. DOMAIN t.run = all
      BY <3>5
    <3> QED
      BY <3>6, <3>7
  <2>7. Standing(t, run, j, page) /\ levels[k] = j
    BY <2>1, <2>4, <2>5, <2>6 DEF Standing
  <2> QED
    BY <1>3, <2>7 DEF t, k
<1>10. \A j \in 0..m : j \in G
  <2> HIDE DEF G, m
  <2> QED
    BY <1>3, <1>8, <1>9, Upwards
<1>11. \A j \in 1..m : levels[from + j - 1] = j
  <2> SUFFICES ASSUME NEW j \in 1..m PROVE levels[from + j - 1] = j
    OBVIOUS
  <2>1. j \in 0..m /\ j > 0
    BY <1>3
  <2>2. j \in G
    BY <1>10, <2>1
  <2> QED
    BY <2>1, <2>2
<1> QED
  BY <1>4, <1>5, <1>11 DEF n, m, levels

\* The headings of what follows a run are the run.
LEMMA TrailIsRun ==
  ASSUME NEW I, FlatHeaders(I), NEW items \in Seq(I), NEW run, run = Run(items), run # <<>>,
         IsInjective(run), Len(run) <= MaxRunDepth
  PROVE  Trail(items, Len(items) + 1) = run
<1> DEFINE n == Len(items) levels == NestHeaderRuns(items) m == Len(run)
<1>1. PICK after : NestedBy(after, items, I)
  BY NestingFacts
<1>2. PICK from : StartsAt(items, from)
  BY RunFacts
<1>3. /\ from \in 1..n /\ m = n - from + 1
      /\ DOMAIN run = 1..m /\ \A j \in 1..m : run[j] = items[from + j - 1].text
      /\ \A j \in 1..m : levels[from + j - 1] = j
  BY <1>1, <1>2, RunNests
<1>4. n \in Nat /\ levels \in [1..n -> Nat]
  <2>1. Levelled(levels, after, items)
    BY <1>1, LevelFacts
  <2> HIDE DEF levels
  <2> QED
    BY <2>1, LenProperties DEF Levelled
<1>5. PICK open : OpenedBy(open, items, levels)
  BY <1>4, OpenFacts
<1>6. /\ \A k \in 0..n : DOMAIN open[k] \subseteq Nat \ {0}
      /\ \A k \in 1..n : levels[k] # 0 => open[k] = Opening(open[k - 1], levels[k], items[k].text)
      /\ Trail(items, n + 1) = Picked(open[n], DOMAIN open[n])
  BY <1>5 DEF OpenedBy
<1> HIDE DEF n, levels
<1>7. m \in Nat /\ from \in Nat \ {0} /\ m > 0
  BY <1>3, <1>4
<1>13. \A j \in 0..m : from + j - 1 \in 0..n /\ (j > 0 => from + j - 1 \in 1..n)
  BY <1>3, <1>4, <1>7
<1> HIDE DEF m
<1> DEFINE G == {j \in 0..m : /\ {x \in DOMAIN open[from + j - 1] : x < j + 1} = 1..j
                              /\ j > 0 => DOMAIN open[from + j - 1] = 1..j
                              /\ \A l \in 1..j : open[from + j - 1][l] = run[l]}
<1>8. 0 \in G
  <2>1. DOMAIN open[from + 0 - 1] \subseteq Nat \ {0}
    <3>1. 0 \in 0..m
      BY <1>7
    <3>2. from + 0 - 1 \in 0..n
      BY <1>13, <3>1
    <3> QED
      BY <1>6, <3>2
  <2>2. {x \in DOMAIN open[from + 0 - 1] : x < 0 + 1} = 1..0
    BY <2>1
  <2> QED
    BY <1>7, <2>2
<1>9. ASSUME NEW j \in 1..m, j - 1 \in G PROVE j \in G
  <2> DEFINE k == from + j - 1 t == open[k] s == open[k - 1]
  <2>1. k \in 1..n /\ from + (j - 1) - 1 = k - 1 /\ j - 1 + 1 = j /\ j \in 0..m /\ j > 0
    <3>1. j \in Nat /\ j > 0 /\ j \in 0..m /\ j - 1 + 1 = j
      BY <1>7
    <3>2. k \in 1..n
      BY <1>13, <3>1
    <3>3. from + (j - 1) - 1 = k - 1
      BY <1>7, <3>1
    <3> QED
      BY <3>1, <3>2, <3>3
  <2>2. levels[k] = j /\ items[k].text = run[j]
    BY <1>3
  <2>3. {x \in DOMAIN s : x < j} = 1..j - 1 /\ \A l \in 1..j - 1 : s[l] = run[l]
    BY <1>9, <2>1
  <2>4. t = Opening(s, j, run[j])
    BY <1>6, <2>1, <2>2
  <2> HIDE DEF s, t, k
  <2>5. (1..j - 1) \cup {j} = 1..j
    BY <2>1
  <2>6. t = [l \in 1..j |-> IF l = j THEN run[j] ELSE s[l]]
    BY <2>3, <2>4, <2>5 DEF Opening
  <2>7. DOMAIN t = 1..j
    BY <2>6
  <2>8. ASSUME NEW l \in 1..j PROVE t[l] = run[l]
    <3>1. l = j \/ l \in 1..j - 1
      OBVIOUS
    <3> QED
      BY <2>3, <2>6, <3>1
  <2>9. {x \in DOMAIN t : x < j + 1} = 1..j
    BY <2>7
  <2> QED
    BY <2>1, <2>7, <2>8, <2>9 DEF t, k
<1>10. \A j \in 0..m : j \in G
  <2> HIDE DEF G
  <2> QED
    BY <1>7, <1>8, <1>9, Upwards
<1>11. DOMAIN open[n] = 1..m /\ \A l \in 1..m : open[n][l] = run[l]
  <2>1. m \in G /\ from + m - 1 = n
    BY <1>3, <1>4, <1>7, <1>10
  <2> QED
    BY <1>7, <2>1
<1>12. Picked(open[n], 1..m) = [l \in 1..m |-> open[n][l]]
  BY <1>7, PickedAll
<1>14. run = [l \in 1..m |-> run[l]]
  <2>1. run = [i \in 1..Len(items) - from + 1 |-> items[from + i - 1].text]
    BY <1>2 DEF StartsAt
  <2> QED
    BY <1>3, <2>1 DEF n
<1>15. Trail(items, n + 1) = run
  BY <1>6, <1>11, <1>12, <1>14
<1> QED
  BY <1>15 DEF n

\* A document of chunks whose pictures have a placeholder each.
AnyDocument(c, H, W, I, R) ==
  NamedBy(I, R) /\ ToldApart(H, W, R) /\ c.base \in Seq(AnyChunk(H, W, I))

\* The headers and contents of a document.
AnyHeaders(c, I) == FlatHeaders(I) /\ c.items \in Seq(I)

\* Nothing of any document is misplaced.
LEMMA DocumentWhole ==
  ASSUME case.kind = "document" => \E H, W, I, R : AnyDocument(case, H, W, I, R),
         case.kind = "headers" => \E I : AnyHeaders(case, I)
  PROVE  NothingMisplaced
<1>1. ASSUME case.kind = "document"
      PROVE  /\ WellMerged(Chunks(case.base), case.base)
             /\ InPlace(ChunkDocument(case.base, case.described), case.base, case.described)
  <2>1. PICK H, W, I, R : AnyDocument(case, H, W, I, R)
    BY <1>1
  <2> DEFINE base == case.base described == case.described
  <2>2. NamedBy(I, R) /\ ToldApart(H, W, R) /\ base \in Seq(AnyChunk(H, W, I))
    BY <2>1 DEF AnyDocument
  <2> HIDE DEF base, described
  <2>3. WellMerged(Chunks(base), base)
    BY <2>2, MergedWell
  <2>4. InPlace(ChunkDocument(base, described), base, described)
    BY <2>2, RowsInPlace
  <2> QED
    BY <2>3, <2>4 DEF base, described
<1>2. ASSUME case.kind = "headers", Run(case.items) # <<>>, IsInjective(Run(case.items)),
             Len(Run(case.items)) <= MaxRunDepth
      PROVE  Trail(case.items, Len(case.items) + 1) = Run(case.items)
  <2>1. PICK I : AnyHeaders(case, I)
    BY <1>2
  <2> QED
    BY <1>2, <2>1, TrailIsRun DEF AnyHeaders
<1> QED
  BY <1>1, <1>2, Zenon DEF NothingMisplaced

-----------------------------------------------------------------------------
(* Documents: what the run parses.                                         *)

\* Two sequences of one element, one after the other.
LEMMA JoinTwo ==
  ASSUME NEW x, NEW y
  PROVE  <<x>> \o <<y>> = <<x, y>>
<1> DEFINE E == {x, y}
<1>1. <<x>> \in Seq(E)
  OBVIOUS
<1>2. <<y>> \in Seq(E)
  OBVIOUS
<1> DEFINE a == <<x>> b == <<y>> t == <<x, y>>
<1>3. Len(a) = 1 /\ a[1] = x /\ Len(b) = 1 /\ b[1] = y
  OBVIOUS
<1>4. t \in Seq(E) /\ Len(t) = 2 /\ t[1] = x /\ t[2] = y
  OBVIOUS
<1>5. a \in Seq(E) /\ b \in Seq(E)
  BY <1>1, <1>2
<1> HIDE DEF a, b, t, E
<1>6. a \o b \in Seq(E) /\ Len(a \o b) = 2 /\ (a \o b)[1] = x /\ (a \o b)[2] = y
  BY <1>3, <1>5, ConcatProperties
<1>7. a \o b = t
  BY <1>4, <1>6, SeqEqual
<1> QED
  BY <1>7 DEF a, b, t

\* Two flat sequences, one after the other.
LEMMA FlattenTwo ==
  ASSUME NEW D, NEW x \in Seq(D), NEW y \in Seq(D)
  PROVE  FlattenSeq(<<x, y>>) = x \o y
<1> DEFINE E == Seq(D)
<1> HIDE DEF E
<1>1. x \in E /\ y \in E
  BY DEF E
<1>2. <<x>> \in Seq(E) /\ <<y>> \in Seq(E) /\ <<x>> \o <<y>> = <<x, y>>
  <2>1. <<x>> \in Seq(E)
    BY <1>1
  <2>2. <<y>> \in Seq(E)
    BY <1>1
  <2> QED
    BY <2>1, <2>2, JoinTwo
<1>3. FlattenSeq(Joined(<<x>>, <<y>>)) = Joined(FlattenSeq(<<x>>), FlattenSeq(<<y>>))
  BY <1>2, FlattenConcat DEF E
<1>4. FlattenSeq(<<x>>) = x /\ FlattenSeq(<<y>>) = y
  BY FlattenOne
<1> QED
  BY <1>2, <1>3, <1>4 DEF Joined

\* The words, headings, pictures and items of the run.
RunWords == {<<"w", n>> : n \in 1..4} \cup {Image}
RunHeadings == {<<"h", n>> : n \in 1..4}
RunRefs == {"p1", "p2", "p3", "p4", "p5", "p6", "p7", "p8"}
RunItems == {Para(n) : n \in 1..4} \cup {Pic(n) : n \in 1..8}

\* They are of the kinds that the lemmas ask for.
LEMMA RunKinds == NamedBy(RunItems, RunRefs) /\ ToldApart(RunHeadings, RunWords, RunRefs)
<1>1. \A n \in 1..4 : Para(n).label = "text"
  BY DEF Para
<1>2. \A n \in 1..8 : PicRefs[n] \in RunRefs
  BY DEF PicRefs, RunRefs
<1>3. \A n \in 1..8 : Pic(n).ref \in RunRefs
  BY <1>2 DEF Pic
<1>4. NamedBy(RunItems, RunRefs)
  <2> SUFFICES ASSUME NEW i \in RunItems, i.label = "picture" PROVE i.ref \in RunRefs
    BY DEF NamedBy
  <2>1. i \in {Pic(n) : n \in 1..8}
    BY <1>1 DEF RunItems
  <2> QED
    BY <1>3, <2>1
<1>5. \A h \in RunHeadings : h[1] = "h"
  BY DEF RunHeadings
<1>6. \A w \in RunWords : w = Image \/ w[1] # "h"
  BY DEF RunWords
<1>7. "h" \notin RunRefs
  BY DEF RunRefs
<1> QED
  BY <1>4, <1>5, <1>6, <1>7 DEF ToldApart

\* What a chunk of one piece and at most two items holds.
LEMMA SmallChunk ==
  ASSUME NEW c, NEW D, NEW p, c.pieces = <<p>>, p.text \in Seq(D)
  PROVE  /\ Text(c) = p.text
         /\ \A i : c.items = <<i>> /\ i.label # "picture" => PictureRefs(c) = <<>>
         /\ \A i, k : c.items = <<i, k>> /\ k.label = "picture" =>
              PictureRefs(c) = IF i.label = "picture" THEN <<i.ref, k.ref>> ELSE <<k.ref>>
<1> DEFINE Name(i) == IF i.label = "picture" THEN <<i.ref>> ELSE <<>>
<1>1. Text(c) = p.text
  <2>1. Text(c) = FlattenSeq([n \in DOMAIN <<p>> |-> <<p>>[n].text])
    BY DEF Text, FlatMap
  <2>2. [n \in DOMAIN <<p>> |-> <<p>>[n].text] = <<p.text>>
    OBVIOUS
  <2>3. FlattenSeq(<<p.text>>) = p.text
    BY FlattenOne
  <2> QED
    BY <2>1, <2>2, <2>3
<1>2. ASSUME NEW i, c.items = <<i>>, i.label # "picture" PROVE PictureRefs(c) = <<>>
  <2>1. PictureRefs(c) = FlattenSeq([n \in DOMAIN <<i>> |-> Name(<<i>>[n])])
    BY <1>2 DEF PictureRefs, FlatMap
  <2>2. [n \in DOMAIN <<i>> |-> Name(<<i>>[n])] = << <<>> >>
    BY <1>2
  <2>3. FlattenSeq(<< <<>> >>) = <<>>
    <3>1. <<>> \in Seq({})
      BY EmptySeq
    <3> DEFINE none == <<>>
    <3> HIDE DEF none
    <3>2. FlattenSeq(<<none>>) = none
      BY <3>1, FlattenOne DEF none
    <3> QED
      BY <3>2 DEF none
  <2> QED
    BY <2>1, <2>2, <2>3
<1>3. ASSUME NEW i, NEW k, c.items = <<i, k>>, k.label = "picture"
      PROVE  PictureRefs(c) = IF i.label = "picture" THEN <<i.ref, k.ref>> ELSE <<k.ref>>
  <2> DEFINE x == Name(i) y == <<k.ref>> R == {i.ref, k.ref}
  <2>1. PictureRefs(c) = FlattenSeq([n \in DOMAIN <<i, k>> |-> Name(<<i, k>>[n])])
    BY <1>3 DEF PictureRefs, FlatMap
  <2>2. [n \in DOMAIN <<i, k>> |-> Name(<<i, k>>[n])] = <<x, y>>
    BY <1>3
  <2>3. x \in Seq(R) /\ y \in Seq(R)
    <3> DEFINE r == i.ref q == k.ref
    <3> HIDE DEF r, q
    <3>1. r \in R /\ q \in R
      BY DEF r, q
    <3> HIDE DEF R
    <3>2. <<>> \in Seq(R)
      BY EmptySeq
    <3>3. <<r>> \in Seq(R)
      BY <3>1
    <3>4. <<q>> \in Seq(R)
      BY <3>1
    <3>5. y \in Seq(R)
      BY <3>4 DEF q
    <3>6. x \in Seq(R)
      BY <3>2, <3>3 DEF r
    <3> QED
      BY <3>5, <3>6
  <2> HIDE DEF x, y
  <2>4. FlattenSeq(<<x, y>>) = x \o y
    BY <2>3, FlattenTwo
  <2>5. x \o y = IF i.label = "picture" THEN <<i.ref, k.ref>> ELSE <<k.ref>>
    <3>1. CASE i.label = "picture"
      BY <3>1, JoinTwo DEF x, y
    <3>2. CASE i.label # "picture"
      <4>1. x = <<>>
        BY <3>2 DEF x
      <4>2. <<>> \o y = y
        BY <2>3, ConcatEmptySeq
      <4> QED
        BY <3>2, <4>1, <4>2 DEF y
    <3> QED
      BY <3>1, <3>2
  <2> QED
    BY <2>1, <2>2, <2>4, <2>5
<1> QED
  BY <1>1, <1>2, <1>3

\* Each chunk of the run has a placeholder for each of its pictures.
LEMMA ParsedAligned ==
  ASSUME NEW n \in 1..4, NEW shape \in {"plain", "picture", "pictures"}, NEW tokens \in Nat
  PROVE  Parsed(n, shape, tokens) \in AnyChunk(RunHeadings, RunWords, RunItems)
<1> DEFINE c == Parsed(n, shape, tokens) w == <<"w", n>> h == <<"h", n>> H == RunHeadings W == RunWords I == RunItems
<1>1. w \in W /\ Image \in W /\ w # Image /\ h \in H
  BY ImageAssumption DEF RunWords, RunHeadings
<1>2. Para(n) \in I /\ Pic(n) \in I /\ Pic(n + 4) \in I
  <2>1. n \in 1..8 /\ n + 4 \in 1..8
    OBVIOUS
  <2> QED
    BY <2>1 DEF RunItems
<1>3. Para(n).label = "text" /\ Pic(n).label = "picture" /\ Pic(n + 4).label = "picture"
  BY DEF Para, Pic
<1>4. \A text : /\ Holes(text, 0) = 0
                /\ \A k \in Nat \ {0} : Holes(text, k) = Holes(text, k - 1) + IF text[k] = Image THEN 1 ELSE 0
  BY HolesStep
<1> HIDE DEF w, h, H, W, I
<1>5. ASSUME NEW p, p \in HeadedText(H, W), NEW items, items \in Seq(I),
             c = [tokens |-> tokens, items |-> items, pieces |-> <<p>>]
      PROVE  c \in Parts(H, W, I) /\ c.pieces = <<p>> /\ c.items = items /\ p.text \in Seq(W)
  <2>1. <<p>> \in Seq(HeadedText(H, W)) /\ p.text \in Seq(W)
    BY <1>5 DEF HeadedText
  <2> HIDE DEF c
  <2> QED
    BY <1>5, <2>1 DEF Parts
<1>6. CASE shape = "plain"
  <2> DEFINE p == [headings |-> <<h>>, text |-> <<w>>] i == Para(n)
  <2>1. c = [tokens |-> tokens, items |-> <<i>>, pieces |-> <<p>>]
    BY <1>6 DEF Parsed, h, w
  <2>2. p \in HeadedText(H, W) /\ <<i>> \in Seq(I) /\ p.text = <<w>>
    BY <1>1, <1>2 DEF HeadedText
  <2> HIDE DEF c, p, i
  <2>3. c \in Parts(H, W, I) /\ c.pieces = <<p>> /\ c.items = <<i>> /\ p.text \in Seq(W)
    BY <1>5, <2>1, <2>2
  <2>4. Text(c) = <<w>> /\ PictureRefs(c) = <<>>
    BY <1>3, <2>2, <2>3, SmallChunk DEF i
  <2>5. Holes(<<w>>, 1) = 0
    <3>1. Holes(<<w>>, 1) = Holes(<<w>>, 1 - 1) + 0
      BY <1>1, <1>4
    <3> QED
      BY <1>4, <3>1
  <2>6. Aligned(c)
    BY <2>4, <2>5 DEF Aligned
  <2> QED
    BY <2>3, <2>6 DEF AnyChunk, c, H, W, I
<1>7. CASE shape = "picture"
  <2> DEFINE p == [headings |-> <<h>>, text |-> <<w, Image>>] i == Para(n) k == Pic(n)
  <2>1. c = [tokens |-> tokens, items |-> <<i, k>>, pieces |-> <<p>>]
    BY <1>7 DEF Parsed, h, w
  <2>2. p \in HeadedText(H, W) /\ <<i, k>> \in Seq(I) /\ p.text = <<w, Image>>
    BY <1>1, <1>2 DEF HeadedText
  <2> HIDE DEF c, p, i, k
  <2>3. c \in Parts(H, W, I) /\ c.pieces = <<p>> /\ c.items = <<i, k>> /\ p.text \in Seq(W)
    BY <1>5, <2>1, <2>2
  <2>4. Text(c) = <<w, Image>> /\ PictureRefs(c) = <<k.ref>>
    BY <1>3, <2>2, <2>3, SmallChunk DEF i, k
  <2>5. Holes(<<w, Image>>, 2) = 1
    <3>1. Holes(<<w, Image>>, 1) = Holes(<<w, Image>>, 1 - 1) + 0
      BY <1>1, <1>4
    <3>2. Holes(<<w, Image>>, 2) = Holes(<<w, Image>>, 2 - 1) + 1
      BY <1>4
    <3> QED
      BY <1>4, <3>1, <3>2
  <2>6. Aligned(c)
    BY <2>4, <2>5 DEF Aligned
  <2> QED
    BY <2>3, <2>6 DEF AnyChunk, c, H, W, I
<1>8. CASE shape = "pictures"
  <2> DEFINE p == [headings |-> <<>>, text |-> <<Image, Image>>] i == Pic(n) k == Pic(n + 4)
  <2>1. c = [tokens |-> tokens, items |-> <<i, k>>, pieces |-> <<p>>]
    BY <1>8 DEF Parsed
  <2>2. p \in HeadedText(H, W) /\ <<i, k>> \in Seq(I) /\ p.text = <<Image, Image>>
    <3>1. <<>> \in Seq(H) /\ <<Image, Image>> \in Seq(W)
      BY <1>1, EmptySeq
    <3> QED
      BY <1>2, <3>1 DEF HeadedText
  <2> HIDE DEF c, p, i, k
  <2>3. c \in Parts(H, W, I) /\ c.pieces = <<p>> /\ c.items = <<i, k>> /\ p.text \in Seq(W)
    BY <1>5, <2>1, <2>2
  <2>4. Text(c) = <<Image, Image>> /\ PictureRefs(c) = <<i.ref, k.ref>>
    BY <1>3, <2>2, <2>3, SmallChunk DEF i, k
  <2>5. Holes(<<Image, Image>>, 2) = 2
    <3>1. Holes(<<Image, Image>>, 1) = Holes(<<Image, Image>>, 1 - 1) + 1
      BY <1>4
    <3>2. Holes(<<Image, Image>>, 2) = Holes(<<Image, Image>>, 2 - 1) + 1
      BY <1>4
    <3> QED
      BY <1>4, <3>1, <3>2
  <2>6. Aligned(c)
    BY <2>4, <2>5 DEF Aligned
  <2> QED
    BY <2>3, <2>6 DEF AnyChunk, c, H, W, I
<1> QED
  BY <1>6, <1>7, <1>8

\* Whatever the run parses is of those kinds.
Chunkable(c) ==
  /\ c.kind = "document" => AnyDocument(c, RunHeadings, RunWords, RunItems, RunRefs)
  /\ c.kind = "headers" => AnyHeaders(c, Headers)

\* Each input of the run is one of them.
LEMMA DocumentsTaken == Spec => []Chunkable(case)
<1>1. Init => Chunkable(case)
  BY DEF Init, Chunkable
<1>2. Chunkable(case) /\ [Next]_case => Chunkable(case)'
  <2> SUFFICES ASSUME Chunkable(case), [Next]_case PROVE Chunkable(case')
    OBVIOUS
  <2>1. ASSUME Next, case'.kind = "document"
        PROVE  AnyDocument(case', RunHeadings, RunWords, RunItems, RunRefs)
    <3> DEFINE C == AnyChunk(RunHeadings, RunWords, RunItems)
    <3>1. PICK n \in 1..4 : \E shapes \in [1..n -> {"plain", "picture", "pictures"}],
               tokens \in [1..n -> {1, 3, 6}], described \in {{}, {"p1", "p2", "p6"}, ToSet(PicRefs)} :
            case' = [kind |-> "document", described |-> described,
                     base |-> [i \in 1..n |-> Parsed(i, shapes[i], tokens[i])]]
      BY <2>1, TakenByKind DEF TakeDocument
    <3>2. PICK shapes \in [1..n -> {"plain", "picture", "pictures"}], tokens \in [1..n -> {1, 3, 6}] :
            case'.base = [i \in 1..n |-> Parsed(i, shapes[i], tokens[i])]
      BY <3>1
    <3>3. \A i \in 1..n : Parsed(i, shapes[i], tokens[i]) \in C
      <4> SUFFICES ASSUME NEW i \in 1..n PROVE Parsed(i, shapes[i], tokens[i]) \in C
        OBVIOUS
      <4>1. i \in 1..4 /\ shapes[i] \in {"plain", "picture", "pictures"} /\ tokens[i] \in Nat
        OBVIOUS
      <4> QED
        BY <4>1, ParsedAligned
    <3> HIDE DEF C
    <3>4. case'.base \in [1..n -> C] /\ n \in Nat
      BY <3>2, <3>3
    <3>5. case'.base \in Seq(C)
      BY <3>4, FunctionIsSeq
    <3> QED
      BY <3>5, RunKinds DEF AnyDocument, C
  <2>2. ASSUME Next, case'.kind = "headers" PROVE AnyHeaders(case', Headers)
    <3>1. PICK n \in 1..4 : \E items \in [1..n -> Headers] : case'.items = items
      BY <2>2, TakenByKind DEF TakeHeaders
    <3> HIDE DEF Headers
    <3>2. case'.items \in [1..n -> Headers] /\ n \in Nat
      BY <3>1
    <3>3. case'.items \in Seq(Headers)
      BY <3>2, FunctionIsSeq
    <3>4. FlatHeaders(Headers)
      BY DEF FlatHeaders, Headers
    <3> QED
      BY <3>3, <3>4 DEF AnyHeaders
  <2>3. CASE Next
    BY <2>1, <2>2, <2>3 DEF Chunkable
  <2>4. CASE UNCHANGED case
    BY <2>4
  <2> QED
    BY <2>3, <2>4
<1> QED
  BY <1>1, <1>2, PTL DEF Spec

\* However many chunks a document has and whatever they hold, as long as each
\* has a placeholder for each of its pictures, merging keeps every piece and
\* item in its place and its limit, the stored text and the embedded one have
\* each description where its picture stood, and no two undersized neighbours
\* could have been one; a run of headers of any length up to the deepest level,
\* no two of them the same, is the heading of what follows it; and so it is for
\* all inputs of the run (chunker.py).
THEOREM AnyNothingMisplaced ==
  /\ \A H, W, I, R, K :
       /\ case.kind = "document" => AnyDocument(case, H, W, I, R)
       /\ case.kind = "headers" => AnyHeaders(case, K)
       => NothingMisplaced
  /\ Spec => []NothingMisplaced
<1>1. \A H, W, I, R, K :
        /\ case.kind = "document" => AnyDocument(case, H, W, I, R)
        /\ case.kind = "headers" => AnyHeaders(case, K)
        => NothingMisplaced
  BY DocumentWhole
<1>2. Chunkable(case) => NothingMisplaced
  BY DocumentWhole DEF Chunkable
<1> QED
  BY <1>1, <1>2, DocumentsTaken, PTL
===============================================================================
