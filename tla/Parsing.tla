------------------------------ MODULE Parsing --------------------------------
(***************************************************************************)
(* One PDF through the parser: the conversion, what its pages hold when    *)
(* hardly any text came out, the second conversion with OCR, and the       *)
(* status under which the text is served.                                  *)
(*                                                                         *)
(* A conversion is [status, abandoned, pages, chars, glyphs, worded]: the  *)
(* converter's verdict, the pages its own timeout left out, those it       *)
(* reached, the text it found, whether that is full of unmapped glyphs,    *)
(* and whether it has the function words of prose.                         *)
(***************************************************************************)
EXTENDS Integers, SequencesExt

CONSTANTS
  Broken,                 \* a page, or a file, pdfium cannot read
  ProbeCharsPerPage, MinSampleChars, ScanTextObjects,
  OcrMaxPages, IngestMaxPages   \* 0: no limit

ASSUME ParsingAssumption ==
  {ProbeCharsPerPage, MinSampleChars, ScanTextObjects, OcrMaxPages, IngestMaxPages}
    \subseteq Nat
-----------------------------------------------------------------------------
(* What the pages of the file hold.  A page is [area, objects].            *)

TextObjects(page) == Len(SelectSeq(page.objects, LAMBDA o : o.kind = "text"))
\* An image counts for no more than the page; one without bounds for nothing.
ImageArea(page) ==
  FoldLeft(LAMBDA sum, o : CASE o.kind # "image" -> sum
                             [] o.kind = "image" /\ o.area > page.area /\ page.area > 0 ->
                                  sum + page.area
                             [] OTHER -> sum + o.area, 0, page.objects)

PageKind(page) ==
  CASE TextObjects(page) > ScanTextObjects -> "text"
    [] TextObjects(page) <= ScanTextObjects /\ page.area > 0
       /\ 2 * ImageArea(page) >= page.area -> "scanned"
    [] OTHER -> "blank"

\* A file that cannot be read to its end is judged only if it has shown text.
ClassifyPageContent(pdf) ==
  LET unread == IF pdf = Broken THEN 1 ELSE SelectInSeq(pdf, LAMBDA p : p = Broken)
      seen == IF pdf = Broken THEN <<>>
              ELSE IF unread = 0 THEN pdf ELSE SubSeq(pdf, 1, unread - 1)
      Count(kind) == Len(SelectSeq(seen, LAMBDA p : PageKind(p) = kind))
      considered == Count("scanned") + Count("text")
  IN  CASE unread # 0 /\ Count("text") = 0 -> "text"
        [] pdf = <<>> -> "text"
        [] pdf # <<>> /\ unread = 0 /\ considered = 0 -> "blank"
        [] OTHER -> IF 2 * Count("scanned") >= considered THEN "scanned" ELSE "text"
-----------------------------------------------------------------------------
(* What the parse made of it.                                              *)

LooksTextless(conv) == conv.pages > 0 /\ conv.chars < ProbeCharsPerPage * conv.pages

\* Too little text to judge is not held against a document.
Assess(conv) == conv.glyphs \/ (conv.chars >= MinSampleChars /\ ~conv.worded)

\* A conversion that stopped early, or failed, is not served.
CheckStatus(conv) == conv.abandoned = 0 /\ conv.status \in {"success", "partial_success"}

OcrRetryAllowed(pages) == OcrMaxPages <= 0 \/ pages <= OcrMaxPages

Served(conv, status, ocr) ==
  [raised |-> FALSE, conv |-> conv, status |-> status, ocr |-> ocr, held |-> FALSE]
\* A conversion that raises on its way out leaves the OCR models in memory.
Raised(ocr) == [raised |-> TRUE, conv |-> <<>>, status |-> "", ocr |-> ocr, held |-> ocr]

\* The converter's verdict with the way the text was reached.
Via ==
  [scan_ocr |-> [success |-> "success_scan_ocr", partial_success |-> "partial_success_scan_ocr"],
   ocr_fallback |-> [success |-> "success_ocr_fallback",
                     partial_success |-> "partial_success_ocr_fallback"]]

\* Mutant: the second conversion is taken to be complete.
RetryStatusFull(bad, worst, retry, path) == IF bad THEN worst ELSE Via[path].success
\* A second conversion is never reported as a plain success.
RetryStatus(bad, worst, retry, path) == IF bad THEN worst ELSE Via[path][retry.status]

\* Where the pages are images: OCR, if it is allowed, decides.
ParseScan(first, ocr, enabled) ==
  CASE ~(enabled /\ OcrRetryAllowed(first.pages)) -> Served(first, "scanned_no_text", FALSE)
    [] enabled /\ OcrRetryAllowed(first.pages) /\ ~CheckStatus(ocr) -> Raised(TRUE)
    [] OTHER -> Served(ocr, RetryStatus(LooksTextless(ocr), "scanned_no_text", ocr, "scan_ocr"),
                       TRUE)

\* Where text came out but cannot be read.
ParseGarbled(first, ocr) ==
  CASE ~OcrRetryAllowed(first.pages) -> Served(first, "garbled_text", FALSE)
    [] OcrRetryAllowed(first.pages) /\ ~CheckStatus(ocr) -> Raised(TRUE)
    [] OTHER -> Served(ocr, RetryStatus(Assess(ocr), "garbled_text", ocr, "ocr_fallback"), TRUE)

\* The file is only probed when hardly any text came out of it.
Parse(first, ocr, pdf, scanOcr, fallback) ==
  LET verdict == IF LooksTextless(first) THEN ClassifyPageContent(pdf) ELSE "text"
  IN  CASE ~CheckStatus(first) -> Raised(FALSE)
        [] CheckStatus(first) /\ verdict = "scanned" -> ParseScan(first, ocr, scanOcr)
        [] CheckStatus(first) /\ verdict = "blank" -> Served(first, "empty", FALSE)
        [] OTHER -> IF fallback /\ Assess(first) THEN ParseGarbled(first, ocr)
                    ELSE Served(first, first.status, FALSE)

\* The pages a file says it has, before anything reads them.
ProbePageCount(pdf) == IF pdf = Broken THEN 0 ELSE Len(pdf)
\* Past the limit nothing is converted; a file that does not say is let through.
EnforcePageLimit(pdf) == IngestMaxPages <= 0 \/ ProbePageCount(pdf) <= IngestMaxPages

ParsePdf(first, ocr, pdf, scanOcr, fallback) ==
  IF EnforcePageLimit(pdf) THEN Parse(first, ocr, pdf, scanOcr, fallback) ELSE Raised(FALSE)
-----------------------------------------------------------------------------
(* Memory.  Once a page is assembled only what the crops are taken from    *)
(* stays: nothing on a page without a picture.                             *)

ReleasePage(page) ==
  [page EXCEPT !.predictions = FALSE, !.backend = FALSE,
               !.parsed = @ /\ page.keepParsed,
               !.images = CASE ~page.assembled -> @
                            [] page.assembled /\ page.pictures -> @ \cap {page.cropScale}
                            [] OTHER -> {}]
=============================================================================
