----------------------------- MODULE MCAlgorithms ----------------------------
(***************************************************************************)
(* The parts of the program that only compute, each against what it is for: *)
(* a step from "start" picks one input of one of them, from every          *)
(* combination of a few values, and the invariants judge the outcome.      *)
(***************************************************************************)
EXTENDS Retrieval, Figures, Chunking, Parsing, Enrichment, AnswerStream, History

CONSTANTS c1, c2
VARIABLE case

\* A placeholder is no word of the documents below.
ASSUME ImageAssumption == Image \notin {<<"w", n>> : n \in 1..4}

MCChunk == {c1, c2}
MCModel == {"m1", "m2", "m3", "m4", "m5", "m6"}
MCRef == {"s1", "s2"}
Entry(provider, api, name, fallback) ==
  [provider |-> provider, api |-> api, name |-> name, server |-> TRUE, fallback |-> fallback]
MCConfig ==
  [m \in MCModel |->
     CASE m = "m1" -> Entry("openai", "chat_completions", TRUE, "m2")
       [] m = "m2" -> Entry("openai", "responses", TRUE, "m3")
       [] m = "m3" -> Entry("google", "chat_completions", TRUE, "m4")
       [] m = "m4" -> Entry("vllm", "chat_completions", TRUE, "m1")
       [] m = "m5" -> Entry("openai", "responses", TRUE, NoModel)
       [] OTHER -> Entry("vllm", "responses", TRUE, "m1")]
MCUnits == {"absolute", "thousands", "millions"}
MCUnitScale == [u \in MCUnits |-> CASE u = "absolute" -> 1 [] u = "thousands" -> 10
                                    [] u = "millions" -> 100]
MCSkipLabels == {"logo"}
MCChartLabels == {"chart"}

\* A set of numbers in order.
InOrder(S) == [i \in 1..Cardinality(S) |-> CHOOSE x \in S : Cardinality({y \in S : y <= x}) = i]
-----------------------------------------------------------------------------
(* Searches.                                                               *)

Rankings == {Down} \cup {s \in SeqOf(Chunk, 2) : IsInjective(s)}
Legs == [vector : Rankings, keyword : Rankings, embedded : BOOLEAN, scoped : BOOLEAN,
         worded : BOOLEAN, scores : {Off, Down} \cup [Chunk -> {1}], dbDown : BOOLEAN,
         docs : {{}, {"d"}}, rows : {<<>>, [c \in Chunk |-> [doc |-> "d", first |-> 1, last |-> 2]]}]

\* An index that could not answer, or was not asked for want of a vector.
Silent(leg) == {n \in {"dense", "keyword"} :
                  IF n = "dense" THEN ~leg.embedded \/ (leg.scoped /\ leg.vector = Down)
                  ELSE leg.scoped /\ leg.worded /\ leg.keyword = Down}

\* What was down is named, unless the whole search is given up; it is given up
\* only with nothing to show; and what one index found is not lost because
\* the other, the embedder or the reranker is down.
Judged(leg, out) ==
  LET found == IF leg.scoped /\ leg.worded THEN ToSet(Hits(Listed(leg.keyword))) ELSE {}
  IN  /\ out.kind = "ok" => Silent(leg) \subseteq out.degraded
      /\ out.kind = "ok" /\ leg.scores = Down /\ ToSet(out.chunks) \cap DOMAIN leg.rows # {}
           => "rerank" \in out.degraded
      /\ out.kind = "down" /\ ~leg.dbDown => Silent(leg) = {"dense", "keyword"}
      /\ found # {} /\ ~leg.dbDown => out.chunks # <<>>

\* A chunk both indexes found is ahead of one that a single index ranked behind it.
Fair(vector, keyword, fused) ==
  \A c, d \in ToSet(fused) :
    /\ c \in ToSet(vector) \cap ToSet(keyword)
    /\ \/ d \notin ToSet(keyword) /\ Rank(vector, c) < Rank(vector, d)
       \/ d \notin ToSet(vector) /\ Rank(keyword, c) < Rank(keyword, d)
    => Rank(fused, c) < Rank(fused, d)

TakeSearch == \E leg \in Legs : case' = [kind |-> "search", leg |-> leg]
-----------------------------------------------------------------------------
(* Comparisons and grounding.                                              *)

Figure == [key : {"k1", "k2"}, metric : {"m"}, amount : {1, 5}, unit : {None} \cup Units,
           currency : {None, Dollar, "EUR"}, date : {"d"}]
Reported(f) == [supported |-> TRUE, figures |-> <<f>>]
Rates == [{"EUR", Dollar} \X {"d"} -> {Missing, 2}]

TakeComparison ==
  \E f, g \in Figure, rates \in Rates, op \in {"argmin", "argmax", "list"},
     requested \in {None, Dollar}, supported \in BOOLEAN :
    case' = [kind |-> "comparison", rates |-> rates, op |-> op, requested |-> requested,
             findings |-> <<Reported(f), [Reported(g) EXCEPT !.supported = supported]>>]

\* What a figure is worth in full in the currency of the comparison.
Worth(r, target, rates) ==
  r.amount * UnitScale[r.unit]
  * (IF target = None \/ r.currency = target THEN 1 ELSE rates[<<r.currency, r.date>>])

Extreme(rows, out) ==
  LET Full(r) == Worth(r, out.target, case.rates)
  IN  out.answer # None =>
        /\ out.answer.figure \in ToSet(rows)
        /\ Failed(rows, out.target, case.rates) = {}
        /\ \A r \in ToSet(rows) : r.currency # None /\ r.unit # None =>
             /\ IF case.op = "argmin" THEN Full(out.answer.figure) <= Full(r)
                ELSE Full(out.answer.figure) >= Full(r)
             /\ out.target = None => r.currency = out.answer.figure.currency

TakeNumber ==
  \E value \in {1, 2, 30}, printed \in {1, 2, 30}, unit, stated \in Units :
    case' = [kind |-> "number", value |-> value, unit |-> unit,
             text |-> [stated |-> stated, nil |-> FALSE,
                       numbers |-> {[value |-> printed, word |-> None]}]]
-----------------------------------------------------------------------------
(* Chunks and headers.                                                     *)

PicRefs == <<"p1", "p2", "p3", "p4", "p5", "p6", "p7", "p8">>
Pic(n) == [ref |-> PicRefs[n], label |-> "picture", pages |-> {1}]
Para(n) == [ref |-> "", label |-> "text", pages |-> {1}]
\* The chunk at place n of a document: plain, with a picture, or with two.
Parsed(n, shape, tokens) ==
  CASE shape = "plain" -> [tokens |-> tokens, items |-> <<Para(n)>>,
                           pieces |-> <<[headings |-> <<<<"h", n>>>>, text |-> <<<<"w", n>>>>]>>]
    [] shape = "picture" -> [tokens |-> tokens, items |-> <<Para(n), Pic(n)>>,
                             pieces |-> <<[headings |-> <<<<"h", n>>>>, text |-> <<<<"w", n>>, Image>>]>>]
    [] OTHER -> [tokens |-> tokens, items |-> <<Pic(n), Pic(n + 4)>>,
                 pieces |-> <<[headings |-> <<>>, text |-> <<Image, Image>>]>>]

TakeDocument ==
  \E n \in 1..4 : \E shapes \in [1..n -> {"plain", "picture", "pictures"}],
     tokens \in [1..n -> {1, 3, 6}], described \in {{}, {"p1", "p2", "p6"}, ToSet(PicRefs)} :
    case' = [kind |-> "document", described |-> described,
             base |-> [i \in 1..n |-> Parsed(i, shapes[i], tokens[i])]]

Headers == [kind : {"header"}, text : {"a", "b", "c"}, level : {1}, page : {1, 2}]
           \cup [kind : {"content"}, text : {""}, level : {0}, page : {1}]
WellMerged(out, base) ==
  /\ FlatMap(LAMBDA c : c.pieces, out) = FlatMap(LAMBDA c : c.pieces, base)
  /\ FlatMap(LAMBDA c : c.items, out) = FlatMap(LAMBDA c : c.items, base)
  /\ \A c \in ToSet(out) : c \notin ToSet(base) => c.tokens <= MergeLimit
  /\ \A i \in 1..Len(out) - 1 :
       Undersized(out[i]) /\ Undersized(out[i + 1]) => ~Fits(out[i], out[i + 1])
\* A text without its headings.
Body(text) == FlatMap(LAMBDA w : IF w[1] = "h" THEN <<>> ELSE <<w>>, text)
InPlace(rows, base, described) ==
  /\ FlatMap(LAMBDA r : r.raw, rows) = FlatMap(LAMBDA c : RawText(c, described), base)
  /\ \A r \in ToSet(rows) : Body(r.enriched) = r.raw

TakeHeaders ==
  \E n \in 1..4 : \E items \in [1..n -> Headers] :
    /\ \A i \in 1..n - 1 : items[i].page <= items[i + 1].page
    /\ case' = [kind |-> "headers", items |-> items]

\* The headers right before the end that stand on its page with nothing between.
Run(items) ==
  LET n == Len(items)
      InRun(k) == \A i \in k..n : items[i].kind = "header" /\ items[i].page = items[n].page
      from == CHOOSE k \in 1..n + 1 : (k = n + 1 \/ InRun(k)) /\ (k > 1 => ~InRun(k - 1))
  IN  [i \in 1..n - from + 1 |-> items[from + i - 1].text]
-----------------------------------------------------------------------------
(* Parses, pictures and tables.                                            *)

Conversions == [status : {"success", "partial_success", "failure"}, abandoned : {0, 1},
                pages : {1, 3}, chars : {0, 9}, glyphs : BOOLEAN, worded : BOOLEAN]
Page(text, image) == [area |-> 2, objects |-> [i \in 1..text |-> [kind |-> "text", area |-> 1]]
                                              \o (IF image THEN <<[kind |-> "image", area |-> 2]>> ELSE <<>>)]
Files == {Broken, <<Page(0, TRUE)>>, <<Page(0, FALSE)>>, <<Page(2, TRUE)>>,
          <<Page(0, TRUE), Broken>>, <<Page(2, FALSE), Broken>>,
          <<Page(0, TRUE), Page(0, TRUE), Broken>>}

TakeParse ==
  \E first, ocr \in Conversions, pdf \in Files, scan, fallback \in BOOLEAN :
    /\ ocr.pages = first.pages
    /\ case' = [kind |-> "parse", first |-> first, ocr |-> ocr, pdf |-> pdf, scan |-> scan,
                fallback |-> fallback]

Honest(out) ==
  /\ out.ocr => OcrMaxPages = 0 \/ case.first.pages <= OcrMaxPages
  /\ ~out.raised => /\ CheckStatus(out.conv)
                    /\ \/ IngestMaxPages = 0 \/ case.pdf = Broken
                       \/ Len(case.pdf) <= IngestMaxPages
  /\ out.status \in {"success", "success_scan_ocr", "success_ocr_fallback"} =>
       /\ out.conv.status = "success"
       /\ LooksTextless(out.conv) =>
            ClassifyPageContent(case.pdf) = "text" \/ out.status = "success_ocr_fallback"
       /\ case.fallback /\ Assess(out.conv) => out.status = "success_scan_ocr"

Picture(n) == [ref : {n}, label : {"chart", "photo", "logo"}, confident : {TRUE}, crop : BOOLEAN,
               encodes : BOOLEAN]
\* A model answers with the names of what it is sent, each at its place; it may
\* leave some out, add one that is not there, or fail once.
Names == <<"p1", "p2", "p3", "p4", "p5">>
Replies == [told : {{}, {1}, {2}, {1, 2}}, extra : BOOLEAN, fails : BOOLEAN]
Reply(reply, sent) ==
  LET told == InOrder(reply.told \cap DOMAIN sent)
  IN  [i \in DOMAIN told |-> [id |-> told[i], text |-> sent[told[i]]]]
      \o (IF reply.extra THEN <<[id |-> Len(sent) + 1, text |-> "p5"]>> ELSE <<>>)
Sent(pictures, lane, b) ==
  LET sent == EncodeBatch(Batches(Plan(pictures)[lane], BatchSize)[b])
  IN  [i \in DOMAIN sent |-> sent[i].ref]

\* A picture that can be kept is, under its own name, and a retry has every
\* description.
KeptParse(written, stored) ==
  LET resumed == LoadPersistedDocument(stored, TRUE)
  IN  /\ \A p \in ToSet(case.pictures) :
           (\E c \in stored.crops : c.ref = p.ref /\ c.label = p.label)
           <=> p.crop /\ p.encodes /\ p.ref \notin case.refused
      /\ \A d \in written : \E p \in ToSet(resumed) : p.ref = d[1] /\ d[2] \in p.texts
      /\ \A p \in ToSet(resumed) : ~p.crop

TakePictures ==
  \E ps \in {<<a, b, c>> : a \in Picture("p1"), b \in Picture("p2"), c \in Picture("p3")},
     reply \in Replies, refused \in {{}, {"p2"}} :
    case' = [kind |-> "pictures", pictures |-> ps, reply |-> reply, refused |-> refused]
TakeTables ==
  \E rows \in SeqOf({"table", "text"}, 5), reply \in Replies :
    case' = [kind |-> "tables", rows |-> rows, names |-> Names, reply |-> reply]
-----------------------------------------------------------------------------
(* Streams.                                                                *)

Token == {"w", OpenMark, ShutMark, Comma, "s1", ThinkOn, ThinkOff}
Scripts == {
  <<"w", OpenMark, "s1", ShutMark, OpenMark, "s2", ShutMark, "w">>,
  <<OpenMark, "s1", Comma, "s2", ShutMark, OpenMark, "w", ShutMark>>,
  <<ThinkOn, OpenMark, "s1", ShutMark, ThinkOff, Newline, Newline, "w", OpenMark, "s1">>,
  <<"w", OpenMark, OpenMark, "s1", ShutMark, OpenMark, "s2">>,
  <<OpenMark, "s1", Comma, "s2", Comma, ShutMark, "w", OpenMark, "s1", ShutMark>>,
  <<OpenMark, "s1", ShutMark, "w", OpenMark, "s2", Comma, "s1", ShutMark>>,
  <<Fact, Period, "w", Fact, OpenMark, "s1", ShutMark, Period, Fact>>,
  <<Lead, Fact, Newline, Item, Fact, OpenMark, "s1", ShutMark, Newline, Lead, "w">>,
  <<Fact, Newline, Fact, OpenMark, "s2", ShutMark, Newline, Newline, "w", OpenMark, "s1", ShutMark>>}
Cut(s, at) ==
  LET Begin(e) == CHOOSE b \in {x + 1 : x \in {0} \cup at} : b <= e /\ \A x \in at : x < e => x < b
      ends == InOrder(at \cup {Len(s)})
  IN  [i \in DOMAIN ends |-> [kind |-> "text", text |-> SubSeq(s, Begin(ends[i]), ends[i]), reason |-> ""]]
Stop(reason) == <<[kind |-> "stop", text |-> <<>>, reason |-> reason]>>
Usage == <<[kind |-> "usage", text |-> <<>>, reason |-> ""]>>
Breaks == <<[kind |-> "raise", text |-> <<>>, reason |-> ""]>>
Endings == {<<>>, Stop("stop"), Stop("length") \o Usage, Usage, Breaks, Stop("stop") \o Breaks}
Spoken == {<<>>, Cut(<<"w">>, {}), Cut(<<"w", OpenMark, "s1", ShutMark>>, {2})}

\* A long text is cut at one or two places, or after every token.
Cuts(s) == LET places == 1..Len(s) - 1
           IN  IF Len(s) < 9 THEN SUBSET places
               ELSE {{i, k} : i, k \in places} \cup {{}, places}
TakeCuts ==
  \/ \E s \in Scripts : \E at \in Cuts(s) :
       case' = [kind |-> "stream", shown |-> <<"s1", "s2">>,
                chain |-> <<[api |-> "chat", events |-> Cut(s, at) \o Stop("stop")]>>]
  \/ \E s \in SeqOf(Token, 4) : \E at \in SUBSET (1..Len(s) - 1) :
       /\ s # <<>>
       /\ case' = [kind |-> "stream", shown |-> <<"s1", "s2">>,
                   chain |-> <<[api |-> "responses", events |-> Cut(s, at) \o Stop("stop")]>>]
TakeChain ==
  \E model \in Model \cup {NoModel} :
    LET routed == GetWithFallback(model)
        Api(i) == AdapterApi(Config[routed.chain[i]])
    IN  /\ ~routed.failed
        /\ \E ends \in [DOMAIN routed.chain -> Endings], said \in [DOMAIN routed.chain -> Spoken] :
             case' = [kind |-> "stream", shown |-> <<"s2", "s1">>,
                      chain |-> [i \in DOMAIN routed.chain |->
                                   [api |-> Api(i), events |-> said[i] \o ends[i]]]]

\* The turns of an agent, each the answer of a model; what is sent next; and how
\* the provider answers when it is asked again and again.
Items == [kind : {"reasoning", "refusal"}, done : {TRUE}] \cup [kind : {"call"}, done : BOOLEAN]
Turns == [model : {"m1", "m2"}, items : SeqOf(Items, 3)]
SdkErrors == {[class |-> "", status |-> 200, about |-> ""],
              [class |-> "BadRequestError", status |-> 400, about |-> "encrypted content"],
              [class |-> "BadRequestError", status |-> 400, about |-> "summary"],
              [class |-> "RateLimitError", status |-> 429, about |-> ""]}

AnswerOf(turns, n) ==
  ParseResponse([status |-> "completed", reason |-> "",
                 items |-> [i \in DOMAIN turns[n].items |->
                              [kind |-> turns[n].items[i].kind, done |-> turns[n].items[i].done,
                               id |-> <<n, i>>]]], turns[n].model)
\* The transcript of those that called a tool, and the results of their calls.
Transcribed(turns) ==
  LET Turn(n) == LET answer == AnswerOf(turns, n)
                 IN  IF answer.calls = <<>> THEN <<>>
                     ELSE <<[role |-> "assistant", calls |-> answer.calls, opaque |-> answer.opaque]>>
                          \o [i \in DOMAIN answer.calls |->
                                [role |-> "tool", call |-> answer.calls[i], calls |-> <<>>]]
  IN  <<[role |-> "user", calls |-> <<>>]>> \o FlattenSeq([n \in DOMAIN turns |-> Turn(n)])

TakeTurns ==
  \/ \E turns \in SeqOf(Turns, 2), model \in {"m1", "m2"}, replay \in BOOLEAN :
       case' = [kind |-> "tools", turns |-> turns, model |-> model, replay |-> replay]
  \/ \E errors \in [1..4 -> SdkErrors], asked, off \in BOOLEAN :
       case' = [kind |-> "request", errors |-> errors, asked |-> asked, off |-> off]

\* The places of the citations of a whole text, and what is left without them.
Marks(s) ==
  {m \in (DOMAIN s) \X (DOMAIN s) :
     /\ m[1] < m[2] /\ s[m[1]] = OpenMark /\ s[m[2]] = ShutMark /\ m[2] - m[1] - 1 <= MaxBracketLen
     /\ \A i \in m[1] + 1..m[2] - 1 : s[i] \notin {OpenMark, ShutMark}
     /\ IsCitation(SubSeq(s, m[1] + 1, m[2] - 1))}
Kept(s) == {i \in DOMAIN s : \A m \in Marks(s) : i < m[1] \/ i > m[2]}
Clean(s) == LET order == InOrder(Kept(s)) IN [i \in DOMAIN order |-> s[order[i]]]
Spans(s) ==
  LET Place(m) == Cardinality({i \in Kept(s) : i < m[1]})
      places == InOrder({Place(m) : m \in Marks(s)})
      At(p) == InOrder({m[1] : m \in {n \in Marks(s) : Place(n) = p}})
      Close(o) == CHOOSE c \in DOMAIN s : <<o, c>> \in Marks(s)
      Cites(p) == FlattenSeq([i \in DOMAIN At(p) |-> ParseRefs(SubSeq(s, At(p)[i], Close(At(p)[i])))])
  IN  [i \in DOMAIN places |-> [start |-> IF i = 1 THEN 0 ELSE places[i - 1],
                                end |-> places[i], refs |-> Cites(places[i])]]

\* Whether a fact of the text is in no sentence with a mark in it or later in
\* its block.
Uncovered(s) ==
  LET Next(i) == CHOOSE k \in Kept(s) \cup {Len(s) + 1} :
                   k > i /\ \A n \in Kept(s) : n > i => k <= n
      Begins(i) == i = 1 \/ \E k \in Kept(s) : Next(k) = i /\ s[k] \in {Newline, Period}
      Closes(i) == s[i] = Newline /\ Next(i) <= Len(s) /\ s[Next(i)] \in {Newline, Item, Lead}
      Start(i) == CHOOSE b \in Kept(s) : b <= i /\ Begins(b) /\ \A n \in Kept(s) :
                                            n > b /\ n <= i => ~Begins(n)
  IN  \E i \in Kept(s) :
        /\ s[i] = Fact /\ s[Start(i)] # Lead
        /\ \A m \in Marks(s) :
             m[1] > Start(i) => \E k \in Kept(s) : i < k /\ k < m[1] /\ Closes(k)
Bare(s) == SelectSeq(s, LAMBDA t : t # Newline)
Texts(events) == FlattenSeq([i \in DOMAIN events |-> events[i].text])
Kinds(events) == {events[i].kind : i \in DOMAIN events}

\* Of an answer that kept its text, whole is the text without thoughts.
Cited(out) == UNION {ToSet(out.spans[i].refs) : i \in DOMAIN out.spans}
Marked(out, whole) ==
  ThinkOn \notin ToSet(out.raw) =>
    /\ out.spans = Spans(whole)
    /\ Signals(out.text, out.spans, [labels |-> case.shown, top |-> 90, scored |-> TRUE])
       = [confidence |-> "high", ungrounded |-> Uncovered(whole)]
ToldWhole(out, source) ==
  LET whole == StripThoughts(NotThinking, Texts(source.events)).out
  IN  /\ out.outcome = "answered" =>
           /\ out.raw = Texts(source.events)
           /\ Bare(out.text) = Bare(Clean(whole))
           /\ Marked(out, whole)
           /\ source.api # "gemini" => "stop" \in Kinds(source.events)
           /\ ToSet(out.references) \subseteq ToSet(case.shown)
           /\ Cited(out) \cap ToSet(case.shown) \subseteq ToSet(out.references)
      /\ out.outcome = "failed" => IsPrefix(Bare(out.text), Bare(Clean(whole)))
      /\ out.outcome = "silent" => source.api = "gemini"

\* Each call once and in order, its result after it.
CallsAnswered(transcript, sent) ==
  LET Ids(kind) == LET own == SelectSeq(sent, LAMBDA i : i.kind = kind)
                   IN  [i \in DOMAIN own |-> own[i].id]
      Place(kind, id) == SelectInSeq(sent, LAMBDA i : i.kind = kind /\ i.id = id)
  IN  /\ Ids("call") = FlattenSeq([i \in DOMAIN transcript |-> transcript[i].calls])
      /\ Ids("output") = Ids("call")
      /\ \A id \in ToSet(Ids("call")) : Place("call", id) < Place("output", id)
-----------------------------------------------------------------------------
(* Histories.                                                              *)

Messages == [role : {"user", "assistant"}, size : {0, 1, 3}, blocked : {FALSE}]
            \cup [role : {"user"}, size : {1}, blocked : {TRUE}]
TakeHistory ==
  \E ms \in SeqOf(Messages, 4), b \in [budget : {3, 6}, maxAnswer : {0, 2}, step : {1, 2}] :
    \E more \in {<<>>} \cup {<<[role |-> "user", size |-> 1, blocked |-> FALSE],
                               [role |-> "assistant", size |-> n, blocked |-> FALSE]>> : n \in {1, 3}} :
      case' = [kind |-> "history", messages |-> ms, more |-> more, budget |-> b]

Advances(turns, window, later, next) ==
  LET Block(t) == t.index \div case.budget.step
  IN  /\ \A t \in ToSet(window) : ~t.blocked
      /\ TotalTokens(window) <= case.budget.budget \/ Len(window) = 1
      /\ turns # <<>> =>
           /\ window # <<>> /\ Last(window).index = Last(turns).index
           /\ Head(next).index >= Head(window).index
           /\ Head(next).index > Head(window).index =>
                \/ \A t \in ToSet(later) : t.index < Head(next).index => Block(t) < Block(Head(next))
                \/ Block(Last(next)) = Block(Head(next))

Conversations == SeqOf([route : {"retrieval", "direct_answer"}, docs : {{"d1"}, {"d1", "d2"}},
                        sealed : BOOLEAN, block : {"b1", "b2"}], 3)
TakeFollowup == \E turns \in Conversations : case' = [kind |-> "followup", turns |-> turns]
-----------------------------------------------------------------------------

Init == case = [kind |-> "start"]
Next ==
  /\ case.kind = "start"
  /\ \/ TakeSearch \/ TakeComparison \/ TakeNumber \/ TakeDocument \/ TakeHeaders \/ TakeParse
     \/ TakePictures \/ TakeTables \/ TakeCuts \/ TakeChain \/ TakeTurns \/ TakeHistory \/ TakeFollowup
Spec == Init /\ [][Next]_case
-----------------------------------------------------------------------------
\* HonestSearch: whatever backend is down, a search names it or says that it
\* found nothing out; what the other one found is not lost; and the fusion
\* prefers what both found (chat_rag.py, hybrid_retriever.py, agent/loop.py).
HonestSearch ==
  case.kind = "search" =>
    /\ Judged(case.leg, SearchResult(case.leg))
    /\ LET vector == Listed(case.leg.vector)
           keyword == Listed(case.leg.keyword)
       IN  Fair(vector, keyword, FuseRrf(vector, keyword))

\* AnswerIsExtreme: the figure a comparison names is no less extreme than any
\* supported figure that has a currency and a scale, in full and in one
\* currency, and no rate was missing (processor.py).
AnswerIsExtreme ==
  case.kind = "comparison" =>
    Extreme(Rows(case.findings),
            ProcessFindings(case.findings, case.op, case.requested, case.rates, TRUE))

\* WrongScaleIsCaught: digits copied from a text whose scale is stated are
\* confirmed at that scale, and at no other but the one of numbers in full
\* (number_grounding.py).
WrongScaleIsCaught ==
  case.kind = "number" /\ case.text.numbers = {[value |-> case.value, word |-> None]} =>
    LET verdict == VerifyValue(case.value, case.unit, {case.text})
    IN  /\ case.unit = case.text.stated => verdict = "grounded"
        /\ case.unit \notin {case.text.stated, Absolute} => verdict = "not found"

\* NothingMisplaced: merging keeps every piece and item in its place and its
\* limit, every picture's description stands where that picture stood, in the
\* stored text and in the embedded one, no two undersized neighbours could have
\* been one, and a run of headers is the heading of what follows it (chunker.py).
NothingMisplaced ==
  /\ case.kind = "document" =>
       /\ WellMerged(Chunks(case.base), case.base)
       /\ InPlace(ChunkDocument(case.base, case.described), case.base, case.described)
  /\ case.kind = "headers" =>
       LET run == Run(case.items)
       IN  run # <<>> /\ IsInjective(run) /\ Len(run) <= MaxRunDepth =>
             Trail(case.items, Len(case.items) + 1) = run

\* StatusIsHonest: text is served only from a conversion that reached every
\* page; it is called a success only if the converter said so, it is not what
\* came out of a scan without text, and it was not found unreadable, unless OCR
\* found no text where there was garbled text; and a file and its OCR are kept
\* to their page limits (docling_parser.py, tasks.py).
StatusIsHonest ==
  case.kind = "parse" =>
    Honest(ParsePdf(case.first, case.ocr, case.pdf, case.scan, case.fallback))

\* AnswersStayWithTheirOwn: whatever crops do not encode, and whatever a model
\* leaves out or makes up, a description or summary is stored with the picture
\* or table it was given for; what a retry starts from has all of them, and the
\* crops are stored before they are dropped; the vectors are in the order of the
\* chunks (picture_enricher.py, table_summarizer.py, embedder.py, tasks.py).
AnswersStayWithTheirOwn ==
  /\ case.kind = "pictures" =>
       LET attempts == [lane \in {"chart", "caption"} |->
             [b \in DOMAIN Batches(Plan(case.pictures)[lane], BatchSize) |->
                (IF case.reply.fails THEN <<NoAnswer>> ELSE <<>>)
                \o <<Reply(case.reply, Sent(case.pictures, lane, b))>>]]
           written == EnrichPictures(case.pictures, attempts, {"chart", "caption"} \X (1..3))
       IN  /\ \A d \in written : d[1] = d[2]
           /\ KeptParse(written, StoreParse(case.pictures, written, case.refused))
  /\ case.kind = "tables" =>
       LET batches == Batches(TableIndices(case.rows), BatchSize)
           Asked(b) == [k \in DOMAIN batches[b] |-> case.names[batches[b][k]]]
           answers == [b \in DOMAIN batches |-> IF case.reply.fails /\ b = 1 THEN NoAnswer
                                                ELSE Reply(case.reply, Asked(b))]
       IN  /\ \A d \in SummarizeTables(case.rows, answers) : d[2] \in {"", case.names[d[1]]}
           /\ EmbedChunks(case.names, BatchSize, {}) = case.names

\* ExchangeIsWhole: whatever was cut off, and whichever model's items are
\* replayed, each tool call of a transcript is sent once, in order, and its
\* result after it; a request that a provider refuses is never sent again as it
\* was.  However an answer is cut into chunks and whichever model gives it, the
\* reader gets the whole text of one model with its marks taken out and its
\* spans in place, or a beginning of that if it broke off; it is flagged when a
\* fact of it is not cited; a cut stream of the OpenAI adapters is no answer
\* (openai_responses_adapter.py, llm_router.py, openai_adapter.py,
\* citation_parser.py, confidence.py).
ExchangeIsWhole ==
  /\ case.kind = "tools" =>
       LET transcript == Transcribed(case.turns)
       IN  CallsAnswered(transcript, SerializeInput(transcript, case.model, case.replay))
  /\ case.kind = "request" =>
       LET end == Create(case.off, case.asked,
                         [i \in 1..4 |-> IF case.errors[i].class = "" THEN ""
                                         ELSE MapOpenaiError(case.errors[i])])
       IN  end.over /\ IsInjective(end.sent)
  /\ case.kind = "stream" =>
       LET out == Answer(case.chain, case.shown)
       IN  ToldWhole(out, case.chain[out.served])

\* WindowAdvances: a model reads the last turns that fit its budget, none of a
\* refused question; as the conversation grows its window only moves forward,
\* and then to the first turn of a block of them, unless all that fits is one
\* block (turns.py).
WindowAdvances ==
  case.kind = "history" =>
    LET turns == PriorTurns(case.messages, TRUE)
        later == PriorTurns(case.messages \o case.more, TRUE)
    IN  Advances(turns, CapTurns(turns, case.budget), later, CapTurns(later, case.budget))

\* FollowupKeepsItsData: a follow-up the router answers from the findings it was
\* shown gets them, while the documents in scope stay the same
\* (docs/prod_docs/agent_design.md, Follow-up questions without re-searching).
FollowupKeepsItsData ==
  case.kind = "followup" =>
    LET answers == Converse(case.turns)
    IN  \A n \in DOMAIN case.turns :
          LET prior == PriorFindings(SubSeq(answers, 1, n - 1))
          IN  /\ case.turns[n].route = "direct_answer"
              /\ prior.block # Nothing /\ prior.docs = case.turns[n].docs
              => answers[n].block = prior.block
=============================================================================
