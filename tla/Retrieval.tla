------------------------------ MODULE Retrieval ------------------------------
(***************************************************************************)
(* One search over the indexed chunks: embed the query, ask both indexes   *)
(* at once, fuse the two rankings, hydrate, rerank, and label what may be  *)
(* shown.  Each backend fails open: what it did not answer is an empty     *)
(* list with a flag beside it.                                             *)
(***************************************************************************)
EXTENDS Integers, SequencesExt, Orders

CONSTANTS
  Chunk,                  \* chunk ids
  Down,                   \* instead of an answer: the call failed or timed out
  Off,                    \* instead of scores: reranking is switched off
  VectorWeight, KeywordWeight, RrfK, RrfTopK,
  Scale,                  \* makes the fractions of the scores whole numbers
  MaxInput, RerankTopK

ASSUME WeightAssumption == VectorWeight \in Nat /\ KeywordWeight \in Nat
ASSUME RrfAssumption == RrfK \in Nat /\ RrfTopK \in Int /\ Scale \in Nat \ {0}
ASSUME RerankAssumption == MaxInput \in Nat /\ RerankTopK \in Nat
ASSUME DownAssumption == Down # Off /\ Down \notin Seq(Chunk)

First(s, n) == SubSeq(s, 1, IF n < Len(s) THEN n ELSE Len(s))
Answered(a) == a # Down
Listed(a) == IF a = Down THEN <<>> ELSE a
-----------------------------------------------------------------------------
(* Reciprocal rank fusion.                                                 *)

\* A chunk counts once in a ranking, at its first place.
Rank(ranking, c) == SelectInSeq(ranking, LAMBDA d : d = c)

\* weight / (k + rank), over Scale.
Share(weight, ranking, c) ==
  IF weight > 0 /\ Rank(ranking, c) > 0
  THEN (weight * Scale) \div (RrfK + Rank(ranking, c)) ELSE 0

Fused(vector, keyword, c) ==
  Share(VectorWeight, vector, c) + Share(KeywordWeight, keyword, c)

\* Highest score first; the sort is stable, so equal scores keep the order in
\* which the chunks were first seen, the vector ranking before the other.
FuseRrf(vector, keyword) ==
  LET v == IF VectorWeight > 0 THEN vector ELSE <<>>
      k == IF KeywordWeight > 0 THEN keyword ELSE <<>>
      seen == ToSet(v \o k)
      Before(c, d) ==
        \/ Fused(v, k, c) > Fused(v, k, d)
        \/ /\ Fused(v, k, c) = Fused(v, k, d)
           /\ Rank(v \o k, c) < Rank(v \o k, d)
  IN  IF RrfTopK <= 0 THEN <<>>
      ELSE First(Sorted(seen, {p \in seen \X seen : Before(p[1], p[2])}), RrfTopK)

-----------------------------------------------------------------------------
(* One pass over the backends.                                             *)

\* A point of an index that names no chunk or document is passed over.
Hits(points) == Picked(points, {i \in DOMAIN points : points[i] \in Chunk})

\* An index is not asked when the scope is empty: nothing can match.
VectorLeg(answer, scoped) ==
  CASE ~scoped -> <<>>
    [] scoped /\ answer = Down -> Down
    [] OTHER -> Hits(answer)

\* Nor is the keyword index when the query is blank.
KeywordLeg(answer, scoped, worded) ==
  CASE ~(scoped /\ worded) -> <<>>
    [] scoped /\ worded /\ answer = Down -> Down
    [] OTHER -> Hits(answer)

Pass(fused, vectorOk, keywordOk, allFailed) ==
  [fused |-> fused, vectorOk |-> vectorOk, keywordOk |-> keywordOk,
   allFailed |-> allFailed]

\* Mutant: a failed embedding fails the search, whatever the other index says.
RunVectorFirst(embedded, vector, keyword, mode) ==
  IF ~embedded THEN Pass(<<>>, TRUE, TRUE, FALSE)
  ELSE Pass(FuseRrf(Listed(vector), Listed(keyword)), Answered(vector),
            Answered(keyword), ~(Answered(vector) \/ Answered(keyword)))

\* vector and keyword are what the indexes would answer.  Without an embedding
\* the vector index is not asked.
RunSinglePass(embedded, vector, keyword, mode) ==
  CASE mode = "vector" /\ ~embedded -> Pass(<<>>, FALSE, TRUE, TRUE)
    [] mode = "vector" /\ embedded ->
         Pass(Listed(vector), Answered(vector), TRUE, ~Answered(vector))
    [] mode = "keyword" \/ (mode = "hybrid" /\ ~embedded) ->
         Pass(Listed(keyword), TRUE, Answered(keyword), ~Answered(keyword))
    [] OTHER ->
         Pass(FuseRrf(Listed(vector), Listed(keyword)), Answered(vector),
              Answered(keyword), ~(Answered(vector) \/ Answered(keyword)))

-----------------------------------------------------------------------------
(* Reranking.  scores is Off, Down, or what the reranker answered: a score  *)
(* for each of its indices, which are compared with the texts in number only. *)

Outcome(chunks, scored, degraded) ==
  [chunks |-> chunks, scored |-> scored, degraded |-> degraded]

Score(scores, c) == IF c \in DOMAIN scores THEN scores[c] ELSE 0

ByScore(scores, asked) ==
  LET texts == ToSet(asked)
      Before(c, d) ==
        \/ Score(scores, c) > Score(scores, d)
        \/ Score(scores, c) = Score(scores, d) /\ Rank(asked, c) < Rank(asked, d)
  IN  Sorted(texts, {p \in texts \X texts : Before(p[1], p[2])})

\* Nothing to score, and nothing to score against, are no fault.  Any other
\* failure keeps the order of the fusion and says so.
Rerank(scores, chunks, hydrated) ==
  LET asked == First(chunks, MaxInput)
  IN  CASE scores = Off -> Outcome(chunks, FALSE, FALSE)
        [] scores # Off /\ chunks = <<>> -> Outcome(<<>>, TRUE, FALSE)
        [] scores # Off /\ chunks # <<>> /\ ToSet(asked) \cap hydrated = {} ->
             Outcome(asked, FALSE, FALSE)
        [] OTHER ->
             IF scores = Down \/ Cardinality(DOMAIN scores) # Len(asked)
             THEN Outcome(First(chunks, RerankTopK), FALSE, TRUE)
             ELSE Outcome(First(ByScore(scores, asked), RerankTopK), TRUE, FALSE)
-----------------------------------------------------------------------------
(* Hydration.  A row of a chunk is [doc, first, last], its pages; 0 is a    *)
(* page that is not known.                                                 *)

PageNumbers(first, last) ==
  CASE first = 0 -> {}
    [] first # 0 /\ last = 0 -> {first}
    [] OTHER -> first..last

\* What the rows give of the chunks asked for; docs are the documents that still
\* have a row, and with it a name.
Hydrate(chunks, rows, docs) ==
  [c \in chunks \cap DOMAIN rows |->
     [doc |-> rows[c].doc, named |-> rows[c].doc \in docs,
      pages |-> PageNumbers(rows[c].first, rows[c].last)]]
-----------------------------------------------------------------------------
(* The pipeline.  A leg says how each backend would answer one search.     *)

RankPass(leg, capped, payloads) ==
  IF capped = <<>> THEN Outcome(<<>>, TRUE, FALSE)
  ELSE Rerank(leg.scores, capped, DOMAIN payloads)

\* What a search returns of one pass; a hydration that fails makes it raise.
RagOfPass(leg, pass) ==
  LET capped == First(pass.fused, MaxInput)
      payloads == Hydrate(ToSet(capped), leg.rows, leg.docs)
      ranked == RankPass(leg, capped, payloads)
  IN  [chunks |-> ranked.chunks, payloads |-> payloads, allFailed |-> pass.allFailed,
       embedOk |-> leg.embedded, vectorOk |-> pass.vectorOk /\ leg.embedded,
       keywordOk |-> pass.keywordOk, rerankOk |-> ~ranked.degraded,
       scored |-> ranked.scored, raised |-> capped # <<>> /\ leg.dbDown]

\* run_chat_rag_pipeline.
RunChatRag(leg, mode) ==
  RagOfPass(leg, RunSinglePass(leg.embedded, VectorLeg(leg.vector, leg.scoped),
                               KeywordLeg(leg.keyword, leg.scoped, leg.worded), mode))

\* What the agent's search makes of it: a failure and a total outage are one,
\* and a partial one is named.
ResultOfRag(rag) ==
  LET missing == {n \in {"dense", "keyword", "rerank"} :
                    CASE n = "dense" -> ~(rag.embedOk /\ rag.vectorOk)
                      [] n = "keyword" -> ~rag.keywordOk
                      [] n = "rerank" -> ~rag.rerankOk}
  IN  IF rag.raised \/ rag.allFailed
      THEN [kind |-> "down", chunks |-> <<>>, degraded |-> {}, scored |-> TRUE,
            payloads |-> <<>>]
      ELSE [kind |-> "ok", chunks |-> rag.chunks, degraded |-> missing,
            scored |-> rag.scored, payloads |-> rag.payloads]
SearchResult(leg) == ResultOfRag(RunChatRag(leg, "hybrid"))

\* An assembly shows an excerpt of each chunk that has a row, unless the injection
\* scan blocks it.
Readable(c, payloads, blocked) == c \in DOMAIN payloads /\ c \notin blocked
=============================================================================
