----------------------------- MODULE Enrichment ------------------------------
(***************************************************************************)
(* What models add to a parsed document, batch by batch: descriptions of   *)
(* its pictures, summaries of its tables, and the vectors of its chunks.   *)
(* Batches run at the same time and each writes only its own places, so a  *)
(* run is described by which of them finished and what each was answered.  *)
(***************************************************************************)
EXTENDS Integers, SequencesExt, Orders

CONSTANTS
  NoAnswer,                 \* a call that raised, or an answer that did not parse
  SkipLabels, ChartLabels,
  BatchSize, MaxAttempts

ASSUME EnrichmentAssumption == BatchSize \in Nat \ {0} /\ MaxAttempts \in Nat \ {0}

Batches(s, size) ==
  [b \in 1..(Len(s) + size - 1) \div size |->
     SubSeq(s, (b - 1) * size + 1, IF b * size < Len(s) THEN b * size ELSE Len(s))]
-----------------------------------------------------------------------------
(* Pictures.  A picture is [ref, label, confident, crop, encodes].         *)

\* A label the classifier is not sure of is worse than none.
LabelOf(p) == IF p.confident THEN p.label ELSE "other"

\* The lane of a picture: none, when there is nothing to describe or to send.
Lane(p) ==
  CASE LabelOf(p) \in SkipLabels \/ ~p.crop -> "none"
    [] LabelOf(p) \in ChartLabels /\ p.crop -> "chart"
    [] OTHER -> "caption"

Plan(pictures) ==
  [lane \in {"chart", "caption"} |-> Picked(pictures, {i \in DOMAIN pictures : Lane(pictures[i]) = lane})]

\* A crop that cannot be encoded is left out of the call.
EncodeBatch(batch) == Picked(batch, {i \in DOMAIN batch : batch[i].encodes})

\* Ids are places in the call; the blank and the unknown are dropped, and of
\* two descriptions of one id the last stays.
ParseAnswer(answer, size) ==
  LET Told(id) == {n \in DOMAIN answer : answer[n].id = id /\ answer[n].text # ""}
      last(id) == CHOOSE n \in Told(id) : \A k \in Told(id) : k <= n
  IN  [id \in 1..size |-> IF Told(id) = {} THEN "" ELSE answer[last(id)].text]

\* The first attempt that yields an answer, which may describe nothing.
DescribeBatch(attempts, size) ==
  LET answered == {n \in DOMAIN attempts : n <= MaxAttempts /\ attempts[n] # NoAnswer}
      first == CHOOSE n \in answered : \A k \in answered : n <= k
  IN  IF answered = {} THEN NoAnswer ELSE ParseAnswer(attempts[first], size)

\* Mutant: the ids are matched with the batch as it was before encoding.
WriteUnencoded(batch, descriptions) ==
  IF descriptions = NoAnswer THEN {}
  ELSE {<<batch[i].ref, descriptions[i]>> :
          i \in {k \in DOMAIN batch \cap DOMAIN descriptions : descriptions[k] # ""}}

\* The ids of an answer are those of the pictures that were sent.
Write(batch, descriptions) ==
  LET sent == EncodeBatch(batch)
  IN  IF descriptions = NoAnswer THEN {}
      ELSE {<<sent[i].ref, descriptions[i]>> :
              i \in {k \in DOMAIN sent : descriptions[k] # ""}}

\* A batch writes before it returns, so those that finished within the budget
\* of the stage keep their descriptions.  attempts[lane][b] is what batch b is
\* answered, call by call.
RunLane(lane, candidates, attempts, finished) ==
  LET batches == Batches(candidates, BatchSize)
  IN  UNION {Write(batches[b], DescribeBatch(attempts[b], Len(EncodeBatch(batches[b]))))
             : b \in {n \in DOMAIN batches : <<lane, n>> \in finished
                                             /\ EncodeBatch(batches[n]) # <<>>}}

EnrichPictures(pictures, attempts, finished) ==
  UNION {RunLane(lane, Plan(pictures)[lane], attempts[lane], finished) : lane \in {"chart", "caption"}}
-----------------------------------------------------------------------------
(* What is kept of the pictures.  A retry starts from the stored parse.    *)

\* A crop goes under its own reference, tagged as the classifier called it,
\* sure of it or not.
UploadPictureCrop(p) == [ref |-> p.ref, label |-> p.label]
\* One that does not encode, or is refused by the store, is done without.
UploadPictureCrops(pictures, refused) ==
  {UploadPictureCrop(p) : p \in {q \in ToSet(pictures) : q.crop /\ q.encodes /\ q.ref \notin refused}}

\* The document is exported with its descriptions and without its images.
ExportArtifacts(pictures, described) ==
  [i \in DOMAIN pictures |->
     [ref |-> pictures[i].ref, crop |-> FALSE,
      texts |-> {d[2] : d \in {e \in described : e[1] = pictures[i].ref}}]]

\* The crops first: exporting drops the images.
StoreParse(pictures, described, refused) ==
  [crops |-> UploadPictureCrops(pictures, refused),
   document |-> ExportArtifacts(pictures, described)]

\* Missing or unreadable, it is no obstacle: the PDF is parsed again.
LoadPersistedDocument(stored, readable) == IF readable THEN stored.document ELSE NoAnswer
-----------------------------------------------------------------------------
(* Tables.                                                                 *)

TableIndices(rows) ==
  Picked([i \in DOMAIN rows |-> i], {i \in DOMAIN rows : rows[i] = "table"})

\* One call per batch, no retry; a table that got no summary has none.
SummarizeTables(rows, answers) ==
  LET batches == Batches(TableIndices(rows), BatchSize)
  IN  UNION {{<<batches[b][k], IF answers[b] = NoAnswer THEN ""
                               ELSE ParseAnswer(answers[b], Len(batches[b]))[k]>>
                : k \in DOMAIN batches[b]} : b \in DOMAIN batches}
-----------------------------------------------------------------------------
(* Vectors.                                                                *)

\* What the server accepts bounds what is configured, if it says.
ResolveBatchSize(configured, server) ==
  IF server = NoAnswer THEN configured
  ELSE IF server < configured THEN server ELSE configured

\* The batches are embedded in parallel and joined in their order; one that
\* fails fails them all.
EmbedChunks(chunks, size, lost) ==
  LET batches == Batches(chunks, size)
  IN  IF lost \cap DOMAIN batches # {} THEN NoAnswer
      ELSE FlattenSeq([b \in DOMAIN batches |-> batches[b]])

\* A slow server is not asked again, a refused connection or a busy one is.
IsRetryable(error) ==
  error \in {"status 429", "status 500", "status 502", "status 503", "status 504",
             "connect timeout", "network", "protocol"}

\* How many attempts are made, and how the last one ends.
EmbedQuery(outcomes, attempts) ==
  LET Stops(n) == n = attempts \/ ~IsRetryable(outcomes[n])
      last == CHOOSE n \in 1..attempts : Stops(n) /\ \A k \in 1..n - 1 : ~Stops(k)
  IN  [made |-> last, ok |-> outcomes[last] = "ok"]
=============================================================================
