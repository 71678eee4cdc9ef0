---------------------------- MODULE AnswerStream -----------------------------
(***************************************************************************)
(* The answer on its way to the reader.  Chunks of it arrive cut anywhere; *)
(* the model's thoughts are taken out, the citation marks become spans     *)
(* over the text that is left, and the cited excerpts the evidence.        *)
(*                                                                         *)
(* Text is a sequence of tokens: what is between brackets is a reference,  *)
(* a comma or something else, and a thought is between two whole tags.     *)
(* White space inside a mark, and between words, is left out.              *)
(***************************************************************************)
EXTENDS Providers

CONSTANTS
  Ref, Comma, OpenMark, ShutMark,   \* S1, S2, ...; the marks around and between them
  ThinkOn, ThinkOff, Newline,
  Fact, Period,               \* a number that states one; the end of a sentence
  Item, Lead,                 \* what opens an item or row; "#" or ":"
  MaxBracketLen

ASSUME BracketAssumption == MaxBracketLen \in Nat

AbnormalFinish == {"length", "content_filter", "refusal"}
-----------------------------------------------------------------------------
(* Thoughts.                                                               *)

NotThinking == [thinking |-> FALSE, trim |-> FALSE, out |-> <<>>]

StripToken(s, t) ==
  CASE s.thinking -> [s EXCEPT !.thinking = t # ThinkOff, !.trim = t = ThinkOff]
    [] ~s.thinking /\ t = Newline /\ s.trim -> s
    [] ~s.thinking /\ t = ThinkOn -> [s EXCEPT !.thinking = TRUE, !.trim = FALSE]
    [] OTHER -> [s EXCEPT !.trim = FALSE, !.out = Append(@, t)]

\* The newlines after a thought go, as far as the chunk they begin in.
StripThoughts(s, chunk) ==
  LET end == FoldLeft(StripToken, [s EXCEPT !.out = <<>>], chunk)
  IN  [end EXCEPT !.trim = @ /\ (chunk = <<>> \/ Last(chunk) = ThinkOff)]
-----------------------------------------------------------------------------
(* Citations.  offset counts the text shown before this chunk, visible is   *)
(* what this chunk shows; pending are the references of the marks read last. *)

Parser == [bracket |-> FALSE, buffer |-> <<>>, offset |-> 0, visible |-> <<>>,
           pending |-> <<>>, at |-> 0, last |-> 0, spans |-> <<>>]

IsCitation(content) ==
  /\ Len(content) % 2 = 1
  /\ \A i \in DOMAIN content : IF i % 2 = 1 THEN content[i] \in Ref ELSE content[i] = Comma
ParseRefs(content) == SelectSeq(content, LAMBDA t : t \in Ref)

FlushPending(p) ==
  IF p.pending = <<>> THEN p
  ELSE [p EXCEPT !.spans = Append(@, [start |-> p.last, end |-> p.at, refs |-> p.pending]),
                 !.last = p.at, !.pending = <<>>]

Show(p, text) == LET q == FlushPending(p) IN [q EXCEPT !.visible = @ \o text]

OnText(p, t) ==
  IF t = OpenMark THEN [p EXCEPT !.bracket = TRUE, !.buffer = <<>>] ELSE Show(p, <<t>>)

\* Marks that follow each other share the place of the first.
Cite(p) ==
  [p EXCEPT !.bracket = FALSE, !.buffer = <<>>, !.pending = @ \o ParseRefs(p.buffer),
            !.at = IF p.pending = <<>> THEN p.offset + Len(p.visible) ELSE @]

\* What is in brackets and no citation was text all along.
OnBracket(p, t) ==
  LET Back(text, bracket) == [Show(p, text) EXCEPT !.bracket = bracket, !.buffer = <<>>]
  IN  CASE t = ShutMark -> IF IsCitation(p.buffer) THEN Cite(p)
                       ELSE Back(<<OpenMark>> \o p.buffer \o <<ShutMark>>, FALSE)
        [] t = OpenMark -> Back(<<OpenMark>> \o p.buffer, TRUE)
        [] t \notin {ShutMark, OpenMark} /\ Len(p.buffer) >= MaxBracketLen ->
             Back(<<OpenMark>> \o p.buffer \o <<t>>, FALSE)
        [] OTHER -> [p EXCEPT !.buffer = Append(@, t)]

FeedToken(p, t) == IF p.bracket THEN OnBracket(p, t) ELSE OnText(p, t)

\* Each call returns what it shows, and the spans it closed.
Feed(p, chunk) ==
  FoldLeft(FeedToken, [p EXCEPT !.offset = @ + Len(p.visible), !.visible = <<>>], chunk)

Finalize(p) ==
  LET q == [p EXCEPT !.offset = @ + Len(p.visible),
                     !.visible = IF p.bracket THEN <<OpenMark>> \o p.buffer ELSE <<>>]
  IN  FlushPending([q EXCEPT !.bracket = FALSE, !.buffer = <<>>])
-----------------------------------------------------------------------------
(* What is said of the quality of an answer.                               *)

Thresholds == [high |-> 70, medium |-> 25]      \* percent

\* Scores of the fusion are on another scale than those of the reranker.
Confidence(top, shown, scored) ==
  CASE shown = 0 -> "none"
    [] shown # 0 /\ (~scored \/ top \in Thresholds.medium..Thresholds.high - 1) -> "medium"
    [] OTHER -> IF top >= Thresholds.high THEN "high" ELSE "low"

\* A sentence <<a, b>> ends with its period or its line.
Sentences(text) ==
  {s \in (DOMAIN text) \X (DOMAIN text) :
     LET Ends(i) == text[i] = Period \/ i = Len(text) \/ text[i + 1] = Newline
     IN  /\ s[1] <= s[2] /\ text[s[1]] # Newline
         /\ s[1] = 1 \/ text[s[1] - 1] \in {Newline, Period}
         /\ Ends(s[2]) /\ \A i \in s[1]..s[2] - 1 : ~Ends(i)}

\* Headings and lines that lead in to a list state nothing.
FactSentences(text) ==
  {s \in Sentences(text) : /\ Lead \notin {text[s[1]], text[s[2]]}
                           /\ \E i \in s[1]..s[2] : text[i] = Fact}

\* How much of the text there is to the end of the block of place i: each item
\* and row is a block of its own.
BlockEnd(text, i) ==
  LET ends == {k \in i + 1..Len(text) - 1 : text[k] = Newline /\ text[k + 1] \in {Newline, Item, Lead}}
  IN  IF ends = {} THEN Len(text) ELSE (CHOOSE k \in ends : \A n \in ends : k <= n) - 1

\* A mark covers what is before it in its block, and the sentence it is in.
UncitedFacts(text, spans) ==
  {s \in FactSentences(text) :
     \A i \in DOMAIN spans : spans[i].end < s[1] \/ spans[i].end > BlockEnd(text, s[2])}

\* evidence is the labels shown, the best score among them and whose it is.
Signals(text, spans, evidence) ==
  [confidence |-> Confidence(evidence.top, Len(evidence.labels), evidence.scored),
   ungrounded |-> evidence.labels # <<>> /\ UncitedFacts(text, spans) # {}]
-----------------------------------------------------------------------------
(* The stream of an answer.                                                *)

\* Evidence in the order of its first citation; all of it when nothing is cited.
References(spans, shown) ==
  LET Cited(refs, r) == IF r \in ToSet(refs) THEN refs ELSE Append(refs, r)
      cited == FoldLeft(Cited, <<>>, FlattenSeq([i \in DOMAIN spans |-> spans[i].refs]))
  IN  IF cited = <<>> THEN shown ELSE SelectSeq(cited, LAMBDA r : r \in ToSet(shown))

\* What is sent of one chunk, after what was sent before.
Relay(s, chunk) ==
  LET thought == StripThoughts(s.thought, chunk.text)
      parser == Feed(s.parser, thought.out)
  IN  [raw |-> s.raw \o chunk.text, thought |-> thought, parser |-> parser,
       text |-> s.text \o parser.visible]

RelayAll(chunks) ==
  FoldLeft(Relay, [raw |-> <<>>, thought |-> NotThinking, parser |-> Parser, text |-> <<>>], chunks)

\* How a stream ends after what was sent of it, s.  An answer that broke off, or
\* that never began, is not finished here.
EndOfAnswer(stream, s, shown) ==
  LET end == Finalize(s.parser)
      sent == [served |-> stream.served, raw |-> s.raw, references |-> <<>>]
  IN  CASE stream.raised -> sent @@ [outcome |-> "failed", text |-> s.text,
                                     spans |-> s.parser.spans, flagged |-> FALSE]
        [] ~stream.raised /\ stream.chunks = <<>> ->
             sent @@ [outcome |-> "silent", text |-> <<>>, spans |-> <<>>, flagged |-> FALSE]
        [] OTHER -> [sent EXCEPT !.references = References(end.spans, shown)]
                    @@ [outcome |-> "answered", text |-> s.text \o end.visible,
                        spans |-> end.spans,
                        flagged |-> Last(stream.chunks).reason \in AbnormalFinish]

\* chain gives [api, events] for each model, shown the labels of the excerpts.
Answer(chain, shown) ==
  LET stream == FallbackStream([i \in DOMAIN chain |-> Adapted(chain[i].api, chain[i].events)])
  IN  EndOfAnswer(stream, RelayAll(stream.chunks), shown)
=============================================================================
