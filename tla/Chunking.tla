------------------------------ MODULE Chunking -------------------------------
(***************************************************************************)
(* From a parsed document to chunks: the nesting of back-to-back headers,  *)
(* the merging of undersized chunks, the picture descriptions put at their *)
(* placeholders, and the rows that are stored.                             *)
(*                                                                         *)
(* A chunk is [tokens, pieces, items]: pieces are [headings, text] with    *)
(* the text a sequence of words and placeholders, items the parsed items   *)
(* [ref, label, pages] it covers.  A merge costs the sum of its parts.     *)
(***************************************************************************)
EXTENDS Integers, SequencesExt, Orders

CONSTANTS
  MinTokens, MaxTokens, MergeMultiplier, DelimTokens,
  MaxRunDepth,            \* the deepest level a header is nested to
  Image                   \* the placeholder

ASSUME ChunkingAssumption ==
  /\ {MinTokens, MaxTokens, MergeMultiplier, DelimTokens} \subseteq Nat
  /\ MaxRunDepth \in Nat \ {0}

Least(a, b) == IF a < b THEN a ELSE b
-----------------------------------------------------------------------------
(* Header runs.  An item is [kind, text, level, page].                     *)

\* A page break starts a new run and content ends one.  A header is nested
\* below the one before it, or where its text stood already, and then what was
\* below that is dropped.
Nest(s, item) ==
  LET fresh == item.page # s.page
      run == IF fresh THEN <<>> ELSE s.run
      prev == IF fresh THEN 0 ELSE s.prev
      level == CASE item.text \in DOMAIN run -> run[item.text]
                 [] item.text \notin DOMAIN run /\ item.level > prev -> item.level
                 [] OTHER -> Least(prev + 1, MaxRunDepth)
      kept == IF item.text \in DOMAIN run THEN {t \in DOMAIN run : run[t] <= level}
              ELSE DOMAIN run
  IN  CASE item.kind = "header" ->
             [run |-> [t \in kept \cup {item.text} |-> IF t = item.text THEN level ELSE run[t]],
              prev |-> level, page |-> item.page, levels |-> Append(s.levels, level)]
        [] item.kind = "content" ->
             [s EXCEPT !.run = <<>>, !.prev = 0, !.levels = Append(@, 0)]
        [] item.kind = "group" -> [s EXCEPT !.levels = Append(@, 0)]

\* The level of each header while the document is chunked; 0 for the others.
NestHeaderRuns(items) ==
  LET after[n \in 0..Len(items)] ==
        IF n = 0 THEN [run |-> <<>>, prev |-> 0, page |-> 0, levels |-> <<>>]
        ELSE Nest(after[n - 1], items[n])
  IN  after[Len(items)].levels

\* The chunker keeps one heading per level; a new one drops the deeper ones.
Trail(items, at) ==
  LET levels == NestHeaderRuns(items)
      Open(trail, i) ==
        IF levels[i] = 0 THEN trail
        ELSE [l \in {k \in DOMAIN trail : k < levels[i]} \cup {levels[i]} |->
                IF l = levels[i] THEN items[i].text ELSE trail[l]]
      open[n \in 0..at - 1] == IF n = 0 THEN <<>> ELSE Open(open[n - 1], n)
  IN  Picked(open[at - 1], DOMAIN open[at - 1])
-----------------------------------------------------------------------------
(* Merging.                                                                *)

MergeLimit == Least(MaxTokens, MinTokens * MergeMultiplier)
Undersized(c) == c.tokens < MinTokens
Fits(a, b) == a.tokens + DelimTokens + b.tokens <= MergeLimit

Merge(a, b) ==
  [tokens |-> a.tokens + DelimTokens + b.tokens,
   pieces |-> a.pieces \o b.pieces, items |-> a.items \o b.items]
\* The first k chunks in one, for each k.
Grouped(cs) ==
  LET all[k \in DOMAIN cs] == IF k = 1 THEN cs[1] ELSE Merge(all[k - 1], cs[k]) IN all

\* How many chunks from the first one on go into one group.
GroupSize(rest) ==
  LET Joins(n) == \A k \in 2..n : /\ Undersized(rest[k])
                                  /\ Fits(Grouped(rest)[k - 1], rest[k])
  IN  CHOOSE n \in DOMAIN rest :
        Joins(n) /\ \A k \in DOMAIN rest : Joins(k) => k <= n

\* A chunk of its size stays as it is.  Undersized neighbours are grouped; a
\* group still undersized goes into the next chunk, else into the last one.
MergeUp(rest, out) ==
  LET n == GroupSize(rest)
      merged == Grouped(rest)[n]
      more == SubSeq(rest, n + 1, Len(rest))
      forward == Undersized(merged) /\ more # <<>> /\ Fits(merged, Head(more))
      backward == Undersized(merged) /\ out # <<>> /\ Fits(Last(out), merged)
  IN  CASE rest = <<>> -> [rest |-> rest, out |-> out]
        [] rest # <<>> /\ ~Undersized(Head(rest)) ->
             [rest |-> Tail(rest), out |-> Append(out, Head(rest))]
        [] OTHER ->
             CASE forward -> [rest |-> <<Merge(merged, Head(more))>> \o Tail(more), out |-> out]
               [] ~forward /\ backward ->
                    [rest |-> more, out |-> Append(Front(out), Merge(Last(out), merged))]
               [] OTHER -> [rest |-> more, out |-> Append(out, merged)]

\* Each pass takes at least one chunk off the rest.
Chunks(base) ==
  LET after[n \in 0..Len(base)] ==
        IF n = 0 THEN [rest |-> base, out |-> <<>>] ELSE MergeUp(after[n - 1].rest, after[n - 1].out)
  IN  after[Len(base)].out
-----------------------------------------------------------------------------
(* Text.                                                                   *)

\* How many placeholders are among the first n words.
Holes(text, n) == Cardinality({i \in 1..n : text[i] = Image})

\* Each placeholder takes the next reference; a picture that has no description,
\* or a placeholder past the last reference, leaves nothing.
Substitute(text, refs, described) ==
  LET Nth(i) == Holes(text, i)
      Fill(i) == CASE text[i] # Image -> <<text[i]>>
                   [] text[i] = Image /\ Nth(i) <= Len(refs) /\ refs[Nth(i)] \in described ->
                        <<<<refs[Nth(i)]>>>>
                   [] OTHER -> <<>>
  IN  [text |-> FlattenSeq([i \in DOMAIN text |-> Fill(i)]),
       refs |-> SubSeq(refs, Nth(Len(text)) + 1, Len(refs))]

PictureRefs(c) == FlatMap(LAMBDA i : IF i.label = "picture" THEN <<i.ref>> ELSE <<>>, c.items)
Text(c) == FlatMap(LAMBDA p : p.text, c.pieces)
RawText(c, described) == Substitute(Text(c), PictureRefs(c), described).text

\* Mutant: every piece starts again at the first picture of the chunk.
ContextualizeAnew(c, described) ==
  FlattenSeq([i \in DOMAIN c.pieces |->
     c.pieces[i].headings \o Substitute(c.pieces[i].text, PictureRefs(c), described).text])

\* Each piece under its own headings, the references running on from one piece
\* to the next.
Contextualize(c, described) ==
  LET after[n \in 0..Len(c.pieces)] ==
        IF n = 0 THEN [text |-> <<>>, refs |-> PictureRefs(c)]
        ELSE LET s == after[n - 1]
                 piece == c.pieces[n]
                 t == Substitute(piece.text, s.refs, described)
             IN  [text |-> s.text \o piece.headings \o t.text, refs |-> t.refs]
  IN  after[Len(c.pieces)].text

InferChunkType(items) ==
  CASE \E i \in ToSet(items) : i.label = "table" -> "table"
    [] items # <<>> /\ (\A i \in ToSet(items) : i.label = "picture") -> "picture"
    [] OTHER -> "text"

\* The pages of a chunk are those its items stand on; it may have none.
Pages(c) == UNION {i.pages : i \in ToSet(c.items)}

\* The rows that are stored.
ChunkRow(c, index, described) ==
  [index |-> index, type |-> InferChunkType(c.items), raw |-> RawText(c, described),
   enriched |-> Contextualize(c, described), pages |-> Pages(c), tokens |-> c.tokens,
   misaligned |-> Holes(Text(c), Len(Text(c))) # Len(PictureRefs(c))]
ChunkDocument(base, described) ==
  LET out == Chunks(base) IN [i \in DOMAIN out |-> ChunkRow(out[i], i - 1, described)]
=============================================================================
