------------------------------ MODULE Figures --------------------------------
(***************************************************************************)
(* What is done with the numbers of the agent's findings before they are   *)
(* served: conversion to one currency, the ranking, the check that a cited *)
(* text prints them, and the changes between periods.                      *)
(***************************************************************************)
EXTENDS Integers, SequencesExt

CONSTANTS
  None,                   \* nothing stated
  Missing,                \* a rate that could not be fetched
  Units, Absolute,        \* scales, and the scale of numbers printed in full
  UnitScale,              \* what a scale multiplies by
  Dollar                  \* the currency comparisons fall back to

ASSUME UnitAssumption ==
  /\ Absolute \in Units /\ UnitScale \in [Units -> Nat \ {0}] /\ UnitScale[Absolute] = 1
  /\ \A u, v \in Units : u = v \/ 2 * UnitScale[u] <= UnitScale[v] \/ 2 * UnitScale[v] <= UnitScale[u]
ASSUME NoneAssumption == None \notin Units /\ Missing \notin Int /\ Dollar # None

\* The order of a sequence without its places.
Elements(f(_), s) == {f(s[i]) : i \in DOMAIN s}
ToScale(amount, unit) == amount * UnitScale[unit]
-----------------------------------------------------------------------------
(* Currencies.  A figure is [key, metric, amount, unit, currency, date];   *)
(* rates gives a rate or Missing for each currency and date.               *)

\* The figures of the supported findings, in their order.
Rows(findings) ==
  LET rows[n \in 0..Len(findings)] ==
        CASE n = 0 -> <<>>
          [] n # 0 /\ findings[n].supported -> rows[n - 1] \o findings[n].figures
          [] OTHER -> rows[n - 1]
  IN  rows[Len(findings)]
Currencies(rows) == Elements(LAMBDA r : r.currency, rows) \ {None}
Comparison(op) == op \in {"argmin", "argmax"}

\* The currency asked for; for a comparison across several, the default.
Target(rows, op, requested) ==
  CASE requested # None -> requested
    [] requested = None /\ Comparison(op) /\ Cardinality(Currencies(rows)) > 1 -> Dollar
    [] OTHER -> None

Converts(row, target) == target # None /\ row.currency \notin {None, target}

\* Each pair of currency and date is fetched once, and once more if that failed.
Failed(rows, target, rates) ==
  {r \in ToSet(rows) : Converts(r, target) /\ rates[<<r.currency, r.date>>] = Missing}

Normalized(row, target, rates) ==
  [figure |-> row,
   amount |-> CASE ~Converts(row, target) -> row.amount
                [] Converts(row, target) /\ rates[<<row.currency, row.date>>] = Missing -> Missing
                [] OTHER -> row.amount * rates[<<row.currency, row.date>>]]

\* Without a currency or a scale a figure cannot be compared.
Rankable(n) == n.amount # Missing /\ n.figure.currency # None /\ n.figure.unit # None

\* Mutant: amounts are ranked as printed, whatever their scale.
RankUnscaled(n) == n.amount
RankKey(n) == ToScale(n.amount, n.figure.unit)

\* min and max keep the first of equals.
Pick(op, ns, places) ==
  LET Better(i, j) == IF op = "argmin" THEN RankKey(ns[i]) < RankKey(ns[j])
                      ELSE RankKey(ns[i]) > RankKey(ns[j])
  IN  IF places = {} THEN None
      ELSE ns[CHOOSE i \in places :
                \A j \in places : ~Better(j, i) /\ (j < i => Better(i, j))]

\* A comparison is not made with a hole in it.
Aborts(op, failed) == Comparison(op) /\ failed # {}

\* process_findings: the figures, the answer to a comparison, and a note.
ProcessFindings(findings, op, requested, rates, enabled) ==
  LET rows == Rows(findings)
      target == Target(rows, op, requested)
      reach == IF enabled THEN target ELSE None
      failed == Failed(rows, reach, rates)
      normalized == [i \in DOMAIN rows |-> Normalized(rows[i], reach, rates)]
      rankable == {i \in DOMAIN rows : Rankable(normalized[i])}
      keys == Elements(LAMBDA r : r.key, rows)
      several == Len(rows) > Cardinality(keys)
      default == IF target # None /\ requested = None THEN {"default currency"} ELSE {}
      \* The first note written stays, but for a failed conversion.
      note == CASE failed # {} -> {"shown unconverted"}
                [] failed = {} /\ default # {} -> default
                [] failed = {} /\ default = {} /\ Comparison(op) /\ several -> {"several figures"}
                [] failed = {} /\ default = {} /\ Comparison(op) /\ ~several
                   /\ Cardinality(rankable) < Len(rows) -> {"excluded"}
                [] OTHER -> IF op \in {"argmin", "argmax", "list"} /\ Len(findings) > 1
                               /\ Cardinality(keys) = 1
                            THEN {"one entity"} ELSE {}
  IN  IF Aborts(op, failed)
      THEN [figures |-> [i \in DOMAIN rows |-> [figure |-> rows[i], amount |-> Missing]],
            answer |-> None, target |-> target, note |-> {"not possible"}]
      ELSE [figures |-> normalized, target |-> target, note |-> note,
            answer |-> IF Comparison(op) /\ ~several THEN Pick(op, normalized, rankable) ELSE None]
-----------------------------------------------------------------------------
(* Number grounding.  A text is [stated, numbers, nil]: the scale it       *)
(* states, the numbers it prints, each with the scale word after it, and   *)
(* whether it has a cell that is only a dash.                              *)

Magnitude(n) == IF n < 0 THEN -n ELSE n
\* Within half a percent, whatever the sign.
Matches(a, b) ==
  LET x == Magnitude(a) y == Magnitude(b)
  IN  Magnitude(x - y) * 200 <= (IF x > y THEN x ELSE y)

\* What a printed number may denote: itself, itself at the word after it, or
\* at the scale of the text.
Candidates(number, unit) ==
  {number.value, ToScale(number.value, unit)}
  \cup (IF number.word = None THEN {} ELSE {ToScale(number.value, number.word)})

\* Mutant: the figure's own unit is always tried.
TextUnitOwn(text, unit) == unit
\* The scale the text states; only one that states none is read at the figure's.
TextUnit(text, unit) == IF text.stated = None THEN unit ELSE text.stated

VerifyValue(value, unit, texts) ==
  LET own == IF unit = None THEN Absolute ELSE unit
      Found(text) ==
        \/ value = 0 /\ text.nil
        \/ \E n \in text.numbers : \E c \in Candidates(n, TextUnit(text, own)) :
             Matches(ToScale(value, own), c)
  IN  CASE texts = {} -> "unverifiable"
        [] texts # {} /\ (\E text \in texts : Found(text)) -> "grounded"
        [] OTHER -> "not found"

\* Each number a claim marks, at the scale of the word after it.
VerifyMarked(marks, texts) ==
  {<<m, IF m = Missing THEN "unverifiable" ELSE VerifyValue(m.value, m.word, texts)>>
     : m \in marks}
-----------------------------------------------------------------------------
(* Changes.                                                                *)

\* In native amounts, at the finer of the two scales.  A percentage is for
\* money that started above zero.
RenderChange(a, b, grounding) ==
  LET base == ToScale(a.amount, a.unit)
      delta == ToScale(b.amount, b.unit) - base
  IN  [from |-> a, to |-> b, delta |-> delta, percent |-> b.currency # None /\ base > 0,
       flagged |-> "not found" \in {grounding[a], grounding[b]}]

\* One metric in one currency: consecutive periods, then first to last.  Two
\* figures of one date have no safe pairing.
GroupLines(group, grounding) ==
  LET Earlier(a, b) == a.date < b.date
      sorted == SetToSortSeq(ToSet(group), Earlier)
      n == Len(group)
      pairs == {<<i, i + 1>> : i \in 1..n - 1} \cup (IF n > 2 THEN {<<1, n>>} ELSE {})
  IN  IF n < 2 \/ Cardinality(Elements(LAMBDA f : f.date, group)) < n THEN {}
      ELSE {RenderChange(sorted[p[1]], sorted[p[2]], grounding) : p \in pairs}

ChangeLines(figures, grounding) ==
  LET dated == SelectSeq(figures, LAMBDA f : f.unit # None /\ f.date # None)
  IN  UNION {GroupLines(SelectSeq(dated, LAMBDA f : f.metric = g[1] /\ f.currency = g[2]),
                        grounding)
             : g \in Elements(LAMBDA f : <<f.metric, f.currency>>, dated)}

\* A finding as the answering model reads it: an absence says so; a claim gets
\* the labels of the excerpts beside it, its figures and their changes.
RenderFinding(f, excerpts, grounding) ==
  IF ~f.supported THEN [disclosed |-> FALSE, refs |-> {}, figures |-> {}, changes |-> {}]
  ELSE [disclosed |-> TRUE, refs |-> f.evidence \cap excerpts,
        figures |-> {<<r, grounding[r] = "not found">> : r \in ToSet(f.figures)},
        changes |-> ChangeLines(f.figures, grounding)]
=============================================================================
