------------------------------- MODULE History -------------------------------
(***************************************************************************)
(* What a question is answered with besides its own words: the turns       *)
(* before it, capped for the model that reads them, and the findings of an *)
(* earlier turn when the question can be answered from those.              *)
(***************************************************************************)
EXTENDS Integers, SequencesExt, Orders

CONSTANTS
  Nothing,                \* no answer yet, no block, no document scope
  MarkerTokens,           \* the mark at the end of a text that was cut
  MaxInheritHops

\* Sizes are in tokens; blocked says that the injection scan refuses the text.
Message == [role : {"user", "assistant"}, size : Nat, blocked : BOOLEAN]

ASSUME HistoryAssumption ==
  /\ MarkerTokens \in Nat /\ MaxInheritHops \in Nat
  /\ Nothing \notin Nat /\ Nothing \notin Message
-----------------------------------------------------------------------------
(* Turns.                                                                  *)

\* An answer with no question before it is dropped.
Pair(ps, m) ==
  CASE m.role = "user" -> Append(ps, [question |-> m, answer |-> Nothing])
    [] m.role = "assistant" /\ ps # <<>> /\ ps[Len(ps)].answer = Nothing ->
         [ps EXCEPT ![Len(ps)] = [question |-> @.question, answer |-> m]]
    [] OTHER -> ps
Paired(messages) ==
  LET pairs[n \in 0..Len(messages)] ==
        IF n = 0 THEN <<>> ELSE Pair(pairs[n - 1], messages[n])
  IN  pairs
Pairs(messages) == Paired(messages)[Len(messages)]

\* The messages before the question that is being asked.
Prior(messages) ==
  LET n == Len(messages)
  IN  IF n > 0 /\ messages[n].role = "user" THEN SubSeq(messages, 1, n - 1) ELSE messages

TurnOf(pair, i) ==
  [index |-> i - 1, blocked |-> pair.question.blocked, question |-> pair.question.size,
   answer |-> IF pair.answer = Nothing \/ pair.answer.size = 0 THEN Nothing
              ELSE pair.answer.size]

\* A question is scanned once more; one that is refused goes with its answer.
\* The turns keep the numbers they had before that.
PriorTurns(messages, scan) ==
  LET pairs == Pairs(Prior(messages))
  IN  Picked([i \in DOMAIN pairs |-> TurnOf(pairs[i], i)],
             {i \in DOMAIN pairs : ~(scan /\ pairs[i].question.blocked)})

TruncateTokens(size, limit) == IF size <= limit THEN size ELSE limit + MarkerTokens
TurnTokens(t) == t.question + (IF t.answer = Nothing THEN 0 ELSE t.answer)
\* By how many of the last turns.
Costs(turns) ==
  LET cost[n \in 0..Len(turns)] ==
        IF n = 0 THEN 0 ELSE cost[n - 1] + TurnTokens(turns[Len(turns) - n + 1])
  IN  cost
TotalTokens(turns) == Costs(turns)[Len(turns)]

\* A limit of 0 keeps answers whole.
CapAnswers(turns, limit) ==
  [i \in DOMAIN turns |->
     IF limit = 0 \/ turns[i].answer = Nothing THEN turns[i]
     ELSE [turns[i] EXCEPT !.answer = TruncateTokens(@, limit)]]

\* Where the longest suffix within the budget begins; past the end when not
\* even the last turn fits.
FitsFrom(turns, budget) ==
  LET cost == Costs(turns)
  IN  CHOOSE n \in 1..Len(turns) + 1 :
        /\ cost[Len(turns) + 1 - n] <= budget
        /\ n > 1 => cost[Len(turns) + 2 - n] > budget

\* The last turn alone, its answer cut to what the question leaves.
OnlyLast(turns, budget) ==
  LET last == turns[Len(turns)]
      room == IF budget > last.question THEN budget - last.question ELSE 0
  IN  <<IF last.answer = Nothing THEN last
        ELSE [last EXCEPT !.answer = TruncateTokens(@, room)]>>

\* Mutant: the window begins at the boundary before the first turn that fits.
CapTurnsBefore(turns, b) ==
  LET capped == CapAnswers(turns, b.maxAnswer)
      from == FitsFrom(capped, b.budget)
      start == (capped[from].index \div b.step) * b.step
  IN  CASE turns = <<>> -> <<>>
        [] turns # <<>> /\ from = Len(capped) + 1 -> OnlyLast(capped, b.budget)
        [] OTHER -> Picked(capped, {i \in DOMAIN capped : capped[i].index >= start})

\* The window begins at a multiple of step, unless no turn that fits is one.
CapTurns(turns, b) ==
  LET capped == CapAnswers(turns, b.maxAnswer)
      from == FitsFrom(capped, b.budget)
      fitting == SubSeq(capped, from, Len(capped))
      start == ((fitting[1].index + b.step - 1) \div b.step) * b.step
      window == Picked(fitting, {i \in DOMAIN fitting : fitting[i].index >= start})
  IN  CASE turns = <<>> -> <<>>
        [] turns # <<>> /\ fitting = <<>> -> OnlyLast(capped, b.budget)
        [] OTHER -> IF window = <<>> THEN fitting ELSE window

AsMessages(turns) ==
  FlattenSeq([i \in DOMAIN turns |->
    IF turns[i].answer = Nothing THEN <<[role |-> "user", turn |-> turns[i].index]>>
    ELSE <<[role |-> "user", turn |-> turns[i].index],
           [role |-> "assistant", turn |-> turns[i].index]>>])

\* The instructions, the turns, and the question with its context.
AssemblePrompt(turns, b) ==
  <<[role |-> "system", turn |-> -1]>> \o AsMessages(CapTurns(turns, b))
  \o <<[role |-> "user", turn |-> -1]>>
-----------------------------------------------------------------------------
(* Findings carried to a later turn.  An answer keeps [block, hops, docs]:  *)
(* the findings it was given, how often they were inherited, and the        *)
(* documents they were retrieved from.                                      *)

ScopeMoved(before, now) == before # now

Dropped == [block |-> Nothing, hops |-> 0, docs |-> Nothing]

\* Of the latest answer that has a block.  The router is asked before the scope
\* is known, so for it the scope is not compared.
LatestFindings(answers, docs, checkScope) ==
  LET at == SelectLastInSeq(answers, LAMBDA a : a.block # Nothing)
  IN  CASE at = 0 -> Dropped
        [] at # 0 /\ answers[at].hops + 1 > MaxInheritHops -> Dropped
        [] at # 0 /\ answers[at].hops + 1 <= MaxInheritHops /\ checkScope
           /\ ScopeMoved(answers[at].docs, docs) -> Dropped
        [] OTHER -> [answers[at] EXCEPT !.hops = @ + 1]

\* The documents of a turn.  Only a retrieval has its scope resolved.
ScopeDocIds(route, docs) == IF route = "retrieval" THEN docs ELSE Nothing

\* The answer to a turn [route, docs, sealed, block], after the answers before
\* it: the findings of its own run, or those it inherits; those of a run that
\* was not sealed are not kept.
AnswerTurn(answers, turn) ==
  LET docs == ScopeDocIds(turn.route, turn.docs)
  IN  CASE turn.route = "retrieval" ->
             IF turn.sealed THEN [block |-> turn.block, hops |-> 0, docs |-> docs] ELSE Dropped
        [] turn.route = "direct_answer" -> LatestFindings(answers, docs, TRUE)
        [] OTHER -> Dropped

Converse(turns) == FoldLeft(LAMBDA as, t : Append(as, AnswerTurn(as, t)), <<>>, turns)

\* What the router is told is there to answer from.
PriorFindings(answers) == LatestFindings(answers, Nothing, FALSE)
=============================================================================
