--------------------------- MODULE AgentLoopProofs ---------------------------
(***************************************************************************)
(* Theorems about AgentLoop, for any topics, chunks, search results, models*)
(* and limits.  The first two are about the run's clocks and its prompts   *)
(* and reason about nothing the ledgers hold; the others are about the     *)
(* ledgers, and carry a property of them over the folds of a turn: its     *)
(* keys, its reports, its searches and the labels of each.                 *)
(***************************************************************************)
EXTENDS AgentLoop, SequenceLemmas

Roles == {"user", "assistant", "tool"}
Messages == [role : Roles, calls : Nat, status : SUBSET Nat]
States == {"begin", "call", "dispatch", "decide", "end", "failed"}

\* The clocks and counters of the run: the ranges TypeOK gives them.
Counted ==
  /\ pc \in States /\ left \in 0..Deadline /\ iteration \in 0..MaxIterations - 1
  /\ model \in 1..Models /\ emptyRounds \in 0..MaxEmptyRounds + 1
  /\ spend \in 0..MaxIterations /\ sealed \in BOOLEAN

\* An answer is paid for once in a round, a round more without progress is not
\* begun than the limit allows, and no round is begun over the cost budget.
Limited ==
  /\ pc \in {"begin", "call"} => spend <= iteration /\ spend <= CostBudget
  /\ spend <= iteration + 1
  /\ pc \in {"begin", "call", "dispatch", "decide"} => emptyRounds <= MaxEmptyRounds

\* The last prompt is how the transcript begins, and a round begins with
\* messages no prompt has carried.
Carried ==
  /\ transcript \in Seq(Messages) /\ transcript # <<>> /\ sent.prompt \in Seq(Messages)
  /\ Len(sent.prompt) <= Len(transcript)
  /\ \A i \in 1..Len(sent.prompt) : sent.prompt[i] = transcript[i]
  /\ pc \in {"begin", "decide"} => Len(sent.prompt) < Len(transcript)

\* Message i is followed by the results of the calls it makes.
CallsAnswered(messages, i) ==
  messages[i].role = "assistant" =>
    \A j \in i + 1..i + messages[i].calls :
      j \in 1..Len(messages) /\ messages[j].role = "tool"

\* Every call has its result, but for the calls of the turn in hand.
Paired ==
  /\ pc \in {"begin", "call", "dispatch"} =>
       \A i \in 1..Len(transcript) : CallsAnswered(transcript, i)
  /\ pc = "decide" =>
       LET n == Len(transcript) IN
       /\ \A i \in 1..n - 1 : CallsAnswered(transcript, i)
       /\ transcript[n].role = "assistant" /\ transcript[n].calls = facts.calls

Inv == Counted /\ Limited /\ Carried /\ Paired
-----------------------------------------------------------------------------
(* The clocks, the counters and the prompts.                                *)

\* A message is what it was made from.
LEMMA MessageFacts ==
  \A role \in Roles, calls \in Nat :
    /\ Message(role, calls) \in Messages
    /\ Message(role, calls).role = role /\ Message(role, calls).calls = calls
BY DEF Message, Messages

\* A turn makes some whole number of calls.
LEMMA TurnFacts == \A turn \in Turns : turn.calls \in Nat
<1>1. \A s \in Searches : Len(s) \in Nat
  BY DEF Searches
<1>2. \A r \in Reports : Len(r) \in Nat
  BY DEF Reports
<1> QED
  BY <1>1, <1>2 DEF Turns

\* The status view changes no message but the last, and of that only the view.
LEMMA StatusFacts ==
  ASSUME NEW messages \in Seq(Messages), messages # <<>>, NEW round \in Nat
  PROVE  LET after == WithStatus(messages, round) n == Len(messages) IN
         /\ after \in Seq(Messages) /\ Len(after) \in {n, n + 1}
         /\ \A i \in 1..n - 1 : after[i] = messages[i]
         /\ after[n].role = messages[n].role /\ after[n].calls = messages[n].calls
         /\ Len(after) = n => messages[n].role = "tool"
         /\ Len(after) = n + 1 => after[n] = messages[n] /\ after[n + 1].role = "user"
<1> DEFINE n == Len(messages)
<1>1. n \in Nat /\ n > 0 /\ messages[n] \in Messages
  OBVIOUS
<1>2. CASE messages[n].role = "tool"
  <2> DEFINE last == [messages[n] EXCEPT !.status = @ \cup {round}]
             after == [messages EXCEPT ![n] = last]
  <2>1. WithStatus(messages, round) = after
    BY <1>2 DEF WithStatus
  <2>2. last \in Messages /\ last.role = messages[n].role /\ last.calls = messages[n].calls
    BY <1>1 DEF Messages
  <2>3. after \in Seq(Messages) /\ Len(after) = n /\ after[n] = last
        /\ \A i \in 1..n - 1 : after[i] = messages[i]
    <3> HIDE DEF last
    <3> QED
      BY <1>1, <2>2
  <2> HIDE DEF after, last
  <2> QED
    BY <1>1, <1>2, <2>1, <2>2, <2>3
<1>3. CASE messages[n].role # "tool"
  <2> DEFINE added == [Message("user", 0) EXCEPT !.status = {round}]
             after == Append(messages, added)
  <2>1. WithStatus(messages, round) = after
    BY <1>3 DEF WithStatus
  <2>2. added \in Messages /\ added.role = "user"
    BY DEF Message, Messages, Roles
  <2>3. after \in Seq(Messages) /\ Len(after) = n + 1 /\ after[n + 1] = added
        /\ \A i \in 1..n : after[i] = messages[i]
    <3> HIDE DEF added
    <3> QED
      BY <1>1, <2>2
  <2> HIDE DEF after, added
  <2> QED
    BY <1>1, <1>3, <2>1, <2>2, <2>3
<1> QED
  BY <1>2, <1>3

\* What follows a message may grow, and statuses may be added to it.
LEMMA StaysAnswered ==
  ASSUME NEW messages \in Seq(Messages), NEW after \in Seq(Messages),
         Len(messages) <= Len(after),
         \A k \in 1..Len(messages) :
           after[k].role = messages[k].role /\ after[k].calls = messages[k].calls,
         NEW i \in 1..Len(messages), CallsAnswered(messages, i)
  PROVE  CallsAnswered(after, i)
<1>1. SUFFICES ASSUME after[i].role = "assistant",
                      NEW j \in i + 1..i + after[i].calls
               PROVE  j \in 1..Len(after) /\ after[j].role = "tool"
  BY DEF CallsAnswered
<1>2. j \in 1..Len(messages) /\ messages[j].role = "tool"
  BY <1>1 DEF CallsAnswered
<1> QED
  BY <1>2

\* A run begins with one message and nothing spent.
LEMMA InitInv == Init => Inv
<1> SUFFICES ASSUME Init PROVE Inv
  OBVIOUS
<1>1. Counted
  <2>1. pc = "begin" /\ left = Deadline /\ iteration = 0 /\ model = 1 /\ emptyRounds = 0
        /\ spend = 0
    BY DEF Init
  <2>2. sealed \in BOOLEAN
    BY DEF Init
  <2> QED
    BY <2>1, <2>2, LimitAssumption, TimeAssumption DEF Counted, States
<1>2. Limited
  BY LimitAssumption DEF Init, Limited
<1> DEFINE first == Message("user", 0)
<1>3. first \in Messages /\ first.role = "user"
  BY MessageFacts DEF Roles
<1>4. transcript = <<first>> /\ sent.prompt = <<>>
  BY DEF Init
<1> HIDE DEF first
<1>5. Carried
  BY <1>3, <1>4 DEF Carried
<1>6. Paired
  BY <1>3, <1>4 DEF Init, Paired, CallsAnswered
<1> QED
  BY <1>1, <1>2, <1>5, <1>6 DEF Inv

\* The clocks and counters, action by action.
LEMMA CountedNext == Inv /\ [Next]_vars => Counted' /\ Limited'
<1> SUFFICES ASSUME Counted, Limited, [Next]_vars PROVE Counted' /\ Limited'
  BY DEF Inv
<1> USE LimitAssumption, TimeAssumption DEF Counted, Limited, States
<1>1. CASE OutOfTime
  BY <1>1 DEF OutOfTime, Stop
<1>2. CASE BeginTurn
  BY <1>2 DEF BeginTurn, CallBudget, Least
<1>3. CASE ModelFails
  BY <1>3 DEF ModelFails, Takes, Stop, CallBudget, Least
<1>4. CASE ModelTimesOut
  BY <1>4 DEF ModelTimesOut, Takes, Stop, CallBudget, Least
<1>5. CASE ModelAnswers
  BY <1>5 DEF ModelAnswers, Takes, CallBudget, Least
<1>6. CASE Prose
  BY <1>6 DEF Prose, Stop
<1>7. CASE Dispatch
  <2>1. left' \in 0..Deadline
    BY <1>7 DEF Dispatch
  <2>2. pc' = "decide" /\ UNCHANGED <<iteration, model, emptyRounds, spend, sealed>>
    BY <1>7 DEF Dispatch
  <2>3. pc = "dispatch"
    BY <1>7 DEF Dispatch
  <2> QED
    BY <2>1, <2>2, <2>3
<1>8. CASE SearchesLost
  BY <1>8 DEF SearchesLost, Stop
<1>9. CASE SearchRaises
  BY <1>9 DEF SearchRaises
<1>10. CASE DeadlineFires
  BY <1>10 DEF DeadlineFires, Stop
<1>11. CASE Decide
  <2>1. pc = "decide" /\ UNCHANGED <<left, model, spend>>
    BY <1>11 DEF Decide
  <2>2. sealed' \in BOOLEAN
    BY <1>11 DEF Decide, Covered
  <2>3. Rounds \in 0..emptyRounds + 1
    BY DEF Rounds
  <2>4. CASE Verdict = "continue"
    <3>1. ~Covered /\ ~Unavailable /\ Rounds <= MaxEmptyRounds /\ spend <= CostBudget
      BY <2>3, <2>4 DEF Verdict
    <3>2. emptyRounds' = Rounds
      BY <1>11, <3>1 DEF Decide
    <3>3. \/ pc' = "end" /\ iteration' = iteration
          \/ pc' = "begin" /\ iteration' = iteration + 1 /\ iteration' <= MaxIterations - 1
      <4>1. CASE FinalTurn
        BY <1>11, <2>4, <4>1 DEF Decide, Stop
      <4>2. CASE ~FinalTurn
        <5>1. pc' = "begin" /\ iteration' = iteration + 1
          BY <1>11, <2>4, <4>2 DEF Decide
        <5> QED
          BY <4>2, <5>1 DEF FinalTurn
      <4> QED
        BY <4>1, <4>2
    <3> QED
      BY <2>1, <2>2, <2>3, <3>1, <3>2, <3>3
  <2>5. CASE Verdict # "continue"
    <3>1. pc' = "end" /\ iteration' = iteration
      BY <1>11, <2>5 DEF Decide, Stop
    <3>2. emptyRounds' \in {emptyRounds, Rounds}
      BY <1>11 DEF Decide
    <3> QED
      BY <2>1, <2>2, <2>3, <3>1, <3>2
  <2> QED
    BY <2>4, <2>5
<1>12. CASE UNCHANGED vars
  BY <1>12 DEF vars
<1> QED
  BY <1>1, <1>2, <1>3, <1>4, <1>5, <1>6, <1>7, <1>8, <1>9, <1>10, <1>11, <1>12
  DEF Next

\* The round's first step: the prompt is the transcript with its status view.
LEMMA BeginTurnPrompt ==
  ASSUME Counted, Carried, Paired, BeginTurn
  PROVE  /\ transcript' = sent.prompt' /\ transcript' \in Seq(Messages) /\ transcript' # <<>>
         /\ Len(sent.prompt) <= Len(transcript')
         /\ \A i \in 1..Len(sent.prompt) : transcript'[i] = sent.prompt[i]
         /\ \A i \in 1..Len(transcript') : CallsAnswered(transcript', i)
<1> DEFINE n == Len(transcript)
<1>1. pc = "begin" /\ transcript' = Prompt(ledger) /\ sent'.prompt = Prompt(ledger)
  BY DEF BeginTurn
<1>2. n \in Nat /\ n > Len(sent.prompt) /\ Len(sent.prompt) \in Nat /\ iteration \in Nat
  <2>1. transcript \in Seq(Messages) /\ sent.prompt \in Seq(Messages)
        /\ Len(sent.prompt) < Len(transcript)
    BY <1>1 DEF Carried
  <2>2. iteration \in Nat
    BY LimitAssumption DEF Counted
  <2> QED
    BY <2>1, <2>2
<1>3. \A i \in 1..n : CallsAnswered(transcript, i) /\ transcript[i] \in Messages
  BY <1>1 DEF Paired, Carried
<1>4. CASE ledger.plan = {}
  BY <1>1, <1>2, <1>3, <1>4 DEF Prompt, Carried
<1>5. CASE ledger.plan # {}
  <2> DEFINE after == transcript'
  <2>1. after = WithStatus(transcript, iteration)
    BY <1>1, <1>5 DEF Prompt
  <2>2. /\ after \in Seq(Messages) /\ Len(after) \in {n, n + 1}
        /\ \A i \in 1..n - 1 : after[i] = transcript[i]
        /\ after[n].role = transcript[n].role /\ after[n].calls = transcript[n].calls
        /\ Len(after) = n => transcript[n].role = "tool"
        /\ Len(after) = n + 1 => after[n] = transcript[n] /\ after[n + 1].role = "user"
    <3>1. transcript \in Seq(Messages) /\ transcript # <<>> /\ iteration \in Nat
      BY <1>2 DEF Carried
    <3> HIDE DEF after
    <3> QED
      BY <2>1, <3>1, StatusFacts
  <2> HIDE DEF after
  <2>3. \A i \in 1..n : after[i].role = transcript[i].role /\ after[i].calls = transcript[i].calls
    BY <1>2, <2>2
  <2>4. ASSUME NEW i \in 1..Len(after) PROVE CallsAnswered(after, i)
    <3>1. CASE i = n + 1
      BY <1>2, <2>2, <3>1 DEF CallsAnswered
    <3>2. CASE i \in 1..n
      BY <1>2, <1>3, <2>2, <2>3, <3>2, StaysAnswered DEF Carried
    <3> QED
      BY <1>2, <2>2, <3>1, <3>2
  <2>5. after # <<>> /\ \A i \in 1..Len(sent.prompt) : after[i] = sent.prompt[i]
    BY <1>2, <2>2 DEF Carried
  <2>6. after = sent.prompt'
    BY <1>1 DEF after
  <2> QED
    BY <1>2, <2>2, <2>4, <2>5, <2>6 DEF after
<1> QED
  BY <1>4, <1>5

\* The turn's message goes at the end of the transcript, its results unwritten.
LEMMA TurnWritten ==
  ASSUME Carried, Paired, pc = "dispatch", NEW calls \in Nat,
         transcript' = Append(transcript, Message("assistant", calls)),
         sent' = sent, pc' = "end" \/ (pc' = "decide" /\ facts'.calls = calls)
  PROVE  Carried' /\ Paired'
<1> DEFINE n == Len(transcript) turn == Message("assistant", calls)
<1>1. turn \in Messages /\ turn.role = "assistant" /\ turn.calls = calls
  BY MessageFacts DEF Roles
<1> HIDE DEF turn
<1>2. n \in Nat /\ transcript' \in Seq(Messages) /\ Len(transcript') = n + 1
      /\ transcript'[n + 1] = turn /\ \A i \in 1..n : transcript'[i] = transcript[i]
  BY <1>1, AppendProperties DEF Carried, turn
<1>3. Carried'
  BY <1>2 DEF Carried
<1>4. ASSUME NEW i \in 1..n PROVE CallsAnswered(transcript', i)
  <2>1. CallsAnswered(transcript, i)
    BY DEF Paired
  <2>2. transcript \in Seq(Messages) /\ n <= Len(transcript')
        /\ \A k \in 1..n : /\ transcript'[k].role = transcript[k].role
                           /\ transcript'[k].calls = transcript[k].calls
    BY <1>2 DEF Carried
  <2> QED
    BY <1>2, <2>1, <2>2, StaysAnswered
<1>5. Paired'
  BY <1>1, <1>2, <1>4 DEF Paired
<1> QED
  BY <1>3, <1>5

\* The decision writes one result for each call of the turn.
LEMMA ResultsWritten ==
  ASSUME Carried, Paired, Decide
  PROVE  Carried' /\ Paired'
<1> DEFINE n == Len(transcript) c == facts.calls results == Tools(c)
<1>1. pc = "decide" /\ transcript' = transcript \o results /\ sent' = sent
      /\ pc' \in {"begin", "end"}
  BY DEF Decide, Stop
<1>2. n \in Nat /\ n > 0 /\ transcript[n].role = "assistant" /\ c = transcript[n].calls /\ c \in Nat
  <2>1. n \in Nat /\ n > 0 /\ transcript[n] \in Messages
    BY DEF Carried
  <2> QED
    BY <1>1, <2>1 DEF Paired, Messages
<1>3. results \in Seq(Messages) /\ Len(results) = c /\ \A i \in 1..c : results[i].role = "tool"
  <2> DEFINE result == Message("tool", 0)
  <2>1. result \in Messages /\ result.role = "tool"
    BY MessageFacts DEF Roles
  <2>2. results = [i \in 1..c |-> result]
    BY DEF Tools
  <2> HIDE DEF result, c, results
  <2> QED
    BY <1>2, <2>1, <2>2
<1> HIDE DEF c, results
<1>4. /\ transcript' \in Seq(Messages) /\ Len(transcript') = n + c
      /\ \A i \in 1..n : transcript'[i] = transcript[i]
      /\ \A i \in n + 1..n + c : transcript'[i].role = "tool"
  <2>1. /\ transcript' \in Seq(Messages) /\ Len(transcript') = n + c
        /\ \A i \in 1..n + c :
             transcript'[i] = IF i <= n THEN transcript[i] ELSE results[i - n]
    BY <1>1, <1>2, <1>3, ConcatProperties DEF Carried, results
  <2>2. ASSUME NEW i \in n + 1..n + c PROVE transcript'[i].role = "tool"
    <3>1. i - n \in 1..c /\ transcript'[i] = results[i - n]
      BY <1>2, <2>1
    <3> QED
      BY <1>3, <3>1
  <2>3. ASSUME NEW i \in 1..n PROVE transcript'[i] = transcript[i]
    <3> HIDE DEF n
    <3>1. i \in 1..n + c /\ i <= n
      BY <1>2
    <3> QED
      BY <2>1, <3>1
  <2> QED
    BY <2>1, <2>2, <2>3
<1>5. Carried'
  BY <1>1, <1>2, <1>4 DEF Carried
<1>6. ASSUME NEW i \in 1..n + c PROVE CallsAnswered(transcript', i)
  <2>1. CASE i < n
    <3>1. pc = "decide" /\ i \in 1..n - 1
      BY <1>1, <1>2, <2>1
    <3>2. CallsAnswered(transcript, i)
      BY <3>1 DEF Paired
    <3>3. transcript \in Seq(Messages) /\ n <= Len(transcript')
          /\ \A k \in 1..n : /\ transcript'[k].role = transcript[k].role
                             /\ transcript'[k].calls = transcript[k].calls
      BY <1>2, <1>4 DEF Carried
    <3>4. i \in 1..n /\ transcript' \in Seq(Messages)
      BY <1>2, <1>4, <3>1
    <3> QED
      BY <3>2, <3>3, <3>4, StaysAnswered
  <2>2. CASE i = n
    <3>1. transcript'[i].calls = c
      BY <1>2, <1>4, <2>2
    <3> QED
      BY <1>2, <1>4, <2>2, <3>1 DEF CallsAnswered
  <2>3. CASE i > n
    BY <1>2, <1>4, <2>3 DEF CallsAnswered
  <2> QED
    BY <1>2, <2>1, <2>2, <2>3
<1>7. Paired'
  BY <1>1, <1>2, <1>4, <1>6 DEF Paired
<1> QED
  BY <1>5, <1>7

\* The transcript and the last prompt, action by action.
LEMMA CarriedNext == Inv /\ [Next]_vars => Carried' /\ Paired'
<1> SUFFICES ASSUME Counted, Carried, Paired, [Next]_vars PROVE Carried' /\ Paired'
  BY DEF Inv
<1>1. CASE BeginTurn
  <2>1. pc' = "call"
    BY <1>1 DEF BeginTurn
  <2>2. Len(sent'.prompt) <= Len(transcript') /\ \A i \in 1..Len(sent'.prompt) :
          sent'.prompt[i] = transcript'[i]
    BY <1>1, BeginTurnPrompt
  <2> QED
    BY <1>1, <2>1, <2>2, BeginTurnPrompt DEF Carried, Paired
<1>2. CASE Dispatch
  <2>1. PICK turn \in Turns : facts'.calls = turn.calls
                              /\ transcript' = Append(transcript, Message("assistant", turn.calls))
    BY <1>2 DEF Dispatch
  <2>2. pc = "dispatch" /\ pc' = "decide" /\ sent' = sent
    BY <1>2 DEF Dispatch
  <2> QED
    BY <2>1, <2>2, TurnFacts, TurnWritten
<1>3. CASE SearchesLost
  <2>1. PICK turn \in Turns :
          transcript' = Append(transcript, Message("assistant", turn.calls))
    BY <1>3 DEF SearchesLost
  <2>2. pc = "dispatch" /\ pc' = "end" /\ sent' = sent
    BY <1>3 DEF SearchesLost, Stop
  <2> QED
    BY <2>1, <2>2, TurnFacts, TurnWritten
<1>4. CASE Decide
  BY <1>4, ResultsWritten
<1>5. CASE OutOfTime \/ ModelFails \/ ModelTimesOut \/ ModelAnswers \/ Prose \/ SearchRaises
           \/ DeadlineFires \/ UNCHANGED vars
  <2>1. transcript' = transcript /\ sent' = sent
    BY <1>5 DEF OutOfTime, ModelFails, ModelTimesOut, ModelAnswers, Prose, SearchRaises,
                DeadlineFires, vars
  <2>2. \/ pc' = pc /\ facts' = facts
        \/ pc' \in {"end", "failed"}
        \/ pc = "call" /\ pc' = "dispatch"
    BY <1>5 DEF OutOfTime, ModelFails, ModelTimesOut, ModelAnswers, Prose, SearchRaises,
                DeadlineFires, vars, Stop, Takes
  <2> QED
    BY <2>1, <2>2 DEF Carried, Paired
<1> QED
  BY <1>1, <1>2, <1>3, <1>4, <1>5 DEF Next

\* The inductive invariant of the first two theorems.
LEMMA SpecInv == Spec => []Inv
<1>1. Inv /\ [Next]_vars => Inv'
  BY CountedNext, CarriedNext DEF Inv
<1> QED
  BY <1>1, InitInv, PTL DEF Spec
-----------------------------------------------------------------------------
\* A model call starts within the cost budget and never runs into the reserve
\* before the deadline, the fallbacks of a slow model included.
THEOREM WithinLimits == Spec => CallsWithinLimits
<1>1. ASSUME Inv, Next, pc = "call", left' < left
      PROVE  left' >= Reserve /\ spend <= CostBudget
  <2>1. spend <= CostBudget /\ left \in Nat
    BY <1>1, TimeAssumption DEF Inv, Limited, Counted
  <2>2. ModelFails \/ ModelTimesOut \/ ModelAnswers
    BY <1>1, <2>1 DEF Next, OutOfTime, BeginTurn, Prose, Dispatch, SearchesLost, SearchRaises,
                 DeadlineFires, Decide
  <2>3. left' >= Reserve
    BY <1>1, <2>1, <2>2, TimeAssumption, LimitAssumption
    DEF ModelFails, ModelTimesOut, ModelAnswers, Takes, CallBudget, Least
  <2> QED
    BY <2>1, <2>3
<1>2. Inv /\ [Next]_vars =>
        [pc = "call" /\ left' < left => left' >= Reserve /\ spend <= CostBudget]_vars
  BY <1>1
<1> QED
  BY <1>2, SpecInv, PTL DEF Spec, CallsWithinLimits

\* Each request starts with the one before, verbatim, and every call in it is
\* followed by as many results as it made.
THEOREM PromptsOnlyGrow == Spec => PromptsExtend
<1> DEFINE Grows ==
      sent' # sent =>
       /\ IsPrefix(sent.prompt, sent'.prompt)
       /\ \A i \in DOMAIN sent'.prompt : sent'.prompt[i].role = "assistant" =>
            \A j \in i + 1..i + sent'.prompt[i].calls :
              j \in DOMAIN sent'.prompt /\ sent'.prompt[j].role = "tool"
<1>1. ASSUME Inv, Next, sent' # sent PROVE Grows
  <2> DEFINE old == sent.prompt new == transcript'
  <2>1. BeginTurn
    BY <1>1 DEF Next, OutOfTime, ModelFails, ModelTimesOut, ModelAnswers, Prose, Dispatch,
                SearchesLost, SearchRaises, DeadlineFires, Decide
  <2>2. /\ new = sent'.prompt /\ new \in Seq(Messages) /\ Len(old) <= Len(new)
        /\ \A i \in 1..Len(old) : new[i] = old[i]
        /\ \A i \in 1..Len(new) : CallsAnswered(new, i)
    BY <1>1, <2>1, BeginTurnPrompt DEF Inv
  <2>3. old \in Seq(Messages)
    BY <1>1 DEF Inv, Carried
  <2> HIDE DEF old, new
  <2>4. IsPrefix(old, new)
    BY <2>2, <2>3 DEF IsPrefix
  <2> QED
    BY <2>2, <2>4 DEF old, CallsAnswered
<1>2. Inv /\ [Next]_vars => [Grows]_vars
  BY <1>1
<1> QED
  BY <1>2, SpecInv, PTL DEF Spec, PromptsExtend
-----------------------------------------------------------------------------
(* The ledgers.                                                            *)

Labels == [chunk : Chunk, rank : Nat]
Entries == [key : Topic \cup {NoKey}, supported : BOOLEAN, evidence : SUBSET Chunk]
Ledgers ==
  [analytical : BOOLEAN, plan : SUBSET Topic, tried : SUBSET Topic, reached : SUBSET Topic,
   admitted : SUBSET Chunk, labels : Seq(Labels), entries : [Topic -> Entries],
   reported : BOOLEAN, degraded : SUBSET {"dense", "keyword", "rerank"}, scored : BOOLEAN]

\* The chunks a sequence of labels names, and that it names none twice.
Named(labels) == {labels[n].chunk : n \in 1..Len(labels)}
Once(labels) ==
  \A i, j \in 1..Len(labels) : labels[i].chunk = labels[j].chunk => i = j

\* What every ledger of a run is like: besides its ranges, one label for a chunk,
\* labels on admitted chunks, findings on labelled ones, and claims on at least one.
Sound(l) ==
  /\ l \in Ledgers /\ l.reached \subseteq l.tried /\ l.tried \subseteq l.plan
  /\ Once(l.labels) /\ Named(l.labels) \subseteq l.admitted
  /\ \A t \in Topic :
       /\ l.entries[t] # Nothing => l.reported /\ l.entries[t].key = t
       /\ l.entries[t].evidence \subseteq Named(l.labels)
       /\ l.entries[t].supported => l.entries[t].evidence # {}

\* What the reports of a turn may do to a ledger: change entries, by what it shows and
\* has been searched.
Judged(l, a) ==
  /\ a.analytical = l.analytical /\ a.plan = l.plan /\ a.tried = l.tried
  /\ a.labels = l.labels
  /\ \A t \in Topic :
       \/ a.entries[t] = l.entries[t]
       \/ /\ a.entries[t].evidence \subseteq l.entries[t].evidence \cup Named(l.labels)
          /\ a.entries[t].supported \/ t \in l.tried

\* What its searches may do: all but change the plan, to entries only where no
\* document is.
Searched(l, a) ==
  /\ a.analytical = l.analytical /\ a.plan = l.plan
  /\ \A t \in Topic :
       a.entries[t] = l.entries[t] \/ (a.entries[t].evidence = {} /\ t \in NotFound)

\* The results a search may have.
Results(r) ==
  /\ r.chunks \in Seq(Chunk) /\ r.degraded \subseteq {"dense", "keyword", "rerank"}
  /\ r.scored \in BOOLEAN
-----------------------------------------------------------------------------
(* Folds.                                                                  *)

\* The reports of a turn.
LEMMA ReportsFolded ==
  ASSUME NEW D, NEW l \in D, NEW reports, Len(reports) \in Nat,
         \A a \in D, n \in 1..Len(reports) : ApplyReport(a, reports[n]) \in D
  PROVE  FoldReports(l, reports) \in D
<1> DEFINE N == Len(reports)
           Step(a, n) == ApplyReport(a, reports[n])
           F == [x \in D \X (1..N) |-> Step(x[1], x[2])]
           Equal(f) == f = [n \in 0..N |-> IF n = 0 THEN l ELSE Step(f[n - 1], n)]
           after == CHOOSE f : Equal(f)
<1>1. FoldReports(l, reports) = after[N]
  BY DEF FoldReports
<1>2. \A a \in D, n \in 1..N : Step(a, n) \in D
  OBVIOUS
<1> HIDE DEF Step, N
<1>3. N \in Nat
  BY DEF N
<1>4. F \in [D \X (1..N) -> D]
  BY <1>2
<1>10. \A a \in D, n \in 1..N : F[<<a, n>>] = Step(a, n)
  OBVIOUS
<1> HIDE DEF F
<1>5. \E f : Equal(f)
  <2>0. PICK f : Chained(f, D, l, N, F)
    BY <1>3, <1>4, Chain
  <2>1. f \in [0..N -> D] /\ f[0] = l /\ \A n \in 1..N : f[n] = F[<<f[n - 1], n>>]
    BY <2>0 DEF Chained
  <2>2. ASSUME NEW n \in 1..N PROVE f[n] = Step(f[n - 1], n)
    <3>1. f[n - 1] \in D
      BY <1>3, <2>1
    <3> QED
      BY <1>10, <2>1, <3>1
  <2>3. Equal(f)
    BY <1>3, <2>1, <2>2
  <2> QED
    BY <2>3
<1>6. Equal(after)
  BY <1>5
<1> HIDE DEF after
<1>7. after[0] = l /\ \A n \in 1..N : after[n] = Step(after[n - 1], n)
  BY <1>3, <1>6
<1> DEFINE G == {n \in 0..N : after[n] \in D}
<1>8. 0 \in G /\ \A n \in 1..N : n - 1 \in G => n \in G
  BY <1>2, <1>3, <1>7
<1>9. N \in G
  <2> HIDE DEF G
  <2>1. \A n \in 0..N : n \in G
    BY <1>3, <1>8, Upwards
  <2> QED
    BY <1>3, <2>1
<1> QED
  BY <1>1, <1>9

\* The searches of a turn.
LEMMA SearchesFolded ==
  ASSUME NEW D, NEW l \in D, NEW searches, Len(searches) \in Nat, NEW results,
         \A a \in D, n \in 1..Len(searches) :
           FoldSearch(a, searches[n], results[n]) \in D
  PROVE  FoldSearches(l, searches, results) \in D
<1> DEFINE N == Len(searches)
           Step(a, n) == FoldSearch(a, searches[n], results[n])
           F == [x \in D \X (1..N) |-> Step(x[1], x[2])]
           Equal(f) == f = [n \in 0..N |-> IF n = 0 THEN l ELSE Step(f[n - 1], n)]
           after == CHOOSE f : Equal(f)
<1>1. FoldSearches(l, searches, results) = after[N]
  BY DEF FoldSearches
<1>2. \A a \in D, n \in 1..N : Step(a, n) \in D
  OBVIOUS
<1> HIDE DEF Step, N
<1>3. N \in Nat
  BY DEF N
<1>4. F \in [D \X (1..N) -> D]
  BY <1>2
<1>10. \A a \in D, n \in 1..N : F[<<a, n>>] = Step(a, n)
  OBVIOUS
<1> HIDE DEF F
<1>5. \E f : Equal(f)
  <2>0. PICK f : Chained(f, D, l, N, F)
    BY <1>3, <1>4, Chain
  <2>1. f \in [0..N -> D] /\ f[0] = l /\ \A n \in 1..N : f[n] = F[<<f[n - 1], n>>]
    BY <2>0 DEF Chained
  <2>2. ASSUME NEW n \in 1..N PROVE f[n] = Step(f[n - 1], n)
    <3>1. f[n - 1] \in D
      BY <1>3, <2>1
    <3> QED
      BY <1>10, <2>1, <3>1
  <2>3. Equal(f)
    BY <1>3, <2>1, <2>2
  <2> QED
    BY <2>3
<1>6. Equal(after)
  BY <1>5
<1> HIDE DEF after
<1>7. after[0] = l /\ \A n \in 1..N : after[n] = Step(after[n - 1], n)
  BY <1>3, <1>6
<1> DEFINE G == {n \in 0..N : after[n] \in D}
<1>8. 0 \in G /\ \A n \in 1..N : n - 1 \in G => n \in G
  BY <1>2, <1>3, <1>7
<1>9. N \in G
  <2> HIDE DEF G
  <2>1. \A n \in 0..N : n \in G
    BY <1>3, <1>8, Upwards
  <2> QED
    BY <1>3, <2>1
<1> QED
  BY <1>1, <1>9

\* One label more, for a chunk that has none.
LEMMA LabelAdded ==
  ASSUME NEW q \in Seq(Labels), Once(q), NEW c \in Chunk, NEW k \in Nat,
         \A i \in DOMAIN q : q[i].chunk # c
  PROVE  LET p == Append(q, [chunk |-> c, rank |-> k]) IN
         p \in Seq(Labels) /\ Once(p) /\ Len(p) = Len(q) + 1 /\ Named(p) = Named(q) \cup {c}
<1> DEFINE x == [chunk |-> c, rank |-> k] p == Append(q, x)
<1>1. x \in Labels /\ x.chunk = c
  BY DEF Labels
<1> HIDE DEF x
<1>2. /\ p \in Seq(Labels) /\ Len(p) = Len(q) + 1 /\ Len(q) \in Nat
      /\ \A i \in 1..Len(q) : p[i] = q[i] /\ p[i].chunk # c
      /\ p[Len(q) + 1] = x
  BY <1>1, AppendProperties
<1> HIDE DEF p
<1>3. Once(p)
  <2>1. ASSUME NEW i \in 1..Len(p), NEW j \in 1..Len(p), p[i].chunk = p[j].chunk PROVE i = j
    <3>1. CASE i \in 1..Len(q) /\ j \in 1..Len(q)
      BY <1>2, <2>1, <3>1 DEF Once
    <3>2. CASE i = Len(q) + 1 \/ j = Len(q) + 1
      BY <1>1, <1>2, <2>1, <3>2
    <3> QED
      BY <1>2, <3>1, <3>2
  <2> QED
    BY <2>1 DEF Once
<1>4. Named(p) = Named(q) \cup {c}
  <2>1. ASSUME NEW e PROVE e \in Named(p) <=> e \in Named(q) \cup {c}
    <3>1. e \in Named(p) <=> \E i \in 1..Len(q) + 1 : e = p[i].chunk
      BY <1>2 DEF Named
    <3>2. e \in Named(q) <=> \E i \in 1..Len(q) : e = q[i].chunk
      BY DEF Named
    <3> QED
      BY <1>1, <1>2, <3>1, <3>2
  <2> QED
    BY <2>1, Zenon
<1> QED
  BY <1>2, <1>3, <1>4 DEF p, x

\* The labels of one search: each on a chunk of its own, of those it found.
LEMMA LabelsAssigned ==
  ASSUME NEW l, l.labels \in Seq(Labels), Once(l.labels), NEW r, Results(r)
  PROVE  LET q == AssignLabels(l, r) IN
         /\ q \in Seq(Labels) /\ Once(q) /\ Named(l.labels) \subseteq Named(q)
         /\ Named(q) \subseteq Named(l.labels) \cup ToSet(r.chunks)
<1> DEFINE top == First(r.chunks, MaxChunksPerEntity)
           N == Len(top)
           Fresh(c, labels) == /\ Readable(c, r.payloads, Blocked)
                               /\ \A i \in DOMAIN labels : labels[i].chunk # c
           Step(q, n) ==
             IF Fresh(top[n], q)
             THEN Append(q, [chunk |-> top[n], rank |-> Len(q) - Len(l.labels) + 1])
             ELSE q
           D == {q \in Seq(Labels) :
                   /\ Once(q) /\ Named(l.labels) \subseteq Named(q)
                   /\ Named(q) \subseteq Named(l.labels) \cup ToSet(r.chunks)
                   /\ Len(l.labels) <= Len(q)}
           F == [x \in D \X (1..N) |-> Step(x[1], x[2])]
           Equal(f) == f = [n \in 0..N |-> IF n = 0 THEN l.labels ELSE Step(f[n - 1], n)]
           after == CHOOSE f : Equal(f)
<1>1. AssignLabels(l, r) = after[N]
  BY DEF AssignLabels
<1>2. N \in Nat /\ \A n \in 1..N : top[n] \in Chunk /\ top[n] \in ToSet(r.chunks)
  <2> DEFINE m == IF MaxChunksPerEntity < Len(r.chunks) THEN MaxChunksPerEntity
                  ELSE Len(r.chunks)
  <2>1. m \in Nat /\ m <= Len(r.chunks) /\ top = SubSeq(r.chunks, 1, m)
    BY LimitAssumption DEF Results, First
  <2> HIDE DEF m, top
  <2>2. r.chunks \in Seq(Chunk) /\ \A i \in 1..m : r.chunks[i] \in Chunk
    BY <2>1 DEF Results
  <2>3. N = m /\ \A i \in 1..m : top[i] = r.chunks[i]
    BY <2>1, <2>2, SubSeqProperties
  <2>4. \A i \in 1..m : r.chunks[i] \in ToSet(r.chunks)
    BY <2>1, <2>2 DEF ToSet
  <2> QED
    BY <2>1, <2>2, <2>3, <2>4
<1> HIDE DEF top
<1>3. \A q \in D, n \in 1..N : Step(q, n) \in D
  <2> SUFFICES ASSUME NEW q \in D, NEW n \in 1..N, Fresh(top[n], q) PROVE Step(q, n) \in D
    OBVIOUS
  <2> DEFINE k == Len(q) - Len(l.labels) + 1
             p == Append(q, [chunk |-> top[n], rank |-> k])
  <2>1. k \in Nat /\ top[n] \in Chunk /\ top[n] \in ToSet(r.chunks) /\ q \in Seq(Labels)
        /\ Once(q)
    BY <1>2
  <2>2. \A i \in DOMAIN q : q[i].chunk # top[n]
    OBVIOUS
  <2>3. p \in Seq(Labels) /\ Once(p) /\ Len(p) = Len(q) + 1
        /\ Named(p) = Named(q) \cup {top[n]}
    <3> HIDE DEF k
    <3> QED
      BY <2>1, <2>2, LabelAdded
  <2>4. Step(q, n) = p
    OBVIOUS
  <2> HIDE DEF p, Step
  <2>5. p \in D
    BY <2>1, <2>3
  <2> QED
    BY <2>4, <2>5
<1>4. l.labels \in D
  OBVIOUS
<1> HIDE DEF Step, N, D
<1>5. F \in [D \X (1..N) -> D]
  BY <1>3
<1>6. \A a \in D, n \in 1..N : F[<<a, n>>] = Step(a, n)
  OBVIOUS
<1> HIDE DEF F
<1>7. \E f : Equal(f)
  <2>0. PICK f : Chained(f, D, l.labels, N, F)
    BY <1>2, <1>4, <1>5, Chain
  <2>1. f \in [0..N -> D] /\ f[0] = l.labels /\ \A n \in 1..N : f[n] = F[<<f[n - 1], n>>]
    BY <2>0 DEF Chained
  <2>2. ASSUME NEW n \in 1..N PROVE f[n] = Step(f[n - 1], n)
    <3>1. f[n - 1] \in D
      BY <1>2, <2>1
    <3> QED
      BY <1>6, <2>1, <3>1
  <2>3. Equal(f)
    BY <1>2, <2>1, <2>2
  <2> QED
    BY <2>3
<1>8. Equal(after)
  BY <1>7
<1> HIDE DEF after
<1>9. after[0] = l.labels /\ \A n \in 1..N : after[n] = Step(after[n - 1], n)
  BY <1>2, <1>8
<1> DEFINE G == {n \in 0..N : after[n] \in D}
<1>10. 0 \in G /\ \A n \in 1..N : n - 1 \in G => n \in G
  BY <1>2, <1>3, <1>4, <1>9
<1>11. N \in G
  <2> HIDE DEF G
  <2>1. \A n \in 0..N : n \in G
    BY <1>2, <1>10, Upwards
  <2> QED
    BY <1>2, <2>1
<1>12. after[N] \in D
  BY <1>11
<1> QED
  BY <1>1, <1>12 DEF D
-----------------------------------------------------------------------------
(* The reports of a turn.                                                  *)

\* A report says one thing of one key, or does not parse.
Reportable(f) ==
  \/ f.malformed = TRUE
  \/ f.malformed = FALSE /\ f.supported \in BOOLEAN /\ f.blocked \in BOOLEAN

\* What two reports do, one may do.
LEMMA JudgedTwice ==
  ASSUME NEW l, NEW a, NEW b, Judged(l, a), Judged(a, b)
  PROVE  Judged(l, b)
<1>1. \A t \in Topic :
        \/ b.entries[t] = l.entries[t]
        \/ /\ b.entries[t].evidence \subseteq l.entries[t].evidence \cup Named(l.labels)
           /\ b.entries[t].supported \/ t \in l.tried
  BY DEF Judged
<1> QED
  BY <1>1 DEF Judged

\* A finding of a known key that is a claim, or an absence some search looked for.
LEMMA FindingRecorded ==
  ASSUME NEW l, Sound(l), NEW f, f.supported \in BOOLEAN, f.key \in l.plan,
         f.supported \/ f.key \in l.tried
  PROVE  Sound(Record(l, f)) /\ Judged(l, Record(l, f))
<1> DEFINE cited == ResolveRefs(l, f.refs)
           prior == l.entries[f.key]
           kept == IF f.supported /\ prior.supported THEN prior.evidence ELSE {}
           e == [key |-> f.key, supported |-> f.supported, evidence |-> cited \cup kept]
           skipped == [l EXCEPT !.reported = TRUE]
           written == [l EXCEPT !.reported = TRUE, !.entries[f.key] = e]
           skips == f.blocked \/ (f.supported /\ cited \cap l.admitted = {})
<1>1. Record(l, f) = IF skips THEN skipped ELSE written
  BY DEF Record
<1>2. l \in Ledgers /\ f.key \in Topic
  BY DEF Sound, Ledgers
<1>3. cited \subseteq Named(l.labels) /\ Named(l.labels) \subseteq Chunk
  <2>1. l.labels \in Seq(Labels) /\ l.admitted \subseteq Chunk
    BY <1>2 DEF Ledgers
  <2>2. cited \subseteq Named(l.labels)
    BY <2>1 DEF ResolveRefs, Named
  <2> QED
    BY <2>1, <2>2 DEF Sound
<1>4. prior \in Entries /\ prior.evidence \subseteq Named(l.labels)
  BY <1>2 DEF Sound, Ledgers
<1>5. CASE skips
  <2>1. /\ skipped \in Ledgers /\ skipped.analytical = l.analytical /\ skipped.plan = l.plan
        /\ skipped.tried = l.tried /\ skipped.reached = l.reached
        /\ skipped.admitted = l.admitted /\ skipped.labels = l.labels
        /\ skipped.entries = l.entries /\ skipped.reported = TRUE
    BY <1>2 DEF Ledgers
  <2> HIDE DEF skipped
  <2>2. Sound(skipped)
    BY <2>1 DEF Sound
  <2>3. Judged(l, skipped)
    BY <2>1 DEF Judged
  <2> QED
    BY <1>1, <1>5, <2>2, <2>3
<1>6. CASE ~skips
  <2>1. /\ e \in Entries /\ e.key = f.key /\ e.supported = f.supported
        /\ e.evidence \subseteq Named(l.labels)
        /\ e.supported => e.evidence # {}
    <3>1. kept \subseteq Named(l.labels)
      BY <1>4
    <3>2. f.supported => cited # {}
      BY <1>6
    <3> HIDE DEF cited, kept
    <3> QED
      BY <1>2, <1>3, <3>1, <3>2 DEF Entries
  <2> HIDE DEF e
  <2>2. /\ written \in Ledgers /\ written.analytical = l.analytical /\ written.plan = l.plan
        /\ written.tried = l.tried /\ written.reached = l.reached
        /\ written.admitted = l.admitted /\ written.labels = l.labels
        /\ written.reported = TRUE
        /\ written.entries[f.key] = e
        /\ \A t \in Topic : t # f.key => written.entries[t] = l.entries[t]
    BY <1>2, <2>1 DEF Ledgers
  <2> HIDE DEF written
  <2>3. Sound(written)
    <3>1. ASSUME NEW t \in Topic
          PROVE  /\ written.entries[t] # Nothing => written.entries[t].key = t
                 /\ written.entries[t].evidence \subseteq Named(l.labels)
                 /\ written.entries[t].supported => written.entries[t].evidence # {}
      BY <2>1, <2>2 DEF Sound
    <3> QED
      BY <2>2, <3>1 DEF Sound
  <2>4. Judged(l, written)
    <3>1. ASSUME NEW t \in Topic
          PROVE  \/ written.entries[t] = l.entries[t]
                 \/ /\ written.entries[t].evidence \subseteq l.entries[t].evidence
                                                             \cup Named(l.labels)
                    /\ written.entries[t].supported \/ t \in l.tried
      BY <2>1, <2>2
    <3> QED
      BY <2>2, <3>1 DEF Judged
  <2> QED
    BY <1>1, <1>6, <2>3, <2>4
<1> QED
  BY <1>5, <1>6

\* One finding of a report, whatever becomes of it.
LEMMA ReportApplied ==
  ASSUME NEW l, Sound(l), NEW f, Reportable(f)
  PROVE  Sound(ApplyReport(l, f)) /\ Judged(l, ApplyReport(l, f))
<1> DEFINE known == f.key \in l.plan /\ (f.supported \/ f.key \in l.tried)
           noted == [l EXCEPT !.reported = TRUE]
<1>1. CASE f.malformed
  <2>1. ApplyReport(l, f) = l
    BY <1>1 DEF ApplyReport
  <2> QED
    BY <2>1 DEF Judged
<1>2. CASE ~f.malformed /\ known
  <2>1. ApplyReport(l, f) = Record(l, f)
    BY <1>2 DEF ApplyReport
  <2>2. f.supported \in BOOLEAN
    BY <1>2 DEF Reportable
  <2> QED
    BY <1>2, <2>1, <2>2, FindingRecorded
<1>3. CASE ~f.malformed /\ ~known
  <2>1. ApplyReport(l, f) = noted
    BY <1>3 DEF ApplyReport
  <2>2. /\ noted \in Ledgers /\ noted.analytical = l.analytical /\ noted.plan = l.plan
        /\ noted.tried = l.tried /\ noted.reached = l.reached
        /\ noted.admitted = l.admitted /\ noted.labels = l.labels
        /\ noted.entries = l.entries /\ noted.reported = TRUE
    BY DEF Ledgers, Sound
  <2> HIDE DEF noted
  <2>3. Sound(noted)
    BY <2>2 DEF Sound
  <2>4. Judged(l, noted)
    BY <2>2 DEF Judged
  <2> QED
    BY <2>1, <2>3, <2>4
<1> QED
  BY <1>1, <1>2, <1>3

\* All the reports of a turn.
LEMMA ReportsJudged ==
  ASSUME NEW l, Sound(l), NEW reports, Len(reports) \in Nat,
         \A n \in 1..Len(reports) : Reportable(reports[n])
  PROVE  Sound(FoldReports(l, reports)) /\ Judged(l, FoldReports(l, reports))
<1> DEFINE D == {a \in Ledgers : Sound(a) /\ Judged(l, a)}
<1>1. l \in D
  BY DEF Sound, Judged
<1>2. ASSUME NEW a \in D, NEW n \in 1..Len(reports) PROVE ApplyReport(a, reports[n]) \in D
  <2> DEFINE b == ApplyReport(a, reports[n])
  <2>1. Sound(b) /\ Judged(a, b)
    BY ReportApplied
  <2> HIDE DEF b
  <2>2. Judged(l, b)
    BY <2>1, JudgedTwice
  <2>3. b \in Ledgers
    BY <2>1 DEF Sound
  <2>4. b \in D
    BY <2>1, <2>2, <2>3
  <2> QED
    BY <2>4 DEF b
<1> HIDE DEF D
<1>3. FoldReports(l, reports) \in D
  BY <1>1, <1>2, ReportsFolded
<1> QED
  BY <1>3 DEF D
-----------------------------------------------------------------------------
(* The searches of a turn, and its keys.                                   *)

\* One search: labels on what it found, and no document where it says so.
LEMMA SearchFolded ==
  ASSUME NEW l, Sound(l), NEW t, NEW r, Results(r), r.kind = "notfound" => t \in NotFound
  PROVE  Sound(FoldSearch(l, t, r)) /\ Searched(l, FoldSearch(l, t, r))
<1> DEFINE key == SearchKey(l, t)
           searched == {key} \ {NoKey}
           absent == r.kind = "notfound" /\ key # NoKey /\ ~l.analytical
           labels == IF r.kind = "ok" THEN AssignLabels(l, r) ELSE l.labels
           none == [Nothing EXCEPT !.key = key]
           entries == IF absent THEN [l.entries EXCEPT ![key] = none] ELSE l.entries
           scored == l.scored /\ (r.chunks = <<>> \/ r.scored)
           reached == IF r.kind = "down" THEN l.reached ELSE l.reached \cup searched
           reported == l.reported \/ absent
           a == [l EXCEPT
                   !.admitted = @ \cup ToSet(r.chunks), !.degraded = @ \cup r.degraded,
                   !.scored = scored, !.tried = @ \cup searched,
                   !.reached = reached, !.labels = labels, !.reported = reported,
                   !.entries = entries]
<1>1. FoldSearch(l, t, r) = a
  BY DEF FoldSearch
<1>2. l \in Ledgers /\ Once(l.labels) /\ l.labels \in Seq(Labels)
  BY DEF Sound, Ledgers
<1>3. key # NoKey => key = t /\ t \in l.plan
  BY DEF SearchKey
<1>4. searched \subseteq l.plan /\ searched \subseteq Topic
  BY <1>2, <1>3 DEF Ledgers
<1>5. /\ labels \in Seq(Labels) /\ Once(labels) /\ Named(l.labels) \subseteq Named(labels)
      /\ Named(labels) \subseteq Named(l.labels) \cup ToSet(r.chunks)
  <2>1. CASE r.kind = "ok"
    BY <1>2, <2>1, LabelsAssigned
  <2>2. CASE r.kind # "ok"
    BY <1>2, <2>2
  <2> QED
    BY <2>1, <2>2
<1>6. ToSet(r.chunks) \subseteq Chunk /\ r.degraded \subseteq {"dense", "keyword", "rerank"}
  BY DEF Results, ToSet
<1>7. scored \in BOOLEAN /\ reported \in BOOLEAN
  OBVIOUS
<1>8. none.key = key /\ none.evidence = {} /\ ~none.supported /\ none.supported \in BOOLEAN
      /\ DOMAIN none = {"key", "supported", "evidence"}
  BY DEF Nothing
<1>9. \A u \in Topic :
        \/ entries[u] = l.entries[u]
        \/ absent /\ u = t /\ u = key /\ entries[u] = none
  <2>1. l.entries \in [Topic -> Entries] /\ (absent => key = t)
    BY <1>2, <1>3 DEF Ledgers
  <2> HIDE DEF none, absent, key
  <2> QED
    BY <2>1
<1>10. absent => none \in Entries
  <2>1. Nothing \in Entries
    BY DEF Nothing, Entries
  <2>2. absent => key \in Topic
    BY <1>2, <1>3 DEF Ledgers
  <2> HIDE DEF key, absent
  <2> QED
    BY <2>1, <2>2 DEF Entries
<1>11. entries \in [Topic -> Entries]
  <2> HIDE DEF none, absent
  <2> QED
    BY <1>2, <1>10 DEF Ledgers
<1>12. reached \subseteq l.tried \cup searched /\ reached \in SUBSET Topic
  BY <1>2, <1>4 DEF Sound, Ledgers
<1> HIDE DEF labels, entries, scored, reached, reported, searched
<1>13. /\ a \in Ledgers /\ a.analytical = l.analytical /\ a.plan = l.plan
       /\ a.admitted = l.admitted \cup ToSet(r.chunks) /\ a.tried = l.tried \cup searched
       /\ a.reached = reached /\ a.labels = labels /\ a.reported = reported
       /\ a.entries = entries
  BY <1>2, <1>4, <1>5, <1>6, <1>7, <1>11, <1>12 DEF Ledgers
<1> HIDE DEF a
<1>14. Searched(l, a)
  <2>1. absent => t \in NotFound
    OBVIOUS
  <2> HIDE DEF absent, none, key
  <2> QED
    BY <1>8, <1>9, <1>13, <2>1 DEF Searched
<1>15. Sound(a)
  <2>1. a.reached \subseteq a.tried /\ a.tried \subseteq a.plan
    BY <1>4, <1>12, <1>13 DEF Sound
  <2>2. Once(a.labels) /\ Named(a.labels) \subseteq a.admitted
    BY <1>5, <1>13 DEF Sound
  <2>3. ASSUME NEW u \in Topic
        PROVE  /\ a.entries[u] # Nothing => a.reported /\ a.entries[u].key = u
               /\ a.entries[u].evidence \subseteq Named(a.labels)
               /\ a.entries[u].supported => a.entries[u].evidence # {}
    <3>1. CASE entries[u] = l.entries[u]
      <4>1. l.reported => reported
        BY DEF reported
      <4> QED
        BY <1>5, <1>13, <3>1, <4>1 DEF Sound
    <3>2. CASE absent /\ u = key /\ entries[u] = none
      <4>1. reported
        BY <3>2 DEF reported
      <4>2. a.entries[u] = none /\ u = key
        BY <1>13, <3>2
      <4> HIDE DEF none, key
      <4> QED
        BY <1>8, <1>13, <4>1, <4>2
    <3> QED
      BY <1>9, <3>1, <3>2
  <2> QED
    BY <1>13, <2>1, <2>2, <2>3 DEF Sound
<1> QED
  BY <1>1, <1>14, <1>15

\* All the searches of a turn.
LEMMA SearchesSound ==
  ASSUME NEW l, Sound(l), NEW searches, NEW results, Len(searches) \in Nat,
         \A n \in 1..Len(searches) :
           /\ Results(results[n])
           /\ results[n].kind = "notfound" => searches[n] \in NotFound
  PROVE  LET a == FoldSearches(l, searches, results) IN Sound(a) /\ Searched(l, a)
<1> DEFINE D == {a \in Ledgers : Sound(a) /\ Searched(l, a)}
<1>1. l \in D
  BY DEF Sound, Searched
<1>2. ASSUME NEW a \in D, NEW n \in 1..Len(searches)
      PROVE  FoldSearch(a, searches[n], results[n]) \in D
  <2> DEFINE b == FoldSearch(a, searches[n], results[n])
  <2>1. Sound(b) /\ Searched(a, b)
    BY SearchFolded
  <2> HIDE DEF b
  <2>2. Searched(l, b)
    BY <2>1 DEF Searched
  <2>3. b \in Ledgers
    BY <2>1 DEF Sound
  <2>4. b \in D
    BY <2>1, <2>2, <2>3
  <2> QED
    BY <2>4 DEF b
<1> HIDE DEF D
<1>3. FoldSearches(l, searches, results) \in D
  BY <1>1, <1>2, SearchesFolded
<1> QED
  BY <1>3 DEF D

\* Keys minted open aspects and say nothing of them.
LEMMA KeysMinted ==
  ASSUME NEW l, Sound(l), NEW searches,
         \A i \in DOMAIN searches : searches[i] \in Topic \cup {NoKey}
  PROVE  LET a == Mint(l, searches) IN
         /\ Sound(a) /\ a.analytical = l.analytical /\ a.tried = l.tried
         /\ a.labels = l.labels /\ a.entries = l.entries
<1> DEFINE new == {searches[i] : i \in DOMAIN searches} \ (l.plan \cup {NoKey})
           Place(t) == CHOOSE i \in DOMAIN searches :
                         searches[i] = t /\ \A j \in 1..i - 1 : searches[j] # t
           before(t) == {u \in new : Place(u) < Place(t)}
           minted == {t \in new :
                        Cardinality(l.plan) + Cardinality(before(t)) < MaxPlanItems}
           plan == IF l.analytical THEN l.plan \cup minted ELSE l.plan
           a == [l EXCEPT !.plan = plan]
<1>1. Mint(l, searches) = a
  BY DEF Mint
<1>2. minted \subseteq Topic
  <2>1. minted \subseteq new
    OBVIOUS
  <2> HIDE DEF minted
  <2> QED
    BY <2>1
<1> HIDE DEF minted
<1>3. l.plan \subseteq plan /\ plan \subseteq Topic
  BY <1>2 DEF Sound, Ledgers
<1> HIDE DEF plan
<1>4. /\ a \in Ledgers /\ a.analytical = l.analytical /\ a.plan = plan /\ a.tried = l.tried
      /\ a.reached = l.reached /\ a.admitted = l.admitted /\ a.labels = l.labels
      /\ a.entries = l.entries /\ a.reported = l.reported
  BY <1>3 DEF Sound, Ledgers
<1> HIDE DEF a
<1>5. Sound(a)
  BY <1>3, <1>4 DEF Sound
<1> QED
  BY <1>1, <1>4, <1>5
-----------------------------------------------------------------------------
(* Turns.                                                                  *)

\* What the prompt showed of the ledger, and what covered means of the two.
Read ==
  /\ sent.labels \in Nat
  /\ pc \in {"call", "dispatch"} => sent.labels = Len(ledger.labels)
  /\ pc = "decide" => facts.new = Len(ledger.labels) - sent.labels
  /\ reason = "covered" =>
       /\ pc = "end" /\ OpenAspects(ledger) = {} /\ sent.labels = Len(ledger.labels)
       /\ IsSealed

\* What a turn may do to the entries.
Concluded(l, a) ==
  \A t \in Topic :
    \/ a.entries[t] = l.entries[t]
    \/ /\ a.entries[t].evidence \subseteq l.entries[t].evidence \cup Named(l.labels)
       /\ a.entries[t].supported \/ t \in l.tried \/ t \in NotFound

\* The reports, searches and results of a turn are what the lemmas on folds ask.
LEMMA ReportsOfTurn ==
  \A turn \in Turns : /\ Len(turn.reports) \in Nat
                      /\ \A n \in 1..Len(turn.reports) : Reportable(turn.reports[n])
<1>1. \A f \in Findings : Reportable(f)
  <2>1. \A key : /\ Reportable(Finding(key, TRUE, {1}, TRUE))
                 /\ Reportable(Finding(key, TRUE, {1}, FALSE))
    BY DEF Finding, Reportable
  <2>2. ASSUME NEW f \in Findings
        PROVE  \/ /\ f.malformed = FALSE /\ f.supported \in BOOLEAN /\ f.blocked = FALSE
               \/ \E key : \/ f = Finding(key, TRUE, {1}, TRUE)
                           \/ f = Finding(key, TRUE, {1}, FALSE)
    <3> HIDE DEF Finding
    <3> QED
      BY DEF Findings
  <2> QED
    BY <2>1, <2>2 DEF Reportable
<1>2. ASSUME NEW r \in Reports
      PROVE  Len(r) \in Nat /\ \A n \in 1..Len(r) : Reportable(r[n])
  <2>1. CASE r = <<>>
    BY <2>1
  <2>2. CASE r = <<[malformed |-> TRUE]>>
    BY <2>2 DEF Reportable
  <2>3. CASE \E f \in Findings : r = <<f>>
    BY <1>1, <2>3
  <2> QED
    BY <2>1, <2>2, <2>3 DEF Reports
<1>3. \A turn \in Turns : turn.reports \in Reports
  BY DEF Turns
<1> QED
  BY <1>2, <1>3

LEMMA SearchesOfTurn ==
  \A turn \in Turns :
    /\ Len(turn.searches) \in Nat
    /\ \A n \in DOMAIN turn.searches : turn.searches[n] \in Topic \cup {NoKey}
    /\ Len(turn.searches) \in {0, 1, 2} /\ DOMAIN turn.searches = 1..Len(turn.searches)
    /\ turn.searches = <<>> <=> Len(turn.searches) = 0
<1> DEFINE Fine(s) == /\ Len(s) \in Nat /\ \A n \in DOMAIN s : s[n] \in Topic \cup {NoKey}
                      /\ Len(s) \in {0, 1, 2} /\ DOMAIN s = 1..Len(s)
                      /\ s = <<>> <=> Len(s) = 0
<1>1. Fine(<<>>)
  OBVIOUS
<1>2. \A t \in Topic \cup {NoKey} : Fine(<<t>>)
  OBVIOUS
<1>3. \A s, t \in Topic : Fine(<<s, t>>)
  OBVIOUS
<1>4. \A turn \in Turns : \/ turn.searches = <<>>
                          \/ \E t \in Topic \cup {NoKey} : turn.searches = <<t>>
                          \/ \E s, t \in Topic : turn.searches = <<s, t>>
  BY DEF Turns, Searches
<1> HIDE DEF Fine
<1>5. \A turn \in Turns : Fine(turn.searches)
  BY <1>1, <1>2, <1>3, <1>4
<1> QED
  BY <1>5 DEF Fine

LEMMA ResultsOfTurn ==
  ASSUME NEW turn \in Turns, NEW results \in ResultsFor(turn.searches)
  PROVE  \A n \in 1..Len(turn.searches) :
           /\ Results(results[n])
           /\ results[n].kind = "notfound" => turn.searches[n] \in NotFound
<1> DEFINE s == turn.searches
           Fits(t, r) == Results(r) /\ (r.kind = "notfound" => t \in NotFound)
<1>1. \A t, r : r \in Answers(t) => Fits(t, r)
  <2>1. \A r \in Found : Results(r) /\ r.kind # "notfound"
    BY FoundAssumption DEF Results
  <2>2. Results(Refused) /\ Refused.kind = "refused"
    BY DEF Results, Refused
  <2>3. Results([Refused EXCEPT !.kind = "notfound"])
    BY DEF Results, Refused
  <2> QED
    BY <2>1, <2>2, <2>3 DEF Answers
<1> HIDE DEF Fits
<1>2. CASE Len(s) = 0
  BY <1>2
<1>3. CASE Len(s) = 1
  <2>1. \E a \in Answers(s[1]) : results = <<a>>
    BY <1>3, SearchesOfTurn DEF ResultsFor
  <2>2. Fits(s[1], results[1])
    BY <1>1, <2>1
  <2> QED
    BY <1>3, <2>2 DEF Fits
<1>4. CASE Len(s) = 2
  <2>1. \E a \in Answers(s[1]), b \in Answers(s[2]) : results = <<a, b>>
    BY <1>4, SearchesOfTurn DEF ResultsFor
  <2>2. Fits(s[1], results[1]) /\ Fits(s[2], results[2])
    BY <1>1, <2>1
  <2> QED
    BY <1>4, <2>2 DEF Fits
<1> QED
  BY <1>2, <1>3, <1>4, SearchesOfTurn

\* A turn whose searches are lost, and one whose searches return.
LEMMA TurnLost ==
  ASSUME NEW l, Sound(l), NEW turn \in Turns
  PROVE  LET a == FoldReports(Mint(l, turn.searches), turn.reports) IN
         Sound(a) /\ Concluded(l, a)
<1> DEFINE m == Mint(l, turn.searches) a == FoldReports(m, turn.reports)
<1>1. /\ Sound(m) /\ m.analytical = l.analytical /\ m.tried = l.tried
      /\ m.labels = l.labels /\ m.entries = l.entries
  BY SearchesOfTurn, KeysMinted
<1> HIDE DEF m
<1>2. Sound(a) /\ Judged(m, a)
  BY <1>1, ReportsOfTurn, ReportsJudged
<1> HIDE DEF a
<1>3. Concluded(l, a)
  BY <1>1, <1>2 DEF Judged, Concluded
<1> QED
  BY <1>2, <1>3 DEF a, m

LEMMA TurnReturned ==
  ASSUME NEW l, Sound(l), NEW turn \in Turns, NEW results \in ResultsFor(turn.searches)
  PROVE  LET a == TurnEffect(l, turn, results) IN Sound(a) /\ Concluded(l, a)
<1> DEFINE r == FoldReports(Mint(l, turn.searches), turn.reports)
           a == FoldSearches(r, turn.searches, results)
<1>1. Sound(r) /\ Concluded(l, r)
  BY TurnLost
<1> HIDE DEF r
<1>2. Sound(a) /\ Searched(r, a)
  BY <1>1, SearchesOfTurn, ResultsOfTurn, SearchesSound
<1>3. TurnEffect(l, turn, results) = a
  BY DEF TurnEffect, r
<1> HIDE DEF a
<1>4. Concluded(l, a)
  <2>1. \A t \in Topic :
          \/ a.entries[t] = l.entries[t]
          \/ /\ a.entries[t].evidence \subseteq l.entries[t].evidence \cup Named(l.labels)
             /\ a.entries[t].supported \/ t \in l.tried \/ t \in NotFound
    BY <1>1, <1>2 DEF Concluded, Searched
  <2> QED
    BY <2>1 DEF Concluded
<1> QED
  BY <1>2, <1>3, <1>4

\* The seeded ledger has neither labels nor findings.
LEMMA InitSound == Init => Sound(ledger) /\ Read
<1> SUFFICES ASSUME Init PROVE Sound(ledger) /\ Read
  OBVIOUS
<1>1. PICK a \in BOOLEAN : ledger = Empty(a)
  BY ShapeAssumption DEF Init
<1> DEFINE l == Empty(a) plan == IF a THEN {} ELSE Topic entries == [t \in Topic |-> Nothing]
<1>2. /\ l.plan = plan /\ l.tried = {} /\ l.reached = {} /\ l.admitted = {}
      /\ l.labels = <<>> /\ l.entries = entries
  BY DEF Empty
<1>3. Nothing \in Entries /\ Nothing.evidence = {} /\ ~Nothing.supported
  BY DEF Nothing, Entries
<1>4. plan \subseteq Topic /\ entries \in [Topic -> Entries]
      /\ \A t \in Topic : entries[t] = Nothing
  <2> HIDE DEF Nothing
  <2> QED
    BY <1>3
<1>5. l = [analytical |-> a, plan |-> plan, tried |-> {}, reached |-> {}, admitted |-> {},
           labels |-> <<>>, entries |-> entries, reported |-> FALSE, degraded |-> {},
           scored |-> TRUE]
  BY DEF Empty
<1>6. l \in Ledgers
  <2>1. <<>> \in Seq(Labels)
    OBVIOUS
  <2> HIDE DEF l, plan, entries
  <2> QED
    BY <1>4, <1>5, <2>1 DEF Ledgers
<1> HIDE DEF l, plan, entries
<1>7. Once(l.labels) /\ Named(l.labels) = {}
  BY <1>2 DEF Once, Named
<1>8. Sound(l)
  BY <1>2, <1>3, <1>4, <1>6, <1>7 DEF Sound
<1>9. Read
  BY DEF Init, Read
<1> QED
  BY <1>1, <1>8, <1>9 DEF l

\* The ledger and what the prompt showed of it, action by action.
LEMMA SoundNext == Inv /\ Sound(ledger) /\ Read /\ [Next]_vars => (Sound(ledger) /\ Read)'
<1> SUFFICES ASSUME Inv, Sound(ledger), Read, [Next]_vars
             PROVE  Sound(ledger') /\ Read'
  BY DEF Sound, Named, Once
<1>1. \A l : Sound(l) => Len(l.labels) \in Nat
  BY DEF Sound, Ledgers
<1>2. CASE BeginTurn
  <2>1. /\ ledger' = ledger /\ reason' = reason /\ pc = "begin" /\ pc' = "call"
        /\ sent'.labels = Len(ledger.labels)
    BY <1>2 DEF BeginTurn
  <2> QED
    BY <1>1, <2>1 DEF Read
<1>3. CASE Dispatch
  <2>1. PICK turn \in Turns : \E results \in ResultsFor(turn.searches) :
          /\ ledger' = TurnEffect(ledger, turn, results)
          /\ facts'.new = Len(ledger'.labels) - Len(ledger.labels)
    BY <1>3 DEF Dispatch
  <2>2. pc = "dispatch" /\ pc' = "decide" /\ reason' = reason /\ sent' = sent
    BY <1>3 DEF Dispatch
  <2>3. Sound(ledger')
    BY <2>1, TurnReturned
  <2> QED
    BY <1>1, <2>1, <2>2, <2>3 DEF Read
<1>4. CASE SearchesLost
  <2>1. PICK turn \in Turns :
          ledger' = FoldReports(Mint(ledger, turn.searches), turn.reports)
    BY <1>4 DEF SearchesLost
  <2>2. pc' = "end" /\ reason' = "deadline" /\ sent' = sent
    BY <1>4 DEF SearchesLost, Stop
  <2>3. Sound(ledger')
    BY <2>1, TurnLost
  <2> QED
    BY <2>2, <2>3 DEF Read
<1>5. CASE Prose
  <2>1. /\ pc = "dispatch" /\ pc' = "end" /\ ledger' = ledger /\ sent' = sent
        /\ reason' = "covered" => OpenAspects(ledger) = {} /\ sealed'
    BY <1>5 DEF Prose, Stop
  <2>2. OpenAspects(ledger)' = OpenAspects(ledger)
    BY <2>1 DEF OpenAspects, Addressed
  <2> QED
    BY <2>1, <2>2 DEF Read, IsSealed
<1>6. CASE Decide
  <2>1. /\ pc = "decide" /\ pc' \in {"begin", "end"} /\ ledger' = ledger /\ sent' = sent
        /\ sealed' = Covered
    BY <1>6 DEF Decide, Stop
  <2>2. reason' = "covered" => Covered /\ pc' = "end"
    <3>1. reason # "covered"
      BY <2>1 DEF Read
    <3>2. \/ Verdict # "continue" /\ reason' = Verdict /\ pc' = "end"
          \/ reason' = "iteration_cap" \/ reason' = reason
      BY <1>6 DEF Decide, Stop
    <3>3. Verdict = "covered" => Covered
      BY DEF Verdict
    <3> QED
      BY <3>1, <3>2, <3>3
  <2>3. OpenAspects(ledger)' = OpenAspects(ledger)
    BY <2>1 DEF OpenAspects, Addressed
  <2>4. Covered => OpenAspects(ledger) = {} /\ sent.labels = Len(ledger.labels)
    BY <1>1, <2>1 DEF Covered, Read
  <2>5. sealed' = Covered /\ (IsSealed' <=> (ledger'.plan = {} \/ sealed'))
    BY <2>1 DEF IsSealed
  <2> QED
    BY <2>1, <2>2, <2>3, <2>4, <2>5 DEF Read
<1>7. CASE OutOfTime \/ ModelFails \/ ModelTimesOut \/ ModelAnswers \/ SearchRaises
           \/ DeadlineFires
  <2>1. /\ ledger' = ledger /\ sent' = sent /\ sealed' = sealed
        /\ pc \in {"begin", "call", "dispatch", "decide"}
    BY <1>7 DEF OutOfTime, ModelFails, ModelTimesOut, ModelAnswers, SearchRaises,
                DeadlineFires, Takes
  <2>2. \/ pc' \in {"end", "failed"}
        \/ pc = "call" /\ pc' \in {"call", "dispatch"}
    BY <1>7 DEF OutOfTime, ModelFails, ModelTimesOut, ModelAnswers, SearchRaises,
                DeadlineFires, Stop, Takes
  <2>3. reason' \in {reason, "deadline", "llm_error", "timeout"}
    BY <1>7 DEF OutOfTime, ModelFails, ModelTimesOut, ModelAnswers, SearchRaises,
                DeadlineFires, Stop, Takes
  <2>4. reason' # "covered"
    BY <2>1, <2>3 DEF Read
  <2> QED
    BY <2>1, <2>2, <2>4 DEF Read
<1>8. CASE UNCHANGED vars
  <2>1. OpenAspects(ledger)' = OpenAspects(ledger) /\ IsSealed' = IsSealed
    BY <1>8 DEF vars, OpenAspects, Addressed, IsSealed
  <2> QED
    BY <1>8, <2>1 DEF vars, Read
<1> QED
  BY <1>2, <1>3, <1>4, <1>5, <1>6, <1>7, <1>8 DEF Next

\* The inductive invariant of the theorems about the ledgers.
LEMMA SpecSound == Spec => [](Inv /\ Sound(ledger) /\ Read)
<1>1. Inv /\ [Next]_vars => Inv'
  BY CountedNext, CarriedNext DEF Inv
<1> QED
  BY <1>1, InitInv, InitSound, SoundNext, PTL DEF Spec

\* Every variable of a run keeps its range, and its ledger names known keys and
\* chunks: rounds, rounds without progress and paid answers stay within their
\* limits, time never runs below zero, and only planned keys count as searched.
THEOREM Ranged == Spec => []TypeOK
<1>1. Inv /\ Sound(ledger) => TypeOK
  <2> SUFFICES ASSUME Counted, Sound(ledger) PROVE TypeOK
    BY DEF Inv
  <2>1. /\ ledger.plan \subseteq Topic /\ ledger.reached \subseteq ledger.tried
        /\ ledger.tried \subseteq ledger.plan /\ ledger.admitted \subseteq Chunk
    BY DEF Sound, Ledgers
  <2>2. \A t \in Addressed(ledger) :
          ledger.entries[t].key = t /\ ledger.entries[t].evidence \subseteq Chunk
    BY DEF Sound, Ledgers, Addressed, Entries
  <2> QED
    BY <2>1, <2>2 DEF TypeOK, Counted, States
<1> QED
  BY <1>1, SpecSound, PTL

\* A label names one chunk and a chunk has one label, however the searches of a
\* turn overlap; and only admitted chunks have one.
THEOREM LabelsAreUnique == Spec => []OneLabel
<1>1. Sound(ledger) => OneLabel
  <2> SUFFICES ASSUME Sound(ledger) PROVE OneLabel
    OBVIOUS
  <2>1. DOMAIN ledger.labels = 1..Len(ledger.labels)
    BY DEF Sound, Ledgers
  <2> QED
    BY <2>1 DEF OneLabel, Sound, Once, Named, Shown
<1> QED
  BY <1>1, SpecSound, PTL

\* A run that stops as covered has a finding for every key and has sent the model
\* every excerpt it put on screen.
THEOREM CoveredWasRead == Spec => []CoveredIsRead
<1>1. Read => CoveredIsRead
  BY DEF Read, CoveredIsRead
<1> QED
  BY <1>1, SpecSound, PTL

\* What is served stands on what is shown beside it: each supported finding cites
\* an excerpt the answering model is given, and no finding or open key is withheld.
THEOREM FindingsAreBacked == Spec => []BackedByExcerpts
<1>1. Sound(ledger) => BackedByExcerpts
  <2> SUFFICES ASSUME Sound(ledger) PROVE BackedByExcerpts
    OBVIOUS
  <2>1. Shown(ledger) = Named(ledger.labels)
    BY DEF Sound, Ledgers, Shown, Named
  <2>2. ASSUME NEW t \in Topic, ledger.entries[t].supported
        PROVE  ledger.entries[t].evidence \cap Excerpts(ledger) # {}
    <3>1. /\ ledger.entries[t].evidence # {}
          /\ ledger.entries[t].evidence \subseteq Shown(ledger)
          /\ ledger.entries[t].evidence \subseteq Cited(ledger)
      BY <2>1, <2>2 DEF Sound, Cited
    <3>2. Excerpts(ledger) = Shown(ledger) \cap Cited(ledger)
      BY <3>1 DEF Excerpts
    <3> QED
      BY <3>1, <3>2
  <2>3. Excerpts(ledger) \subseteq Shown(ledger)
    <3>1. FallbackChunks(ledger, FallbackMaxChunks) \subseteq Shown(ledger)
      BY DEF FallbackChunks, Shown
    <3> QED
      BY <3>1 DEF Excerpts
  <2>4. ASSUME ledger.plan \cup Addressed(ledger) # {} PROVE Projected(ledger)
    <3>1. CASE Addressed(ledger) = {}
      BY <2>4, <3>1 DEF Projected, OpenAspects
    <3>2. CASE Addressed(ledger) # {}
      <4>1. PICK t \in Topic : ledger.entries[t] # Nothing
        BY <3>2 DEF Addressed
      <4>2. ledger.reported
        BY <4>1 DEF Sound
      <4> QED
        BY <4>2 DEF Projected
    <3> QED
      BY <3>1, <3>2
  <2> QED
    BY <2>2, <2>3, <2>4 DEF BackedByExcerpts, Addressed
<1> QED
  BY <1>1, SpecSound, PTL

\* A finding is judged by what the model had seen when it wrote it: a claim rests
\* on labels of the last prompt, an absence on a search of an earlier turn, or on
\* an entity that has no document.
THEOREM FindingsRestOnPrompts == Spec => ConcludedFromRead
<1> DEFINE Rests ==
      \A t \in Topic :
        LET was == ledger.entries[t] now == ledger'.entries[t]
        IN  was # now =>
              /\ now.evidence \subseteq was.evidence \cup
                   {ledger.labels[n].chunk : n \in 1..sent.labels}
              /\ now.supported \/ t \in ledger.tried \/ t \in NotFound
<1>1. ASSUME Sound(ledger), Read, Next PROVE Rests
  <2>1. CASE Dispatch \/ SearchesLost
    <3>1. Concluded(ledger, ledger')
      <4>1. CASE Dispatch
        <5>1. PICK turn \in Turns : \E results \in ResultsFor(turn.searches) :
                ledger' = TurnEffect(ledger, turn, results)
          BY <4>1 DEF Dispatch
        <5> QED
          BY <1>1, <5>1, TurnReturned
      <4>2. CASE SearchesLost
        <5>1. PICK turn \in Turns :
                ledger' = FoldReports(Mint(ledger, turn.searches), turn.reports)
          BY <4>2 DEF SearchesLost
        <5> QED
          BY <1>1, <5>1, TurnLost
      <4> QED
        BY <2>1, <4>1, <4>2
    <3>2. sent.labels = Len(ledger.labels)
      BY <1>1, <2>1 DEF Read, Dispatch, SearchesLost
    <3>3. Named(ledger.labels) = {ledger.labels[n].chunk : n \in 1..sent.labels}
      BY <3>2 DEF Named
    <3> QED
      BY <3>1, <3>3 DEF Concluded
  <2>2. CASE ~(Dispatch \/ SearchesLost)
    <3>1. ledger' = ledger
      BY <1>1, <2>2 DEF Next, OutOfTime, BeginTurn, ModelFails, ModelTimesOut, ModelAnswers,
                 Prose, SearchRaises, DeadlineFires, Decide
    <3> QED
      BY <3>1
  <2> QED
    BY <2>1, <2>2
<1>2. Inv /\ Sound(ledger) /\ Read /\ [Next]_vars => [Rests]_vars
  BY <1>1
<1> QED
  BY <1>2, SpecSound, PTL DEF Spec, ConcludedFromRead
=============================================================================
