----------------------------- MODULE AgentLoop -------------------------------
(***************************************************************************)
(* The agent's tool-calling loop: rounds of one model call, its reports    *)
(* folded into the ledger of findings, its searches run side by side and   *)
(* folded into the ledger of evidence, and the loop's own decision whether *)
(* to go on; then the hand-over of both ledgers to the answering model.    *)
(***************************************************************************)
EXTENDS Retrieval

CONSTANTS
  Topic,                  \* the keys a plan can have: entities, or sub-questions
  NoKey,                  \* what names none of them
  Shapes,                 \* analytical or not: keys minted by searches, or seeded
  NotFound,               \* seeded entities without a document
  Found,                  \* what a search that runs may return
  Blocked,                \* chunks the injection scan blocks
  Models,                 \* the tool model and its fallbacks
  MaxIterations, MaxEmptyRounds, MaxPlanItems, MaxChunksPerEntity,
  FallbackMaxChunks, CostBudget,
  Deadline, Reserve, TurnCap   \* in units of time

ASSUME ShapeAssumption == Shapes \subseteq BOOLEAN /\ NotFound \subseteq Topic
ASSUME FoundAssumption ==
  \A r \in Found : /\ r.kind \in {"ok", "down"} /\ r.chunks \in Seq(Chunk)
                   /\ r.degraded \subseteq {"dense", "keyword", "rerank"}
                   /\ r.scored \in BOOLEAN
ASSUME LimitAssumption ==
  /\ Models \in Nat \ {0} /\ MaxIterations \in Nat \ {0}
  /\ MaxEmptyRounds \in Nat /\ MaxPlanItems \in Nat \ {0}
  /\ MaxChunksPerEntity \in Nat \ {0} /\ FallbackMaxChunks \in Nat
  /\ CostBudget \in Nat
ASSUME TimeAssumption ==
  /\ Deadline \in Nat \ {0} /\ TurnCap \in Nat \ {0}
  /\ Reserve \in Nat /\ Reserve < Deadline

VARIABLES
  pc,         \* "begin", "call", "dispatch", "decide", "end", "failed"
  left,       \* time until the run's deadline
  iteration, model,
  ledger,     \* the durable record of the run, see Empty
  emptyRounds, spend, sealed,
  reason,     \* why the run stopped
  facts,      \* what the turn in hand did
  transcript, \* the messages so far
  sent        \* the last prompt, and how many labels it showed

vars == <<pc, left, iteration, model, ledger, emptyRounds, spend, sealed,
          reason, facts, transcript, sent>>

Least(a, b) == IF a < b THEN a ELSE b
-----------------------------------------------------------------------------
(* The ledgers.                                                            *)

Nothing == [key |-> NoKey, supported |-> FALSE, evidence |-> {}]
Empty(analytical) ==
  [analytical |-> analytical,
   plan |-> IF analytical THEN {} ELSE Topic,
   tried |-> {},          \* keys searched, in whatever way that ended
   reached |-> {},        \* keys searched without a backend failure
   admitted |-> {},       \* every chunk a search returned
   labels |-> <<>>,       \* S1, S2, ...: the chunk, and its rank in its search
   entries |-> [t \in Topic |-> Nothing],
   reported |-> FALSE, degraded |-> {}, scored |-> TRUE]

Shown(l) == {l.labels[n].chunk : n \in DOMAIN l.labels}
Addressed(l) == {t \in Topic : l.entries[t] # Nothing}
OpenAspects(l) == l.plan \ Addressed(l)

\* A new sub-question opens a key while the plan has room, in the order of the
\* searches; a search without one runs anyway.
Mint(l, searches) ==
  LET new == {searches[i] : i \in DOMAIN searches} \ (l.plan \cup {NoKey})
      Place(t) == CHOOSE i \in DOMAIN searches :
                    searches[i] = t /\ \A j \in 1..i - 1 : searches[j] # t
      before(t) == {u \in new : Place(u) < Place(t)}
      minted == {t \in new : Cardinality(l.plan) + Cardinality(before(t)) < MaxPlanItems}
  IN  [l EXCEPT !.plan = IF l.analytical THEN @ \cup minted ELSE @]

\* Mutant: a search past the plan's limit is counted for its topic all the same.
SearchKeyAny(l, t) == t
SearchKey(l, t) == IF t \in l.plan THEN t ELSE NoKey

\* The chunks a label names; a label nothing has is dropped.
ResolveRefs(l, refs) == {l.labels[n].chunk : n \in refs \cap DOMAIN l.labels}

\* Mutant: a claim is stored whatever it cites.
RecordUncited(l, f) ==
  LET cited == ResolveRefs(l, f.refs)
  IN  [l EXCEPT !.reported = TRUE, !.entries[f.key] =
         [key |-> f.key, supported |-> f.supported, evidence |-> cited]]

\* Update in place.  What the scan blocks, and a claim none of whose citations
\* is in the evidence, leave the entry as it was; a claim keeps the evidence of
\* the claim it restates.
Record(l, f) ==
  LET cited == ResolveRefs(l, f.refs)
      prior == l.entries[f.key]
      kept == IF f.supported /\ prior.supported THEN prior.evidence ELSE {}
  IN  IF f.blocked \/ (f.supported /\ cited \cap l.admitted = {})
      THEN [l EXCEPT !.reported = TRUE]
      ELSE [l EXCEPT !.reported = TRUE, !.entries[f.key] =
              [key |-> f.key, supported |-> f.supported,
               evidence |-> cited \cup kept]]

\* One finding of a report, nothing when it does not parse; a finding under an
\* unknown key, or an absence no search has looked for, is named back and not
\* recorded.  A report of several is several of one: what it is judged by stays.
ApplyReport(l, f) ==
  CASE f.malformed -> l
    [] ~f.malformed /\ f.key \in l.plan /\ (f.supported \/ f.key \in l.tried) -> Record(l, f)
    [] OTHER -> [l EXCEPT !.reported = TRUE]

FoldReports(l, reports) ==
  LET after[n \in 0..Len(reports)] ==
        IF n = 0 THEN l ELSE ApplyReport(after[n - 1], reports[n])
  IN  after[Len(reports)]

\* The chunks of one result that go on screen, each once in a run, get the next
\* labels.
AssignLabels(l, result) ==
  LET top == First(result.chunks, MaxChunksPerEntity)
      Fresh(c, labels) == /\ Readable(c, result.payloads, Blocked)
                          /\ \A i \in DOMAIN labels : labels[i].chunk # c
      Labelled(c, labels) ==
        Append(labels, [chunk |-> c, rank |-> Len(labels) - Len(l.labels) + 1])
      after[n \in 0..Len(top)] ==
        IF n = 0 THEN l.labels
        ELSE IF Fresh(top[n], after[n - 1]) THEN Labelled(top[n], after[n - 1])
        ELSE after[n - 1]
  IN  after[Len(top)]

\* One search result: provenance for its key, labels for what it shows.
FoldSearch(l, t, result) ==
  LET key == SearchKey(l, t)
      absent == result.kind = "notfound" /\ key # NoKey /\ ~l.analytical
  IN  [l EXCEPT
         !.admitted = @ \cup ToSet(result.chunks),
         !.degraded = @ \cup result.degraded,
         !.scored = @ /\ (result.chunks = <<>> \/ result.scored),
         !.tried = @ \cup ({key} \ {NoKey}),
         !.reached = IF result.kind = "down" THEN @ ELSE @ \cup ({key} \ {NoKey}),
         !.labels = IF result.kind = "ok" THEN AssignLabels(l, result) ELSE @,
         !.reported = @ \/ absent,
         !.entries = IF absent
                     THEN [@ EXCEPT ![key] = [Nothing EXCEPT !.key = key]] ELSE @]

\* Mutant: every search of a turn is labelled against what the turn began with.
FoldSearchesApart(l, searches, results) ==
  LET Apart(a, n) == FoldSearch([a EXCEPT !.labels = l.labels], searches[n], results[n])
      New(a, n) == SubSeq(Apart(a, n).labels, Len(l.labels) + 1, Len(Apart(a, n).labels))
      after[n \in 0..Len(searches)] ==
        IF n = 0 THEN l
        ELSE [Apart(after[n - 1], n) EXCEPT !.labels = after[n - 1].labels \o New(after[n - 1], n)]
  IN  after[Len(searches)]

\* In call order, however the searches finished.
FoldSearches(l, searches, results) ==
  LET after[n \in 0..Len(searches)] ==
        IF n = 0 THEN l ELSE FoldSearch(after[n - 1], searches[n], results[n])
  IN  after[Len(searches)]

\* Mutant: the reports of a turn are judged after its searches.
TurnBackwards(l, turn, results) ==
  FoldReports(FoldSearches(Mint(l, turn.searches), turn.searches, results), turn.reports)

\* A turn's effect: keys first, then its reports, written before the model saw
\* this turn's results, then its searches.
TurnEffect(l, turn, results) ==
  FoldSearches(FoldReports(Mint(l, turn.searches), turn.reports), turn.searches, results)
-----------------------------------------------------------------------------
(* The transcript.  A message is its role, the number of calls it carries, *)
(* and the rounds whose status view is written into it.                    *)

Message(role, calls) == [role |-> role, calls |-> calls, status |-> {}]
Tools(n) == [i \in 1..n |-> Message("tool", 0)]

\* Mutant: the status view moves to the newest message instead of staying.
MoveStatus(messages, round) ==
  LET bare == [i \in DOMAIN messages |-> [messages[i] EXCEPT !.status = {}]]
  IN  [bare EXCEPT ![Len(bare)].status = {round}]

\* Folded into the last tool result, which no request has carried yet.
WithStatus(messages, round) ==
  IF messages[Len(messages)].role = "tool"
  THEN [messages EXCEPT ![Len(messages)].status = @ \cup {round}]
  ELSE Append(messages, [Message("user", 0) EXCEPT !.status = {round}])

Prompt(l) == IF l.plan = {} THEN transcript ELSE WithStatus(transcript, iteration)
-----------------------------------------------------------------------------
Init ==
  /\ pc = "begin" /\ left = Deadline /\ iteration = 0 /\ model = 1
  /\ ledger \in {Empty(a) : a \in Shapes} /\ emptyRounds = 0 /\ spend = 0 /\ sealed = FALSE
  /\ reason = "iteration_cap" /\ facts = [calls |-> 0]
  /\ transcript = <<Message("user", 0)>>
  /\ sent = [prompt |-> <<>>, labels |-> 0]

Stop(why) == pc' = "end" /\ reason' = why
FinalTurn == iteration = MaxIterations - 1

\* Mutant: every attempt gets the same timeout.
CallBudgetFixed == TurnCap
CallBudget == Least(TurnCap, left - Reserve)

\* A call with no budget left is not made.  The event written first takes time.
OutOfTime ==
  /\ pc = "begin" /\ CallBudget <= 0 /\ Stop("deadline")
  /\ UNCHANGED <<left, iteration, model, ledger, emptyRounds, spend, sealed,
                 facts, transcript, sent>>

BeginTurn ==
  /\ pc = "begin" /\ CallBudget > 0
  /\ \E d \in 0..1 : left' = left - d
  /\ pc' = "call" /\ model' = 1
  /\ transcript' = Prompt(ledger)
  /\ sent' = [prompt |-> Prompt(ledger), labels |-> Len(ledger.labels)]
  /\ UNCHANGED <<iteration, ledger, emptyRounds, spend, sealed, reason, facts>>

\* The call may take its budget, recomputed for every model of the chain.
Takes(d) ==
  /\ pc = "call" /\ left > 0
  /\ left' = left - d

ModelFails ==
  /\ CallBudget > 0 /\ \E d \in 0..CallBudget : Takes(d)
  /\ IF model < Models THEN model' = model + 1 /\ UNCHANGED <<pc, reason>>
     ELSE /\ UNCHANGED model
          /\ IF ledger.admitted = {} /\ Addressed(ledger) = {}
             THEN pc' = "failed" /\ UNCHANGED reason
             ELSE Stop("llm_error")
  /\ UNCHANGED <<iteration, ledger, emptyRounds, spend, sealed, facts, transcript, sent>>

\* A timeout does not fall back.
ModelTimesOut ==
  /\ Takes(IF CallBudget > 0 THEN CallBudget ELSE 0)
  /\ Stop("timeout")
  /\ UNCHANGED <<iteration, model, ledger, emptyRounds, spend, sealed, facts,
                 transcript, sent>>

\* An answer is paid for as its usage says; one without usage costs nothing.
ModelAnswers ==
  /\ CallBudget > 0 /\ \E d \in 1..CallBudget : Takes(d)
  /\ \E cost \in 0..1 : spend' = spend + cost
  /\ pc' = "dispatch"
  /\ UNCHANGED <<iteration, model, ledger, emptyRounds, sealed, reason, facts,
                 transcript, sent>>

\* No call: nothing is open and the model had nothing to add, or it just talked.
Prose ==
  /\ pc = "dispatch" /\ left > 0
  /\ LET covered == ledger.plan # {} /\ OpenAspects(ledger) = {}
     IN  /\ sealed' = covered
         /\ \E why \in {"natural", "truncated"} :
              Stop(IF covered THEN "covered" ELSE why)
  /\ UNCHANGED <<left, iteration, model, ledger, emptyRounds, spend, facts,
                 transcript, sent>>
-----------------------------------------------------------------------------
(* The calls of a turn.                                                    *)

Refused == [kind |-> "refused", chunks |-> <<>>, degraded |-> {}, scored |-> TRUE,
            payloads |-> <<>>]
\* Arguments that do not parse, and an entity nobody knows, run no search.
Answers(t) ==
  IF ~ledger.analytical /\ t \in NotFound THEN {[Refused EXCEPT !.kind = "notfound"]}
  ELSE Found
       \cup {r \in {Refused} : t = NoKey \/ (ledger.analytical /\ NotFound # {})}

Finding(key, supported, refs, blocked) ==
  [malformed |-> FALSE, key |-> key, supported |-> supported, refs |-> refs,
   blocked |-> blocked]
\* One past the last label stands for every label nothing has.
Findings ==
  {f \in [malformed : {FALSE}, key : Topic, supported : BOOLEAN, blocked : {FALSE},
          refs : {{}} \cup {{n} : n \in 1..Len(ledger.labels) + 1}] :
     f.supported <=> f.refs # {}}
  \cup {Finding(NoKey, TRUE, {1}, FALSE), Finding(CHOOSE t \in Topic : TRUE, TRUE, {1}, TRUE)}
Reports ==
  {<<>>, <<[malformed |-> TRUE]>>} \cup {<<f>> : f \in Findings}
Searches == {<<>>} \cup {<<t>> : t \in Topic \cup {NoKey}}
            \cup {<<s, t>> : s \in Topic, t \in Topic \ {NoKey}}
\* On the final turn a search is answered with a refusal and not run.
Turns ==
  {[searches |-> IF FinalTurn THEN <<>> ELSE s, reports |-> r,
    calls |-> Len(s) + Len(r)] : s \in Searches, r \in Reports}
ResultsFor(searches) ==
  CASE searches = <<>> -> {<<>>}
    [] Len(searches) = 1 -> {<<a>> : a \in Answers(searches[1])}
    [] OTHER -> {<<a, b>> : a \in Answers(searches[1]), b \in Answers(searches[2])}

\* The searches run at once, each bounded by its own timeout.
Dispatch ==
  /\ pc = "dispatch" /\ left > 0
  /\ \E turn \in {u \in Turns : u.calls > 0 /\ (u.searches # <<>> => left > 1)} : \E results \in ResultsFor(turn.searches) :
       LET after == TurnEffect(ledger, turn, results)
       IN  /\ ledger' = after
           /\ left' = IF turn.searches = <<>> THEN left ELSE left - 1
           /\ facts' = [calls |-> turn.calls, searches |-> Len(turn.searches),
                        down |-> Cardinality({i \in DOMAIN results : results[i].kind = "down"}),
                        new |-> Len(after.labels) - Len(ledger.labels),
                        closed |-> Addressed(after) # Addressed(ledger)]
           /\ transcript' = Append(transcript, Message("assistant", turn.calls))
  /\ pc' = "decide"
  /\ UNCHANGED <<iteration, model, emptyRounds, spend, sealed, reason, sent>>

\* The deadline fires while they run: their results are lost, the keys they
\* minted and the reports beside them are not.
SearchesLost ==
  /\ pc = "dispatch" /\ left > 0
  /\ \E turn \in {u \in Turns : u.searches # <<>>} :
       /\ ledger' = FoldReports(Mint(ledger, turn.searches), turn.reports)
       /\ transcript' = Append(transcript, Message("assistant", turn.calls))
  /\ left' = 0 /\ Stop("deadline")
  /\ UNCHANGED <<iteration, model, emptyRounds, spend, sealed, facts, sent>>

\* The chunks' rows are read once more after the search, outside its handler.
SearchRaises ==
  /\ pc = "dispatch" /\ left > 0 /\ ~FinalTurn
  /\ \E r \in Found : r.kind = "ok"
  /\ pc' = "failed"
  /\ UNCHANGED <<left, iteration, model, ledger, emptyRounds, spend, sealed, reason,
                 facts, transcript, sent>>

\* Any await of the turn may outlast the run.
DeadlineFires ==
  /\ \/ pc \in {"call", "dispatch"} /\ left = 0 /\ UNCHANGED left
     \/ pc = "decide" /\ left' = 0
  /\ Stop("deadline")
  /\ UNCHANGED <<iteration, model, ledger, emptyRounds, spend, sealed, facts,
                 transcript, sent>>
-----------------------------------------------------------------------------
(* The decision.                                                           *)

Rounds == IF facts.new = 0 /\ ~facts.closed THEN emptyRounds + 1 ELSE 0

\* Mutant: a plan with nothing open is covered, whatever is still unread.
VerdictEager ==
  CASE ledger.plan # {} /\ OpenAspects(ledger) = {} -> "covered"
    [] facts.searches > 0 /\ facts.down = facts.searches -> "search_unavailable"
    [] Rounds > MaxEmptyRounds -> "convergence"
    [] spend > CostBudget -> "budget_cap"
    [] OTHER -> "continue"

Covered == ledger.plan # {} /\ OpenAspects(ledger) = {} /\ facts.new = 0
Unavailable == facts.searches > 0 /\ facts.down = facts.searches
Verdict ==
  CASE Covered -> "covered"
    [] ~Covered /\ Unavailable -> "search_unavailable"
    [] ~Covered /\ ~Unavailable /\ Rounds > MaxEmptyRounds -> "convergence"
    [] ~Covered /\ ~Unavailable /\ Rounds <= MaxEmptyRounds /\ spend > CostBudget ->
         "budget_cap"
    [] OTHER -> "continue"

\* Every call gets its result before the loop decides.
Decide ==
  /\ pc = "decide" /\ left > 0
  /\ transcript' = transcript \o Tools(facts.calls)
  /\ sealed' = Covered
  /\ emptyRounds' = IF Covered \/ Unavailable THEN emptyRounds ELSE Rounds
  /\ facts' = [calls |-> 0]
  /\ CASE Verdict # "continue" -> Stop(Verdict) /\ UNCHANGED iteration
       [] Verdict = "continue" /\ FinalTurn -> Stop("iteration_cap") /\ UNCHANGED iteration
       [] OTHER -> pc' = "begin" /\ iteration' = iteration + 1 /\ UNCHANGED reason
  /\ UNCHANGED <<left, model, ledger, spend, sent>>

Next ==
  \/ OutOfTime \/ BeginTurn \/ ModelFails \/ ModelTimesOut \/ ModelAnswers
  \/ Prose \/ Dispatch \/ SearchesLost \/ SearchRaises \/ DeadlineFires \/ Decide

Spec == Init /\ [][Next]_vars
-----------------------------------------------------------------------------
(* What the answering model is given.                                      *)

Cited(l) == UNION {l.entries[t].evidence : t \in Topic}

\* Round-robin across the searches: the best of each before the second of any.
FallbackChunks(l, limit) ==
  LET places == DOMAIN l.labels
      Before(m, n) == \/ l.labels[m].rank < l.labels[n].rank
                      \/ l.labels[m].rank = l.labels[n].rank /\ m < n
  IN  {l.labels[n].chunk :
         n \in {p \in places : Cardinality({m \in places : Before(m, p)}) < limit}}

Excerpts(l) == IF Cited(l) # {} THEN Shown(l) \cap Cited(l)
               ELSE FallbackChunks(l, FallbackMaxChunks)

\* One limitation for each key still open, and what it may say of the corpus.
Unresolved(l) ==
  [t \in OpenAspects(l) |->
     CASE t \notin l.tried -> "not searched"
       [] t \in l.tried /\ t \notin l.reached -> "could not be checked"
       [] OTHER -> "not resolved"]
Projected(l) == l.reported \/ OpenAspects(l) # {}
IsSealed == ledger.plan = {} \/ sealed
-----------------------------------------------------------------------------
(* Properties.                                                             *)

\* Every variable keeps its range, and the ledgers name known keys and chunks.
TypeOK ==
  /\ pc \in {"begin", "call", "dispatch", "decide", "end", "failed"}
  /\ left \in 0..Deadline /\ iteration \in 0..MaxIterations - 1
  /\ model \in 1..Models /\ emptyRounds \in 0..MaxEmptyRounds + 1
  /\ spend \in 0..MaxIterations /\ sealed \in BOOLEAN
  /\ ledger.plan \subseteq Topic /\ ledger.reached \subseteq ledger.tried
  /\ ledger.tried \subseteq ledger.plan /\ ledger.admitted \subseteq Chunk
  /\ \A t \in Addressed(ledger) :
       ledger.entries[t].key = t /\ ledger.entries[t].evidence \subseteq Chunk

\* A label names one chunk and a chunk has one label, however the searches of a
\* turn overlap; and only admitted chunks have one (EvidenceLedger).
OneLabel ==
  /\ \A i, j \in DOMAIN ledger.labels :
       ledger.labels[i].chunk = ledger.labels[j].chunk => i = j
  /\ Shown(ledger) \subseteq ledger.admitted

\* A run that stops as covered has a finding for every key and has sent the
\* model every excerpt it put on screen: nothing it paid for is left unread.
CoveredIsRead ==
  reason = "covered" =>
    /\ OpenAspects(ledger) = {} /\ sent.labels = Len(ledger.labels)
    /\ IsSealed

\* What is served stands on what is shown beside it: each supported finding
\* cites an excerpt the answering model is given, no excerpt is one the tool
\* model could not read, and no finding or open key is withheld.
BackedByExcerpts ==
  pc = "end" =>
    /\ \A t \in Addressed(ledger) : ledger.entries[t].supported =>
         ledger.entries[t].evidence \cap Excerpts(ledger) # {}
    /\ Excerpts(ledger) \subseteq Shown(ledger)
    /\ ledger.plan \cup Addressed(ledger) # {} => Projected(ledger)

\* A model call starts within the cost budget and never runs into the reserve
\* before the deadline, the fallbacks of a slow model included.
CallsWithinLimits ==
  [][pc = "call" /\ left' < left => left' >= Reserve /\ spend <= CostBudget]_vars

\* Each request starts with the one before, verbatim, and every call in it is
\* followed by as many results as it made: what the provider's cache and its
\* message format need.
PromptsExtend ==
  [][sent' # sent =>
       /\ IsPrefix(sent.prompt, sent'.prompt)
       /\ \A i \in DOMAIN sent'.prompt : sent'.prompt[i].role = "assistant" =>
            \A j \in i + 1..i + sent'.prompt[i].calls :
              j \in DOMAIN sent'.prompt /\ sent'.prompt[j].role = "tool"]_vars

\* A finding is judged by what the model had seen when it wrote it: a claim
\* rests on labels of the last prompt, an absence on a search of an earlier
\* turn, or on an entity that has no document.
ConcludedFromRead ==
  [][\A t \in Topic :
       LET was == ledger.entries[t] now == ledger'.entries[t]
       IN  was # now =>
             /\ now.evidence \subseteq was.evidence \cup
                  {ledger.labels[n].chunk : n \in 1..sent.labels}
             /\ now.supported \/ t \in ledger.tried \/ t \in NotFound]_vars
=============================================================================
