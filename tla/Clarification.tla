--------------------------- MODULE Clarification -----------------------------
(***************************************************************************)
(* Which companies a question covers, over the turns of one conversation:  *)
(* the router, the scope the user chose, the companies the question names, *)
(* the card that asks about those it cannot place, and the replies to it,  *)
(* which bind a name for the rest of the conversation.  Documents come and *)
(* go while a question runs, and replies and questions arrive meanwhile.   *)
(***************************************************************************)
EXTENDS Integers, SequencesExt

CONSTANTS
  Entity,                 \* names as questions spell them
  Company,
  Matches, Exact,         \* for each name: the companies it resembles, best
                          \* first, and those it normalizes to
  Named,                  \* the names that stand for companies
  Asked,                  \* the questions: sequences of names
  Scopes,                 \* what may be selected: sets of companies, or All
  All,
  NoAnswer,               \* of a model: failed, late or unreadable
  Answers,                \* of the disambiguator: [decision, picks]
  MaxCompanies,
  StartCorpora,           \* what there may be to begin with
  Replies,
  MaxQuestions, MaxRuns, MaxChanges

ASSUME MatchAssumption ==
  /\ Matches \in [Entity -> Seq(Company)]
  /\ \A e \in Entity : Exact[e] \subseteq ToSet(Matches[e])
  /\ StartCorpora \subseteq SUBSET Company

VARIABLES
  corpus,                 \* companies with a ready document
  changes,                \* how often it has changed
  questions,              \* the user's messages
  seq, lastSeq,           \* of the newest message, and of the newest one announced
  runs,                   \* the requests; one that asked back is a card
  bindings,               \* conversations.metadata.entity_bindings
  replies,                \* POSTs that carry a reply, in flight
  accepted                \* history: the picks of each reply stored

vars == <<corpus, changes, questions, seq, lastSeq, runs, bindings, replies, accepted>>

NoDecision == [decision |-> "none", picks |-> <<>>]
Skip == [skip |-> TRUE, company |-> NoAnswer, outside |-> "unsaid"]
Bind(c, outside) == [skip |-> FALSE, company |-> c, outside |-> outside]
Queued(q, allow, place, cause) ==
  [st |-> "queued", question |-> q, allow |-> allow, place |-> place, cause |-> cause,
   names |-> <<>>, universe |-> {}, bound |-> <<>>, found |-> <<>>, corpora |-> {},
   kind |-> "none", covered |-> {}, asked |-> <<>>, answered |-> FALSE]
Greatest(a, b) == IF a > b THEN a ELSE b
-----------------------------------------------------------------------------
(* Routing.                                                                *)

\* One retry of an answer that does not parse; without one, all of the scope is
\* searched.
RouteQuery(names, outcomes) ==
  LET usable == \/ outcomes[1] = "parsed"
                \/ outcomes[1] = "unparsed" /\ outcomes[2] = "parsed"
  IN  IF usable THEN names ELSE <<>>

\* An explicit selection of nothing is no selection.
Universe(scope, there) ==
  IF scope = All \/ scope = {} THEN there ELSE scope \cap there
-----------------------------------------------------------------------------
(* Entities.                                                               *)

Candidates(e, there) == SelectSeq(Matches[e], LAMBDA c : c \in there)

\* The model sees the candidates of every pending name; a pick among another
\* name's is a guess and is dropped.
FromLlm(answer, own) ==
  LET kept == SelectSeq(answer.picks, LAMBDA c : c \in ToSet(own))
  IN  IF answer.decision = "none" \/ kept = <<>> THEN NoDecision
      ELSE [decision |-> answer.decision, picks |-> kept]

Fallback(own) == IF own = <<>> THEN NoDecision ELSE [decision |-> "ambiguous", picks |-> own]

Resolution(d, method, outside) ==
  [decision |-> d.decision, picks |-> d.picks, method |-> method, outside |-> outside]

\* In this order: what the user said about the name, a company of exactly that
\* name, and the model; a failed call leaves every candidate open.
ResolveEntity(e, bound, there, answer) ==
  LET own == Candidates(e, there)
      exact == ToSet(own) \cap Exact[e]
      one == Cardinality(exact) = 1
      skipped == e \in DOMAIN bound /\ bound[e].skip /\ ~one
      chosen == e \in DOMAIN bound /\ ~bound[e].skip /\ bound[e].company \in there
  IN  CASE skipped -> Resolution(NoDecision, "skipped", "unsaid")
        [] chosen -> Resolution([decision |-> "resolved", picks |-> <<bound[e].company>>],
                                "binding", bound[e].outside)
        [] ~skipped /\ ~chosen /\ one ->
             Resolution([decision |-> "resolved", picks |-> <<CHOOSE c \in exact : TRUE>>],
                        "fast_path", "unsaid")
        [] OTHER ->
             CASE own = <<>> -> Resolution(NoDecision, "no_candidates", "unsaid")
               [] own # <<>> /\ answer = NoAnswer ->
                    Resolution(Fallback(own), "fallback", "unsaid")
               [] OTHER -> Resolution(FromLlm(answer, own), "llm", "unsaid")
-----------------------------------------------------------------------------
(* Scope.                                                                  *)

\* Mutant: a resolved company is searched wherever it is.
InsideAny(res, universe, there) ==
  IF res.decision = "none" THEN {} ELSE {Head(res.picks)} \cap there

\* The company a name adds to the search: one inside the scope, or outside it
\* when the user said so.
Inside(res, universe, there) ==
  IF res.decision = "none" THEN {}
  ELSE {Head(res.picks)} \cap (universe \cup (IF res.outside = "include" THEN there ELSE {}))

\* Mutant: what the user left out is asked about again.
AsksAgain(e, res, inside) ==
  e \in Named /\ ~(inside # {} /\ res.decision = "resolved")

\* A card asks about a company it had to guess, or could not place; not about one
\* the user has left out already.
Asks(e, res, inside) ==
  /\ e \in Named
  /\ IF inside # {} THEN res.decision # "resolved" ELSE res.outside # "exclude"

Outcome(res, inside) ==
  CASE inside # {} -> "ambiguous"
    [] inside = {} /\ res.decision # "none" -> "outside_scope"
    [] OTHER -> "none"

\* A skipped name counts as never said, unless nothing else was.
ResolveScope(names, found, universe, there) ==
  LET allSkipped == \A i \in DOMAIN names : found[i].method = "skipped"
      counted == {i \in DOMAIN names : found[i].method # "skipped" \/ allSkipped}
      In(i) == Inside(found[i], universe, there)
      asking == {i \in counted : Asks(names[i], found[i], In(i))}
      covered == IF names = <<>> THEN universe ELSE UNION {In(i) : i \in counted}
  IN  [covered |-> covered, broad |-> Cardinality(covered) > MaxCompanies,
       asked |-> [e \in {names[i] : i \in asking} |->
                    LET i == CHOOSE k \in asking : names[k] = e
                    IN  [outcome |-> Outcome(found[i], In(i)), picks |-> found[i].picks]]]

\* How the run goes on: a card when the client can show one, a refusal, a search.
Exit(scope, allow) ==
  CASE allow /\ (scope.broad \/ DOMAIN scope.asked # {}) -> "card"
    [] ~allow /\ scope.broad -> "too broad"
    [] OTHER -> "search"
-----------------------------------------------------------------------------
Init ==
  /\ corpus \in StartCorpora
  /\ changes = 0 /\ questions = <<>> /\ seq = 0 /\ lastSeq = 0 /\ runs = <<>>
  /\ bindings = <<>> /\ accepted = <<>>
  /\ replies = [r \in Replies |-> [st |-> "idle", card |-> 0, picks |-> <<>>]]

\* A document becomes ready, or the last one of a company is deleted.
CorpusChanges(c) ==
  /\ changes < MaxChanges
  /\ changes' = changes + 1
  /\ corpus' = IF c \in corpus THEN corpus \ {c} ELSE corpus \cup {c}
  /\ UNCHANGED <<questions, seq, lastSeq, runs, bindings, replies, accepted>>

\* POST of a question: its message, announced, and the placeholder of the answer.
Ask(names, scope, allow) ==
  /\ Len(questions) < MaxQuestions /\ Len(runs) < MaxRuns
  /\ questions' = Append(questions, [names |-> names, scope |-> scope])
  /\ lastSeq' = seq + 1
  /\ seq' = seq + 2
  /\ runs' = Append(runs, Queued(Len(questions) + 1, allow, seq + 2, 0))
  /\ UNCHANGED <<corpus, changes, bindings, replies, accepted>>

\* The worker takes the newest question of the history, and the scope of its own.
RunStart(k) ==
  /\ runs[k].st = "queued"
  /\ \E outcomes \in {<<"parsed">>, <<"failed">>, <<"unparsed", "parsed">>,
                      <<"unparsed", "unparsed">>} :
       runs' = [runs EXCEPT ![k].st = "scoped",
                  ![k].names = RouteQuery(Last(questions).names, outcomes),
                  ![k].universe = Universe(questions[runs[k].question].scope, corpus)]
  /\ UNCHANGED <<corpus, changes, questions, seq, lastSeq, bindings, replies, accepted>>

\* Bindings and candidates are read together; the model is asked once for all.
RunResolve(k) ==
  /\ runs[k].st = "scoped"
  /\ \E answers \in [DOMAIN runs[k].names -> Answers] \cup
                    {[i \in DOMAIN runs[k].names |-> NoAnswer]} :
       runs' = [runs EXCEPT ![k].st = "resolved", ![k].bound = bindings,
                  ![k].corpora = {corpus},
                  ![k].found = [i \in DOMAIN runs[k].names |->
                     ResolveEntity(runs[k].names[i], bindings, corpus, answers[i])]]
  /\ UNCHANGED <<corpus, changes, questions, seq, lastSeq, bindings, replies, accepted>>

\* The outcome, stored and announced.
RunFinish(k) ==
  /\ runs[k].st = "resolved"
  /\ LET scope == ResolveScope(runs[k].names, runs[k].found, runs[k].universe, corpus)
     IN  runs' = [runs EXCEPT ![k].st = "done", ![k].found = <<>>,
                    ![k].kind = Exit(scope, runs[k].allow),
                    ![k].covered = scope.covered, ![k].asked = scope.asked,
                    ![k].corpora = @ \cup {corpus}]
  /\ lastSeq' = Greatest(lastSeq, runs[k].place)
  /\ UNCHANGED <<corpus, changes, questions, seq, bindings, replies, accepted>>

\* What may be picked for a name on a card.
PicksFor(asked, there) ==
  (IF asked.outcome = "outside_scope" THEN {} ELSE {Skip})
  \cup {Bind(c, "unsaid") : c \in there}
  \cup (IF asked.outcome = "outside_scope" /\ Head(asked.picks) \in there
        THEN {Bind(Head(asked.picks), o) : o \in {"include", "exclude"}} ELSE {})

\* A reply is checked against the card and against what has been said since.
ReplyCheck(r, k) ==
  /\ replies[r].st = "idle"
  /\ runs[k].kind = "card" /\ ~runs[k].answered /\ lastSeq <= runs[k].place
  /\ \E names \in SUBSET DOMAIN runs[k].asked \ {{}} :
       \E picks \in [names -> UNION {PicksFor(runs[k].asked[e], corpus) : e \in names}] :
         /\ \A e \in names : picks[e] \in PicksFor(runs[k].asked[e], corpus)
         /\ replies' = [replies EXCEPT ![r] = [st |-> "checked", card |-> k, picks |-> picks]]
  /\ UNCHANGED <<corpus, changes, questions, seq, lastSeq, runs, bindings, accepted>>

\* Mutant: a reply replaces what earlier ones bound.
MergeReplace(old, new) == new
\* One statement, so that two replies do not overwrite each other.
MergeBindings(old, new) ==
  [e \in DOMAIN old \cup DOMAIN new |-> IF e \in DOMAIN new THEN new[e] ELSE old[e]]

\* The picks, the mark on the card and the request that runs its question again
\* are committed together.  A client that replies can show the next card.
ReplyCommit(r) ==
  LET card == runs[replies[r].card]
  IN  /\ replies[r].st = "checked" /\ Len(runs) < MaxRuns
      /\ replies' = [replies EXCEPT ![r].st = "stored"]
      /\ bindings' = MergeBindings(bindings, replies[r].picks)
      /\ accepted' = Append(accepted, replies[r].picks)
      /\ seq' = seq + 1
      /\ runs' = Append([runs EXCEPT ![replies[r].card].answered = TRUE],
                        Queued(card.question, TRUE, seq + 1, Len(accepted) + 1))
      /\ UNCHANGED <<corpus, changes, questions, lastSeq>>

\* Two requests number their messages alike; the later one is refused.
ReplyCollides(r) ==
  /\ replies[r].st = "checked" /\ seq > runs[replies[r].card].place
  /\ replies' = [replies EXCEPT ![r].st = "failed"]
  /\ UNCHANGED <<corpus, changes, questions, seq, lastSeq, runs, bindings, accepted>>

Next ==
  \/ \E c \in Company : CorpusChanges(c)
  \/ \E names \in Asked, scope \in Scopes, allow \in BOOLEAN : Ask(names, scope, allow)
  \/ \E k \in DOMAIN runs : RunStart(k) \/ RunResolve(k) \/ RunFinish(k)
  \/ \E r \in Replies : (\E k \in DOMAIN runs : ReplyCheck(r, k)) \/ ReplyCommit(r)
                        \/ ReplyCollides(r)

Spec == Init /\ [][Next]_vars
-----------------------------------------------------------------------------
(* Properties.                                                             *)

\* Every pick of every stored reply is in force until a later reply picks for the
\* same name, however the replies interleave (merge_entity_bindings).
PicksKept ==
  \A e \in Entity :
    LET said == {a \in DOMAIN accepted : e \in DOMAIN accepted[a]}
        newest == CHOOSE a \in said : \A b \in said : b <= a
    IN  IF said = {} THEN e \notin DOMAIN bindings
        ELSE e \in DOMAIN bindings /\ bindings[e] = accepted[newest][e]

\* A name the reply settled is not asked about by the run the reply started,
\* unless the company went away, the pick lies outside the scope and nothing was
\* said of that, a company of exactly that name appeared there, every name of the
\* question was skipped, or a later reply said otherwise.
ReplyIsHeeded ==
  \A k \in DOMAIN runs :
    LET run == runs[k]
    IN  run.kind = "card" /\ run.cause > 0 =>
          \A e \in DOMAIN run.asked \cap DOMAIN accepted[run.cause] :
            LET p == accepted[run.cause][e]
            IN  \/ \E a \in run.cause + 1..Len(accepted) : e \in DOMAIN accepted[a]
                \/ ~p.skip /\ \E there \in run.corpora : p.company \notin there
                \/ ~p.skip /\ p.outside = "unsaid" /\ p.company \notin run.universe
                \/ p.skip /\ Exact[e] \ run.universe # {}
                \/ p.skip /\ \A n \in ToSet(run.names) :
                     n \in DOMAIN run.bound /\ run.bound[n].skip

\* What a run searches lies in the scope its question was asked with, but for the
\* companies a reply included; a failed router or disambiguator never widens it.
ScopeRespected ==
  \A k \in DOMAIN runs :
    LET scope == questions[runs[k].question].scope
    IN  runs[k].kind = "search" /\ scope # All /\ scope # {} =>
          \A c \in runs[k].covered \ scope :
            \E a \in DOMAIN accepted : \E e \in DOMAIN accepted[a] :
              accepted[a][e] = Bind(c, "include")
=============================================================================
