------------------------- MODULE ClarificationProofs -------------------------
(***************************************************************************)
(* Theorems about Clarification, for any companies, names, answers of the  *)
(* model, number of questions, replies and runs.                           *)
(***************************************************************************)
EXTENDS Clarification, SequenceTheorems, FiniteSetTheorems, TLAPS

(* Sequences of anything. *)

Listed(s) == \E S : s \in Seq(S)

LEMMA ListedLen ==
  ASSUME NEW s, Listed(s)
  PROVE  Len(s) \in Nat /\ DOMAIN s = 1 .. Len(s)
BY LenProperties DEF Listed

LEMMA Appended ==
  ASSUME NEW s, NEW e, Listed(s)
  PROVE  /\ Listed(Append(s, e))
         /\ DOMAIN Append(s, e) = 1 .. Len(s) + 1
         /\ Len(Append(s, e)) = Len(s) + 1
         /\ \A i \in 1 .. Len(s) : Append(s, e)[i] = s[i]
         /\ Append(s, e)[Len(s) + 1] = e
<1>1. PICK S : s \in Seq(S)
  BY DEF Listed
<1>2. s \in Seq(S \cup {e})
  BY <1>1, SeqMonotonic
<1> DEFINE a == Append(s, e)
<1>3. /\ a \in Seq(S \cup {e}) /\ Len(a) = Len(s) + 1
      /\ \A i \in 1 .. Len(s) : a[i] = s[i]
      /\ a[Len(s) + 1] = e
  BY <1>2, AppendProperties
<1>4. DOMAIN a = 1 .. Len(a)
  BY <1>3, LenProperties
<1> QED
  BY <1>3, <1>4 DEF Listed

LEMMA Changed ==
  ASSUME NEW s, NEW v, Listed(s), NEW k \in DOMAIN s
  PROVE  /\ Listed([s EXCEPT ![k] = v])
         /\ DOMAIN [s EXCEPT ![k] = v] = DOMAIN s
         /\ Len([s EXCEPT ![k] = v]) = Len(s)
<1>1. PICK S : s \in Seq(S)
  BY DEF Listed
<1>2. s \in Seq(S \cup {v}) /\ k \in 1 .. Len(s)
  BY <1>1, SeqMonotonic, LenProperties
<1>3. /\ [s EXCEPT ![k] = v] \in Seq(S \cup {v})
      /\ Len([s EXCEPT ![k] = v]) = Len(s)
  BY <1>2, ExceptSeq
<1> QED
  BY <1>3 DEF Listed
-----------------------------------------------------------------------------
(* The shape of the state, as far as the proofs need it.                   *)

RunFields == {"st", "question", "allow", "place", "cause", "names", "universe",
              "bound", "found", "corpora", "kind", "covered", "asked",
              "answered"}
Pick == {Skip} \cup {Bind(c, o) : c \in Company,
                                  o \in {"unsaid", "include", "exclude"}}

RunShape(run, qs, acc) ==
  /\ DOMAIN run = RunFields
  /\ run.question \in DOMAIN qs /\ run.cause \in 0 .. Len(acc)
  /\ run.st \in {"queued", "scoped", "resolved", "done"}
  /\ run.kind # "none" => run.st = "done"
ReplyShape(reply, rs) ==
  /\ DOMAIN reply = {"st", "card", "picks"}
  /\ reply.st = "checked" =>
       reply.card \in DOMAIN rs /\ \A e \in DOMAIN reply.picks : reply.picks[e] \in Pick
Shaped ==
  /\ Listed(questions) /\ Listed(accepted) /\ Listed(runs) /\ corpus \subseteq Company
  /\ \A k \in DOMAIN runs : RunShape(runs[k], questions, accepted)
  /\ DOMAIN replies = Replies /\ \A r \in Replies : ReplyShape(replies[r], runs)

\* A step of one run.
LEMMA StartRun ==
  ASSUME Shaped, NEW k \in DOMAIN runs, RunStart(k)
  PROVE  /\ Listed(runs') /\ DOMAIN runs' = DOMAIN runs
         /\ \A j \in DOMAIN runs \ {k} : runs'[j] = runs[j]
         /\ DOMAIN runs'[k] = RunFields
         /\ runs[k].st = "queued" /\ runs'[k].st = "scoped"
         /\ runs'[k].universe = Universe(questions[runs[k].question].scope, corpus)
         /\ \A f \in RunFields \ {"st", "names", "universe"} : runs'[k][f] = runs[k][f]
<1>1. PICK n : runs' = [runs EXCEPT ![k].st = "scoped", ![k].names = n,
                 ![k].universe = Universe(questions[runs[k].question].scope, corpus)]
  BY DEF RunStart
<1> DEFINE v == [runs[k] EXCEPT !.st = "scoped", !.names = n,
                   !.universe = Universe(questions[runs[k].question].scope, corpus)]
<1>2. runs' = [runs EXCEPT ![k] = v]
  BY <1>1
<1>3. runs[k].st = "queued" /\ DOMAIN runs[k] = RunFields
  BY DEF RunStart, Shaped, RunShape
<1>4. Listed(runs') /\ DOMAIN runs' = DOMAIN runs
  BY <1>2, Changed DEF Shaped
<1> QED
  BY <1>2, <1>3, <1>4 DEF RunFields
LEMMA ResolveRun ==
  ASSUME Shaped, NEW k \in DOMAIN runs, RunResolve(k)
  PROVE  /\ Listed(runs') /\ DOMAIN runs' = DOMAIN runs
         /\ \A j \in DOMAIN runs \ {k} : runs'[j] = runs[j]
         /\ DOMAIN runs'[k] = RunFields
         /\ runs[k].st = "scoped" /\ runs'[k].st = "resolved"
         /\ runs'[k].bound = bindings /\ runs'[k].corpora = {corpus}
         /\ \E answers : runs'[k].found =
              [i \in DOMAIN runs[k].names |->
                 ResolveEntity(runs[k].names[i], bindings, corpus, answers[i])]
         /\ \A f \in RunFields \ {"st", "bound", "corpora", "found"} :
              runs'[k][f] = runs[k][f]
<1>1. PICK answers :
        runs' = [runs EXCEPT ![k].st = "resolved", ![k].bound = bindings,
                  ![k].corpora = {corpus},
                  ![k].found = [i \in DOMAIN runs[k].names |->
                     ResolveEntity(runs[k].names[i], bindings, corpus, answers[i])]]
  BY DEF RunResolve
<1> DEFINE found == [i \in DOMAIN runs[k].names |->
                      ResolveEntity(runs[k].names[i], bindings, corpus, answers[i])]
           v == [runs[k] EXCEPT !.st = "resolved", !.bound = bindings,
                   !.corpora = {corpus}, !.found = found]
<1>2. \E a : found = [i \in DOMAIN runs[k].names |->
                       ResolveEntity(runs[k].names[i], bindings, corpus, a[i])]
  OBVIOUS
<1> HIDE DEF found
<1>3. runs' = [runs EXCEPT ![k] = v]
  BY <1>1 DEF found
<1>4. runs[k].st = "scoped" /\ DOMAIN runs[k] = RunFields
  BY DEF RunResolve, Shaped, RunShape
<1>5. Listed(runs') /\ DOMAIN runs' = DOMAIN runs
  BY <1>3, Changed DEF Shaped
<1>6. runs'[k] = v /\ \A j \in DOMAIN runs \ {k} : runs'[j] = runs[j]
  BY <1>3
<1>7. v.found = found /\ v.bound = bindings /\ v.corpora = {corpus}
      /\ v.st = "resolved" /\ DOMAIN v = RunFields
      /\ \A f \in RunFields \ {"st", "bound", "corpora", "found"} :
              v[f] = runs[k][f]
  BY <1>4 DEF RunFields
<1> HIDE DEF v
<1> QED
  BY <1>2, <1>4, <1>5, <1>6, <1>7

LEMMA FinishRun ==
  ASSUME Shaped, NEW k \in DOMAIN runs, RunFinish(k), NEW scope,
         scope = ResolveScope(runs[k].names, runs[k].found, runs[k].universe, corpus)
  PROVE  /\ Listed(runs') /\ DOMAIN runs' = DOMAIN runs
         /\ \A j \in DOMAIN runs \ {k} : runs'[j] = runs[j]
         /\ DOMAIN runs'[k] = RunFields
         /\ runs[k].st = "resolved" /\ runs'[k].st = "done"
         /\ runs'[k].kind = Exit(scope, runs[k].allow)
         /\ runs'[k].covered = scope.covered /\ runs'[k].asked = scope.asked
         /\ runs'[k].corpora = runs[k].corpora \cup {corpus}
         /\ \A f \in RunFields \ {"st", "found", "kind", "covered", "asked", "corpora"} :
              runs'[k][f] = runs[k][f]
<1> DEFINE v == [runs[k] EXCEPT !.st = "done", !.found = <<>>,
                    !.kind = Exit(scope, runs[k].allow),
                    !.covered = scope.covered, !.asked = scope.asked,
                    !.corpora = @ \cup {corpus}]
<1>1. runs' = [runs EXCEPT ![k] = v]
  BY DEF RunFinish
<1>2. runs[k].st = "resolved" /\ DOMAIN runs[k] = RunFields
  BY DEF RunFinish, Shaped, RunShape
<1>3. Listed(runs') /\ DOMAIN runs' = DOMAIN runs
  BY <1>1, Changed DEF Shaped
<1>4. runs'[k] = v /\ \A j \in DOMAIN runs \ {k} : runs'[j] = runs[j]
  BY <1>1
<1>5. /\ DOMAIN v = RunFields /\ v.st = "done" /\ v.covered = scope.covered
      /\ v.asked = scope.asked /\ v.corpora = runs[k].corpora \cup {corpus}
      /\ v.kind = Exit(scope, runs[k].allow)
      /\ \A f \in RunFields \ {"st", "found", "kind", "covered", "asked", "corpora"} :
              v[f] = runs[k][f]
  BY <1>2 DEF RunFields
<1> HIDE DEF v
<1> QED
  BY <1>2, <1>3, <1>4, <1>5

\* A step that adds a run.
LEMMA AddRun ==
  ASSUME Shaped, NEW q, NEW allow, NEW place, NEW cause,
         runs' = Append(runs, Queued(q, allow, place, cause))
  PROVE  /\ Listed(runs') /\ DOMAIN runs' = 1 .. Len(runs) + 1
         /\ DOMAIN runs = 1 .. Len(runs) /\ Len(runs) \in Nat
         /\ \A j \in DOMAIN runs : runs'[j] = runs[j]
         /\ runs'[Len(runs) + 1] = Queued(q, allow, place, cause)
BY Appended, ListedLen DEF Shaped

LEMMA CommitReply ==
  ASSUME Shaped, NEW r \in Replies, ReplyCommit(r)
  PROVE  LET c == replies[r].card
             n == Len(runs) + 1
             m == Len(accepted) + 1
         IN  /\ c \in DOMAIN runs /\ DOMAIN runs = 1 .. n - 1 /\ n \in Nat
             /\ \A e \in DOMAIN replies[r].picks : replies[r].picks[e] \in Pick
             /\ Listed(runs') /\ DOMAIN runs' = 1 .. n
             /\ \A j \in DOMAIN runs \ {c} : runs'[j] = runs[j]
             /\ DOMAIN runs'[c] = RunFields
             /\ \A f \in RunFields \ {"answered"} : runs'[c][f] = runs[c][f]
             /\ \E place : runs'[n] = Queued(runs[c].question, TRUE, place, m)
             /\ Listed(accepted') /\ DOMAIN accepted' = 1 .. m
             /\ DOMAIN accepted = 1 .. m - 1 /\ m \in Nat /\ Len(accepted') = m
             /\ \A a \in DOMAIN accepted : accepted'[a] = accepted[a]
             /\ accepted'[m] = replies[r].picks
             /\ bindings' = MergeBindings(bindings, replies[r].picks)
<1> DEFINE c == replies[r].card
           n == Len(runs) + 1
           m == Len(accepted) + 1
           v == [runs[c] EXCEPT !.answered = TRUE]
           marked == [runs EXCEPT ![c] = v]
           next == Queued(runs[c].question, TRUE, seq + 1, m)
<1>1. /\ c \in DOMAIN runs /\ DOMAIN runs[c] = RunFields
      /\ \A e \in DOMAIN replies[r].picks : replies[r].picks[e] \in Pick
  BY DEF ReplyCommit, Shaped, ReplyShape, RunShape
<1>2. DOMAIN runs = 1 .. n - 1 /\ n \in Nat /\ DOMAIN accepted = 1 .. m - 1 /\ m \in Nat
  BY ListedLen DEF Shaped
<1>3. /\ Listed(marked) /\ DOMAIN marked = DOMAIN runs /\ Len(marked) = Len(runs)
  BY <1>1, Changed DEF Shaped
<1>4. marked[c] = v /\ \A j \in DOMAIN runs \ {c} : marked[j] = runs[j]
  BY <1>1
<1>5. DOMAIN v = RunFields /\ \A f \in RunFields \ {"answered"} : v[f] = runs[c][f]
  BY <1>1
<1>6. runs' = Append(marked, next)
  BY DEF ReplyCommit
<1> HIDE DEF marked, next, v
<1>7. /\ Listed(runs') /\ DOMAIN runs' = 1 .. n /\ runs'[n] = next
      /\ \A j \in DOMAIN runs : runs'[j] = marked[j]
  BY <1>2, <1>3, <1>6, Appended
<1>8. /\ accepted' = Append(accepted, replies[r].picks)
      /\ bindings' = MergeBindings(bindings, replies[r].picks)
  BY DEF ReplyCommit
<1>9. /\ Listed(accepted') /\ DOMAIN accepted' = 1 .. m /\ Len(accepted') = m
      /\ \A a \in DOMAIN accepted : accepted'[a] = accepted[a]
      /\ accepted'[m] = replies[r].picks
  BY <1>2, <1>8, Appended DEF Shaped
<1> QED
  BY <1>1, <1>2, <1>4, <1>5, <1>7, <1>8, <1>9 DEF next
-----------------------------------------------------------------------------
(* What is known of the bindings and of one run.  The operators take the      *)
(* questions and the stored replies, so that they speak of any state.         *)

Said(e, acc) == {a \in DOMAIN acc : e \in DOMAIN acc[a]}
Later(e, a, acc) == \E b \in a + 1 .. Len(acc) : e \in DOMAIN acc[b]
Included(c, acc) ==
  \E a \in DOMAIN acc : \E e \in DOMAIN acc[a] : acc[a][e] = Bind(c, "include")

\* The bindings are the newest picks.
Follows(b, acc) ==
  /\ \A e \in DOMAIN b :
       /\ b[e] \in Pick
       /\ \E a \in Said(e, acc) : acc[a][e] = b[e] /\ \A x \in Said(e, acc) : x <= a
  /\ \A a \in DOMAIN acc : \A e \in DOMAIN acc[a] : e \in DOMAIN b

\* What a run read of them were picks, and those of its reply or newer ones.
Traced(run, acc) ==
  \A e \in DOMAIN run.bound :
    run.bound[e] \in Pick /\ \E a \in Said(e, acc) : acc[a][e] = run.bound[e]
Informed(run, acc) ==
  run.cause > 0 =>
    \A e \in DOMAIN acc[run.cause] :
      \/ Later(e, run.cause, acc)
      \/ e \in DOMAIN run.bound /\ run.bound[e] = acc[run.cause][e]

\* How a name is resolved when something was said of it.
Resolved(e, bound, there, res) ==
  LET said == e \in DOMAIN bound
  IN  /\ res.method = "skipped" => said /\ bound[e].skip
      /\ said /\ bound[e].skip =>
           \/ res.method = "skipped"
           \/ res.decision = "resolved" /\ Head(res.picks) \in Exact[e]
              /\ res.outside = "unsaid"
      /\ said /\ ~bound[e].skip /\ bound[e].company \in there =>
           /\ res.decision = "resolved" /\ Head(res.picks) = bound[e].company
           /\ res.outside = bound[e].outside
      /\ res.outside = "include" =>
           /\ said /\ ~bound[e].skip /\ bound[e].outside = "include"
           /\ Head(res.picks) = bound[e].company
Heard(run) ==
  /\ DOMAIN run.found = DOMAIN run.names
  /\ \E there \in run.corpora : \A i \in DOMAIN run.names :
       Resolved(run.names[i], run.bound, there, run.found[i])

Within(run, qs, acc) ==
  LET scope == qs[run.question].scope
  IN  scope # All /\ scope # {} =>
        /\ run.st \in {"scoped", "resolved"} => run.universe \subseteq scope
        /\ run.st = "done" => \A c \in run.covered \ scope : Included(c, acc)

Excused(run, e, acc) ==
  LET p == acc[run.cause][e]
  IN  \/ Later(e, run.cause, acc)
      \/ ~p.skip /\ \E there \in run.corpora : p.company \notin there
      \/ ~p.skip /\ p.outside = "unsaid" /\ p.company \notin run.universe
      \/ p.skip /\ Exact[e] \ run.universe # {}
      \/ p.skip /\ \A n \in ToSet(run.names) : n \in DOMAIN run.bound /\ run.bound[n].skip
Heeds(run, acc) ==
  run.st = "done" /\ run.cause > 0 =>
    \A e \in DOMAIN run.asked \cap DOMAIN acc[run.cause] : Excused(run, e, acc)

Sound(run, qs, acc) ==
  /\ run.st \in {"resolved", "done"} => Traced(run, acc) /\ Informed(run, acc)
  /\ run.st = "resolved" => Heard(run)
  /\ Within(run, qs, acc)
  /\ Heeds(run, acc)

Faithful ==
  /\ Follows(bindings, accepted)
  /\ \A k \in DOMAIN runs : Sound(runs[k], questions, accepted)
-----------------------------------------------------------------------------
LEMMA ShapedInit ==
  ASSUME Init
  PROVE  Shaped
<1>1. <<>> \in Seq({})
  BY EmptySeq
<1>2. Listed(questions) /\ Listed(accepted) /\ Listed(runs)
  BY <1>1 DEF Init, Listed
<1>3. DOMAIN runs = {}
  BY DEF Init
<1> QED
  BY <1>2, <1>3, MatchAssumption DEF Init, Shaped, ReplyShape

LEMMA PicksArePicks ==
  ASSUME NEW asked, NEW p \in PicksFor(asked, corpus), corpus \subseteq Company
  PROVE  p \in Pick
BY DEF PicksFor, Pick

LEMMA ShapedNext ==
  ASSUME Shaped, Next
  PROVE  Shaped'
<1>1. ASSUME NEW c \in Company, CorpusChanges(c) PROVE Shaped'
  BY <1>1 DEF CorpusChanges, Shaped, RunShape, ReplyShape
<1>2. ASSUME NEW names \in Asked, NEW scope \in Scopes, NEW allow \in BOOLEAN,
             Ask(names, scope, allow)
      PROVE  Shaped'
  <2> DEFINE n == Len(runs) + 1
             q == Len(questions) + 1
  <2>1. runs' = Append(runs, Queued(q, allow, seq + 2, 0))
    BY <1>2 DEF Ask
  <2>2. /\ Listed(runs') /\ DOMAIN runs' = 1 .. n /\ DOMAIN runs = 1 .. Len(runs)
        /\ \A j \in DOMAIN runs : runs'[j] = runs[j]
        /\ runs'[n] = Queued(q, allow, seq + 2, 0) /\ Len(runs) \in Nat
    BY <2>1, AddRun
  <2>3. questions' = Append(questions, [names |-> names, scope |-> scope])
    BY <1>2 DEF Ask
  <2>4. /\ Listed(questions') /\ DOMAIN questions' = 1 .. q /\ q \in Nat
        /\ DOMAIN questions = 1 .. q - 1
    BY <2>3, Appended, ListedLen DEF Shaped
  <2>5. UNCHANGED <<accepted, replies, corpus>> /\ Len(accepted) \in Nat
    BY <1>2, ListedLen DEF Ask, Shaped
  <2>6. RunShape(runs'[n], questions', accepted')
    BY <2>2, <2>4, <2>5 DEF RunShape, Queued, RunFields
  <2>7. ASSUME NEW j \in DOMAIN runs PROVE RunShape(runs'[j], questions', accepted')
    BY <2>2, <2>4, <2>5 DEF Shaped, RunShape
  <2>8. \A r \in Replies : ReplyShape(replies'[r], runs')
    BY <2>2, <2>5 DEF Shaped, ReplyShape
  <2> QED
    BY <2>2, <2>4, <2>5, <2>6, <2>7, <2>8 DEF Shaped
<1>3. ASSUME NEW k \in DOMAIN runs, Listed(runs'), DOMAIN runs' = DOMAIN runs,
             \A j \in DOMAIN runs \ {k} : runs'[j] = runs[j],
             RunShape(runs'[k], questions', accepted'),
             UNCHANGED <<questions, accepted, replies, corpus>>
      PROVE  Shaped'
  <2>1. ASSUME NEW j \in DOMAIN runs PROVE RunShape(runs'[j], questions', accepted')
    BY <1>3, <2>1 DEF Shaped, RunShape
  <2> QED
    BY <1>3, <2>1 DEF Shaped, ReplyShape
<1>4. ASSUME NEW k \in DOMAIN runs, RunStart(k) PROVE Shaped'
  <2>1. UNCHANGED <<questions, accepted, replies, corpus>>
    BY <1>4 DEF RunStart
  <2>2. RunShape(runs[k], questions, accepted)
    BY DEF Shaped
  <2>3. RunShape(runs'[k], questions', accepted')
    BY <1>4, <2>1, <2>2, StartRun DEF RunShape, RunFields
  <2> QED
    BY <1>3, <1>4, <2>1, <2>3, StartRun
<1>5. ASSUME NEW k \in DOMAIN runs, RunResolve(k) PROVE Shaped'
  <2>1. UNCHANGED <<questions, accepted, replies, corpus>>
    BY <1>5 DEF RunResolve
  <2>2. RunShape(runs[k], questions, accepted)
    BY DEF Shaped
  <2>3. RunShape(runs'[k], questions', accepted')
    BY <1>5, <2>1, <2>2, ResolveRun DEF RunShape, RunFields
  <2> QED
    BY <1>3, <1>5, <2>1, <2>3, ResolveRun
<1>6. ASSUME NEW k \in DOMAIN runs, RunFinish(k) PROVE Shaped'
  <2>1. UNCHANGED <<questions, accepted, replies, corpus>>
    BY <1>6 DEF RunFinish
  <2>2. RunShape(runs[k], questions, accepted)
    BY DEF Shaped
  <2>3. RunShape(runs'[k], questions', accepted')
    BY <1>6, <2>1, <2>2, FinishRun DEF RunShape, RunFields
  <2> QED
    BY <1>3, <1>6, <2>1, <2>3, FinishRun
<1>7. ASSUME NEW r \in Replies, NEW k \in DOMAIN runs, ReplyCheck(r, k) PROVE Shaped'
  <2>1. PICK names \in SUBSET DOMAIN runs[k].asked \ {{}} :
          \E picks \in [names -> UNION {PicksFor(runs[k].asked[e], corpus) : e \in names}] :
            /\ \A e \in names : picks[e] \in PicksFor(runs[k].asked[e], corpus)
            /\ replies' = [replies EXCEPT ![r] = [st |-> "checked", card |-> k, picks |-> picks]]
    BY <1>7 DEF ReplyCheck
  <2>2. PICK picks : /\ DOMAIN picks = names
                     /\ \A e \in names : picks[e] \in PicksFor(runs[k].asked[e], corpus)
                     /\ replies' = [replies EXCEPT ![r] =
                                      [st |-> "checked", card |-> k, picks |-> picks]]
    BY <2>1
  <2>3. \A e \in names : picks[e] \in Pick
    BY <2>2, PicksArePicks DEF Shaped
  <2>4. UNCHANGED <<questions, accepted, runs, corpus>>
    BY <1>7 DEF ReplyCheck
  <2>5. DOMAIN replies' = Replies /\ \A x \in Replies : ReplyShape(replies'[x], runs')
    BY <2>2, <2>3, <2>4 DEF Shaped, ReplyShape
  <2> QED
    BY <2>4, <2>5 DEF Shaped, RunShape
<1>8. ASSUME NEW r \in Replies, ReplyCommit(r) PROVE Shaped'
  <2> DEFINE c == replies[r].card
             n == Len(runs) + 1
             m == Len(accepted) + 1
  <2>1. /\ UNCHANGED <<questions, corpus>>
        /\ replies' = [replies EXCEPT ![r].st = "stored"]
    BY <1>8 DEF ReplyCommit
  <2>2. PICK place : runs'[n] = Queued(runs[c].question, TRUE, place, m)
    BY <1>8, CommitReply
  <2>3. /\ c \in DOMAIN runs /\ DOMAIN runs = 1 .. n - 1 /\ n \in Nat
        /\ DOMAIN runs' = 1 .. n /\ DOMAIN runs'[c] = RunFields /\ Listed(runs')
        /\ \A f \in RunFields \ {"answered"} : runs'[c][f] = runs[c][f]
        /\ \A j \in DOMAIN runs \ {c} : runs'[j] = runs[j]
        /\ Listed(accepted') /\ Len(accepted') = m /\ m \in Nat
    BY <1>8, CommitReply
  <2>4. ASSUME NEW j \in DOMAIN runs \ {c} PROVE RunShape(runs'[j], questions', accepted')
    BY <2>1, <2>3, <2>4 DEF Shaped, RunShape
  <2>5. RunShape(runs'[c], questions', accepted')
    <3>1. RunShape(runs[c], questions, accepted)
      BY <2>3 DEF Shaped
    <3> QED
      BY <2>1, <2>3, <3>1 DEF RunShape, RunFields
  <2>6. RunShape(runs'[n], questions', accepted')
    <3>1. RunShape(runs[c], questions, accepted)
      BY <2>3 DEF Shaped
    <3> QED
      BY <2>1, <2>2, <2>3, <3>1 DEF RunShape, RunFields, Queued
  <2>7. DOMAIN replies' = Replies /\ \A x \in Replies : ReplyShape(replies'[x], runs')
    BY <2>1, <2>3 DEF Shaped, ReplyShape
  <2> QED
    BY <2>1, <2>3, <2>4, <2>5, <2>6, <2>7 DEF Shaped
<1>9. ASSUME NEW r \in Replies, ReplyCollides(r) PROVE Shaped'
  <2>1. /\ UNCHANGED <<questions, accepted, runs, corpus>>
        /\ replies' = [replies EXCEPT ![r].st = "failed"]
    BY <1>9 DEF ReplyCollides
  <2>2. DOMAIN replies' = Replies /\ \A x \in Replies : ReplyShape(replies'[x], runs')
    BY <2>1 DEF Shaped, ReplyShape
  <2> QED
    BY <2>1, <2>2 DEF Shaped, RunShape
<1> QED
  BY <1>1, <1>2, <1>4, <1>5, <1>6, <1>7, <1>8, <1>9 DEF Next
-----------------------------------------------------------------------------
(* What is said of a name, it is resolved by.                              *)

LEMMA ResolveHeard ==
  ASSUME NEW e, NEW bound, NEW there, NEW answer
  PROVE  Resolved(e, bound, there, ResolveEntity(e, bound, there, answer))
<1> DEFINE own == Candidates(e, there)
           exact == ToSet(own) \cap Exact[e]
           one == Cardinality(exact) = 1
           skipped == e \in DOMAIN bound /\ bound[e].skip /\ ~one
           chosen == e \in DOMAIN bound /\ ~bound[e].skip /\ bound[e].company \in there
           res == ResolveEntity(e, bound, there, answer)
<1>1. CASE skipped
  <2>1. res = Resolution(NoDecision, "skipped", "unsaid")
    BY <1>1 DEF ResolveEntity
  <2> QED
    BY <1>1, <2>1 DEF Resolution, Resolved
<1>2. CASE ~skipped /\ chosen
  <2>1. res = Resolution([decision |-> "resolved", picks |-> <<bound[e].company>>],
                         "binding", bound[e].outside)
    BY <1>2 DEF ResolveEntity
  <2> QED
    BY <1>2, <2>1 DEF Resolution, Resolved
<1>3. CASE ~skipped /\ ~chosen /\ one
  <2> DEFINE c == CHOOSE x \in exact : TRUE
  <2>1. res = Resolution([decision |-> "resolved", picks |-> <<c>>], "fast_path", "unsaid")
    BY <1>3 DEF ResolveEntity
  <2>2. exact # {}
    BY <1>3, FS_EmptySet
  <2>3. c \in Exact[e]
    BY <2>2
  <2> QED
    BY <1>3, <2>1, <2>3 DEF Resolution, Resolved
<1>4. CASE ~skipped /\ ~chosen /\ ~one
  <2>1. \E d, method : res = Resolution(d, method, "unsaid") /\ method # "skipped"
    <3>1. CASE own = <<>>
      BY <1>4, <3>1 DEF ResolveEntity
    <3>2. CASE own # <<>> /\ answer = NoAnswer
      BY <1>4, <3>2 DEF ResolveEntity
    <3>3. CASE own # <<>> /\ answer # NoAnswer
      BY <1>4, <3>3 DEF ResolveEntity
    <3> QED
      BY <3>1, <3>2, <3>3
  <2> QED
    BY <1>4, <2>1 DEF Resolution, Resolved
<1> QED
  BY <1>1, <1>2, <1>3, <1>4
-----------------------------------------------------------------------------
(* Replies and questions are only added to.                                *)

Prefix(s, t) ==
  /\ Len(s) \in Nat /\ Len(t) \in Nat /\ Len(s) <= Len(t)
  /\ DOMAIN s = 1 .. Len(s) /\ DOMAIN t = 1 .. Len(t)
  /\ \A i \in DOMAIN s : t[i] = s[i]

LEMMA MergeFollows ==
  ASSUME NEW b, NEW acc, NEW new, NEW picks, Follows(b, acc), Prefix(acc, new),
         Len(new) = Len(acc) + 1, new[Len(new)] = picks,
         \A e \in DOMAIN picks : picks[e] \in Pick
  PROVE  Follows(MergeBindings(b, picks), new)
<1> DEFINE m == MergeBindings(b, picks)
           n == Len(new)
<1>1. /\ DOMAIN m = DOMAIN b \cup DOMAIN picks
      /\ \A e \in DOMAIN m : m[e] = IF e \in DOMAIN picks THEN picks[e] ELSE b[e]
  BY DEF MergeBindings
<1>2. n \in DOMAIN new /\ \A a \in DOMAIN new : a <= n /\ (a \in DOMAIN acc \/ a = n)
  BY DEF Prefix
<1>3. \A e \in DOMAIN picks : n \in Said(e, new) /\ new[n][e] = picks[e]
  BY <1>2 DEF Said
<1>4. \A e : e \notin DOMAIN picks => Said(e, new) = Said(e, acc)
  BY <1>2 DEF Said, Prefix
<1>5. ASSUME NEW e \in DOMAIN m
      PROVE  /\ m[e] \in Pick
             /\ \E a \in Said(e, new) : new[a][e] = m[e] /\ \A x \in Said(e, new) : x <= a
  <2>1. CASE e \in DOMAIN picks
    BY <1>1, <1>2, <1>3, <2>1 DEF Said
  <2>2. CASE e \notin DOMAIN picks
    <3>1. e \in DOMAIN b /\ m[e] = b[e]
      BY <1>1, <2>2
    <3>2. PICK a \in Said(e, acc) : acc[a][e] = b[e] /\ \A x \in Said(e, acc) : x <= a
      BY <3>1 DEF Follows
    <3>3. new[a][e] = m[e] /\ a \in Said(e, new)
      BY <1>4, <2>2, <3>1, <3>2 DEF Prefix, Said
    <3> QED
      BY <1>4, <2>2, <3>1, <3>2, <3>3 DEF Follows
  <2> QED
    BY <2>1, <2>2
<1>6. ASSUME NEW a \in DOMAIN new, NEW e \in DOMAIN new[a] PROVE e \in DOMAIN m
  <2>1. CASE a = n
    BY <1>1, <2>1
  <2>2. CASE a \in DOMAIN acc
    BY <1>1, <2>2 DEF Prefix, Follows
  <2> QED
    BY <1>2, <2>1, <2>2
<1> HIDE DEF m
<1>7. Follows(m, new)
  BY <1>5, <1>6 DEF Follows
<1> QED
  BY <1>7 DEF m

\* What was sound of a run stays so.
LEMMA SoundStays ==
  ASSUME NEW run, NEW next, NEW qs, NEW more, NEW acc, NEW new,
         RunShape(run, qs, acc), Sound(run, qs, acc), Prefix(acc, new),
         more[run.question] = qs[run.question],
         \A f \in RunFields \ {"answered"} : next[f] = run[f]
  PROVE  Sound(next, more, new)
<1>1. /\ next.st = run.st /\ next.cause = run.cause /\ next.bound = run.bound
      /\ next.found = run.found /\ next.names = run.names /\ next.question = run.question
      /\ next.universe = run.universe /\ next.corpora = run.corpora
      /\ next.covered = run.covered /\ next.asked = run.asked
  BY DEF RunFields
<1>2. \A a \in DOMAIN acc : a \in DOMAIN new /\ new[a] = acc[a]
  BY DEF Prefix
<1>3. run.cause \in Nat /\ (run.cause > 0 => run.cause \in DOMAIN acc)
  BY DEF RunShape, Prefix
<1>4. \A e : Later(e, run.cause, acc) => Later(e, run.cause, new)
  BY <1>3 DEF Later, Prefix
<1>5. \A c : Included(c, acc) => Included(c, new)
  BY <1>2 DEF Included
<1>6. Traced(run, acc) => Traced(next, new)
  BY <1>1, <1>2 DEF Traced, Said
<1>7. Informed(run, acc) => Informed(next, new)
  BY <1>1, <1>2, <1>3, <1>4 DEF Informed
<1>8. Heard(run) => Heard(next)
  BY <1>1 DEF Heard
<1>9. Within(next, more, new)
  BY <1>1, <1>5 DEF Within, Sound
<1>10. Heeds(next, new)
  BY <1>1, <1>2, <1>3, <1>4 DEF Heeds, Excused, Sound
<1> QED
  BY <1>1, <1>6, <1>7, <1>8, <1>9, <1>10 DEF Sound

LEMMA SoundQueued ==
  ASSUME NEW q, NEW allow, NEW place, NEW cause, NEW qs, NEW acc
  PROVE  Sound(Queued(q, allow, place, cause), qs, acc)
BY DEF Queued, Sound, Within, Heeds

LEMMA SoundStart ==
  ASSUME Shaped, NEW k \in DOMAIN runs, RunStart(k)
  PROVE  Sound(runs'[k], questions, accepted)
<1> DEFINE run == runs'[k]
<1>1. run.st = "scoped" /\ run.question = runs[k].question
      /\ run.universe = Universe(questions[runs[k].question].scope, corpus)
  BY StartRun DEF RunFields
<1>2. Within(run, questions, accepted)
  BY <1>1 DEF Within, Universe
<1> HIDE DEF run
<1>3. Sound(run, questions, accepted)
  BY <1>1, <1>2 DEF Sound, Heeds
<1> QED
  BY <1>3 DEF run

LEMMA SoundResolve ==
  ASSUME Shaped, NEW k \in DOMAIN runs, RunResolve(k), Sound(runs[k], questions, accepted),
         Follows(bindings, accepted)
  PROVE  Sound(runs'[k], questions, accepted)
<1> DEFINE run == runs'[k]
<1>1. /\ run.st = "resolved" /\ runs[k].st = "scoped" /\ run.question = runs[k].question
      /\ run.universe = runs[k].universe /\ run.bound = bindings /\ run.corpora = {corpus}
      /\ run.cause = runs[k].cause /\ run.names = runs[k].names
  BY ResolveRun DEF RunFields
<1>2. PICK answers : run.found =
        [i \in DOMAIN runs[k].names |->
           ResolveEntity(runs[k].names[i], bindings, corpus, answers[i])]
  BY ResolveRun
<1>3. RunShape(runs[k], questions, accepted) /\ Len(accepted) \in Nat
      /\ DOMAIN accepted = 1 .. Len(accepted)
  BY ListedLen DEF Shaped
<1> HIDE DEF run
<1>4. Heard(run)
  BY <1>1, <1>2, ResolveHeard DEF Heard
<1>5. Traced(run, accepted)
  BY <1>1 DEF Traced, Follows
<1>6. Informed(run, accepted)
  <2> SUFFICES ASSUME run.cause > 0, NEW e \in DOMAIN accepted[run.cause],
                      ~Later(e, run.cause, accepted)
               PROVE  e \in DOMAIN bindings /\ bindings[e] = accepted[run.cause][e]
    BY <1>1 DEF Informed
  <2>1. run.cause \in Said(e, accepted)
    BY <1>1, <1>3 DEF Said, RunShape
  <2>2. e \in DOMAIN bindings
    BY <2>1 DEF Follows, Said
  <2>3. PICK a \in Said(e, accepted) :
          accepted[a][e] = bindings[e] /\ \A x \in Said(e, accepted) : x <= a
    BY <2>2 DEF Follows
  <2>4. a = run.cause
    BY <1>1, <1>3, <2>1, <2>3 DEF Said, Later, RunShape
  <2> QED
    BY <2>2, <2>3, <2>4
<1>7. Within(run, questions, accepted)
  BY <1>1 DEF Within, Sound
<1>8. Sound(run, questions, accepted)
  BY <1>1, <1>4, <1>5, <1>6, <1>7 DEF Sound, Heeds
<1> QED
  BY <1>8 DEF run

\* The outcome of a run: it searches the scope and what a reply included, and asks
\* of no name the reply settled.
LEMMA FinishScope ==
  ASSUME NEW run, NEW there, NEW acc, NEW c,
         Heard(run), Traced(run, acc),
         c \in ResolveScope(run.names, run.found, run.universe, there).covered
  PROVE  c \in run.universe \/ Included(c, acc)
<1> DEFINE In(i) == Inside(run.found[i], run.universe, there)
           counted == {i \in DOMAIN run.names :
                         run.found[i].method # "skipped"
                           \/ \A j \in DOMAIN run.names : run.found[j].method = "skipped"}
<1>1. c \in IF run.names = <<>> THEN run.universe ELSE UNION {In(i) : i \in counted}
  BY DEF ResolveScope
<1>2. CASE run.names = <<>>
  BY <1>1, <1>2
<1>3. CASE run.names # <<>>
  <2>1. PICK i \in DOMAIN run.names : c \in In(i)
    BY <1>1, <1>3
  <2>2. c = Head(run.found[i].picks)
    BY <2>1 DEF Inside
  <2>3. CASE run.found[i].outside # "include"
    BY <2>1, <2>3 DEF Inside
  <2>4. CASE run.found[i].outside = "include"
    <3> DEFINE e == run.names[i]
    <3>1. /\ e \in DOMAIN run.bound /\ ~run.bound[e].skip
          /\ run.bound[e].outside = "include" /\ c = run.bound[e].company
      BY <2>1, <2>2, <2>4 DEF Heard, Resolved
    <3>2. run.bound[e] \in Pick
      BY <3>1 DEF Traced
    <3>3. run.bound[e] = Bind(c, "include")
      <4>1. PICK o \in {"unsaid", "include", "exclude"}, d \in Company :
              run.bound[e] = Bind(d, o)
        BY <3>1, <3>2 DEF Pick, Skip
      <4> QED
        BY <3>1, <4>1 DEF Bind
    <3>4. PICK a \in Said(e, acc) : acc[a][e] = Bind(c, "include")
      BY <3>1, <3>3 DEF Traced
    <3> QED
      BY <3>4 DEF Included, Said
  <2> QED
    BY <2>3, <2>4
<1> QED
  BY <1>2, <1>3

LEMMA FinishHeeds ==
  ASSUME NEW run, NEW next, NEW there, NEW acc, NEW scope,
         scope = ResolveScope(run.names, run.found, run.universe, there),
         Heard(run), Traced(run, acc), Informed(run, acc), run.cause > 0,
         next.cause = run.cause, next.names = run.names, next.bound = run.bound,
         next.universe = run.universe, next.corpora = run.corpora \cup {there},
         NEW e \in DOMAIN scope.asked \cap DOMAIN acc[run.cause],
         ~Later(e, run.cause, acc)
  PROVE  Excused(next, e, acc)
<1> DEFINE In(i) == Inside(run.found[i], run.universe, there)
           allSkipped == \A j \in DOMAIN run.names : run.found[j].method = "skipped"
           p == acc[run.cause][e]
<1>1. PICK i \in DOMAIN run.names :
        /\ run.names[i] = e /\ Asks(e, run.found[i], In(i))
        /\ run.found[i].method # "skipped" \/ allSkipped
  BY DEF ResolveScope
<1>2. e \in DOMAIN run.bound /\ run.bound[e] = p /\ p \in Pick
  BY DEF Informed, Traced
<1>3. PICK old \in run.corpora :
        \A j \in DOMAIN run.names :
          Resolved(run.names[j], run.bound, old, run.found[j])
  BY DEF Heard
<1>4. Resolved(e, run.bound, old, run.found[i])
  BY <1>1, <1>3
<1>5. CASE p.skip /\ run.found[i].method = "skipped"
  <2>1. allSkipped
    BY <1>1, <1>5
  <2>2. \A n \in ToSet(run.names) : n \in DOMAIN run.bound /\ run.bound[n].skip
    BY <1>3, <2>1 DEF ToSet, Resolved
  <2> QED
    BY <1>5, <2>2 DEF Excused
<1>6. CASE p.skip /\ run.found[i].method # "skipped"
  <2>1. /\ run.found[i].decision = "resolved" /\ run.found[i].outside = "unsaid"
        /\ Head(run.found[i].picks) \in Exact[e]
    BY <1>2, <1>4, <1>6 DEF Resolved
  <2>2. In(i) = {Head(run.found[i].picks)} \cap run.universe
    BY <2>1 DEF Inside
  <2>3. In(i) = {}
    BY <1>1, <2>1 DEF Asks
  <2> QED
    BY <1>6, <2>1, <2>2, <2>3 DEF Excused
<1>7. CASE ~p.skip /\ p.company \notin old
  BY <1>7 DEF Excused
<1>8. CASE ~p.skip /\ p.company \in old
  <2>1. /\ run.found[i].decision = "resolved" /\ run.found[i].outside = p.outside
        /\ Head(run.found[i].picks) = p.company
    BY <1>2, <1>4, <1>8 DEF Resolved
  <2>2. In(i) = {p.company} \cap
                  (run.universe \cup (IF p.outside = "include" THEN there ELSE {}))
    BY <2>1 DEF Inside
  <2>3. In(i) = {} /\ p.outside # "exclude"
    BY <1>1, <2>1 DEF Asks
  <2>4. p.outside \in {"unsaid", "include"}
    <3>1. PICK o \in {"unsaid", "include", "exclude"}, c \in Company : p = Bind(c, o)
      BY <1>2, <1>8 DEF Pick, Skip
    <3> QED
      BY <2>3, <3>1 DEF Bind
  <2>5. CASE p.outside = "unsaid"
    BY <1>8, <2>2, <2>3, <2>5 DEF Excused
  <2>6. CASE p.outside = "include"
    <3>1. p.company \notin there /\ there \in next.corpora
      BY <2>2, <2>3, <2>6
    <3> QED
      BY <1>8, <3>1 DEF Excused
  <2> QED
    BY <2>4, <2>5, <2>6
<1> QED
  BY <1>5, <1>6, <1>7, <1>8

LEMMA SoundFinish ==
  ASSUME Shaped, NEW k \in DOMAIN runs, RunFinish(k), Sound(runs[k], questions, accepted)
  PROVE  Sound(runs'[k], questions, accepted)
<1> DEFINE run == runs[k]
           next == runs'[k]
           scope == ResolveScope(run.names, run.found, run.universe, corpus)
<1>1. /\ run.st = "resolved" /\ next.st = "done"
      /\ next.covered = scope.covered /\ next.asked = scope.asked
      /\ next.corpora = run.corpora \cup {corpus}
      /\ next.bound = run.bound /\ next.cause = run.cause /\ next.names = run.names
      /\ next.universe = run.universe /\ next.question = run.question
  BY FinishRun DEF RunFields
<1>2. Heard(run) /\ Traced(run, accepted) /\ Informed(run, accepted)
      /\ Within(run, questions, accepted)
  BY <1>1 DEF Sound
<1> HIDE DEF run, next
<1>3. Traced(next, accepted) /\ Informed(next, accepted)
  BY <1>1, <1>2 DEF Traced, Informed
<1>4. \A c \in scope.covered : c \in run.universe \/ Included(c, accepted)
  BY <1>2, FinishScope
<1>5. Within(next, questions, accepted)
  BY <1>1, <1>2, <1>4 DEF Within
<1>6. Heeds(next, accepted)
  <2> SUFFICES ASSUME next.cause > 0,
                      NEW e \in DOMAIN scope.asked \cap DOMAIN accepted[next.cause]
               PROVE  Excused(next, e, accepted)
    BY <1>1 DEF Heeds
  <2>1. CASE Later(e, next.cause, accepted)
    BY <2>1 DEF Excused
  <2>2. CASE ~Later(e, next.cause, accepted)
    BY <1>1, <1>2, <2>2, FinishHeeds
  <2> QED
    BY <2>1, <2>2
<1>7. Sound(next, questions, accepted)
  BY <1>1, <1>3, <1>5, <1>6 DEF Sound
<1> QED
  BY <1>7 DEF next
-----------------------------------------------------------------------------
LEMMA FaithfulInit ==
  ASSUME Init
  PROVE  Faithful
BY DEF Init, Faithful, Follows

LEMMA FaithfulNext ==
  ASSUME Shaped, Faithful, Next
  PROVE  Faithful'
<1>1. /\ Len(accepted) \in Nat /\ DOMAIN accepted = 1 .. Len(accepted)
      /\ Prefix(accepted, accepted)
      /\ \A k \in DOMAIN runs : RunShape(runs[k], questions, accepted)
  BY ListedLen DEF Shaped, Prefix
<1>2. ASSUME UNCHANGED <<questions, runs, bindings, accepted>> PROVE Faithful'
  BY <1>2 DEF Faithful
<1>3. ASSUME NEW k \in DOMAIN runs, DOMAIN runs' = DOMAIN runs,
             \A j \in DOMAIN runs \ {k} : runs'[j] = runs[j],
             Sound(runs'[k], questions, accepted),
             UNCHANGED <<questions, bindings, accepted>>
      PROVE  Faithful'
  BY <1>3 DEF Faithful
<1>4. ASSUME NEW names \in Asked, NEW scope \in Scopes, NEW allow \in BOOLEAN,
             Ask(names, scope, allow)
      PROVE  Faithful'
  <2> DEFINE n == Len(runs) + 1
             q == Len(questions) + 1
  <2>1. runs' = Append(runs, Queued(q, allow, seq + 2, 0))
    BY <1>4 DEF Ask
  <2>2. /\ DOMAIN runs' = 1 .. n /\ DOMAIN runs = 1 .. Len(runs) /\ Len(runs) \in Nat
        /\ \A j \in DOMAIN runs : runs'[j] = runs[j]
        /\ runs'[n] = Queued(q, allow, seq + 2, 0)
    BY <2>1, AddRun
  <2>3. questions' = Append(questions, [names |-> names, scope |-> scope])
        /\ UNCHANGED <<bindings, accepted>>
    BY <1>4 DEF Ask
  <2>4. \A i \in DOMAIN questions : questions'[i] = questions[i]
    BY <2>3, Appended, ListedLen DEF Shaped
  <2>5. ASSUME NEW j \in DOMAIN runs PROVE Sound(runs'[j], questions', accepted)
    <3>1. questions'[runs[j].question] = questions[runs[j].question]
      BY <1>1, <2>4 DEF RunShape
    <3> QED
      BY <1>1, <2>2, <3>1, SoundStays DEF Faithful
  <2>6. Sound(runs'[n], questions', accepted)
    BY <2>2, SoundQueued
  <2> QED
    BY <2>2, <2>3, <2>5, <2>6 DEF Faithful
<1>5. ASSUME NEW k \in DOMAIN runs, RunStart(k) PROVE Faithful'
  <2>1. UNCHANGED <<questions, bindings, accepted>>
    BY <1>5 DEF RunStart
  <2> QED
    BY <1>3, <1>5, <2>1, StartRun, SoundStart
<1>6. ASSUME NEW k \in DOMAIN runs, RunResolve(k) PROVE Faithful'
  <2>1. UNCHANGED <<questions, bindings, accepted>>
    BY <1>6 DEF RunResolve
  <2>2. Sound(runs'[k], questions, accepted)
    BY <1>6, SoundResolve DEF Faithful
  <2> QED
    BY <1>3, <1>6, <2>1, <2>2, ResolveRun
<1>7. ASSUME NEW k \in DOMAIN runs, RunFinish(k) PROVE Faithful'
  <2>1. UNCHANGED <<questions, bindings, accepted>>
    BY <1>7 DEF RunFinish
  <2>2. Sound(runs'[k], questions, accepted)
    BY <1>7, SoundFinish DEF Faithful
  <2>3. DOMAIN runs' = DOMAIN runs /\ \A j \in DOMAIN runs \ {k} : runs'[j] = runs[j]
    BY <1>7, FinishRun
  <2> QED
    BY <1>3, <2>1, <2>2, <2>3
<1>8. ASSUME NEW r \in Replies, ReplyCommit(r) PROVE Faithful'
  <2> DEFINE c == replies[r].card
             n == Len(runs) + 1
             m == Len(accepted) + 1
             picks == replies[r].picks
  <2>1. UNCHANGED questions
    BY <1>8 DEF ReplyCommit
  <2>2. PICK place : runs'[n] = Queued(runs[c].question, TRUE, place, m)
    BY <1>8, CommitReply
  <2>3. /\ c \in DOMAIN runs /\ DOMAIN runs = 1 .. n - 1 /\ n \in Nat
        /\ DOMAIN runs' = 1 .. n
        /\ \A f \in RunFields \ {"answered"} : runs'[c][f] = runs[c][f]
        /\ \A j \in DOMAIN runs \ {c} : runs'[j] = runs[j]
    BY <1>8, CommitReply
  <2>4. /\ Len(accepted') = m /\ DOMAIN accepted' = 1 .. m /\ accepted'[m] = picks
        /\ \A a \in DOMAIN accepted : accepted'[a] = accepted[a]
        /\ bindings' = MergeBindings(bindings, picks)
        /\ \A e \in DOMAIN picks : picks[e] \in Pick
    BY <1>8, CommitReply
  <2>5. Prefix(accepted, accepted')
    BY <1>1, <2>4 DEF Prefix
  <2>6. Follows(bindings', accepted')
    BY <2>4, <2>5, MergeFollows DEF Faithful
  <2>7. ASSUME NEW j \in DOMAIN runs PROVE Sound(runs'[j], questions', accepted')
    <3>1. \A f \in RunFields \ {"answered"} : runs'[j][f] = runs[j][f]
      BY <2>3
    <3>2. Sound(runs[j], questions, accepted) /\ RunShape(runs[j], questions, accepted)
      BY <1>1 DEF Faithful
    <3> QED
      BY <2>1, <2>5, <3>1, <3>2, SoundStays
  <2>8. Sound(runs'[n], questions', accepted')
    BY <2>2, SoundQueued
  <2> QED
    BY <2>3, <2>6, <2>7, <2>8 DEF Faithful
<1> QED
  BY <1>2, <1>4, <1>5, <1>6, <1>7, <1>8
  DEF Next, CorpusChanges, ReplyCheck, ReplyCollides
-----------------------------------------------------------------------------
LEMMA Inductive == Spec => [](Shaped /\ Faithful)
<1>1. Init => Shaped /\ Faithful
  BY ShapedInit, FaithfulInit
<1>2. Shaped /\ Faithful /\ [Next]_vars => (Shaped /\ Faithful)'
  <2>1. CASE Next
    BY <2>1, ShapedNext, FaithfulNext
  <2>2. CASE UNCHANGED vars
    BY <2>2 DEF vars, Shaped, Faithful
  <2> QED
    BY <2>1, <2>2
<1> QED
  BY <1>1, <1>2, PTL DEF Spec

\* Every pick of every stored reply is in force until a later reply picks for the
\* same name, however many replies interleave (merge_entity_bindings).
THEOREM Picks == Spec => []PicksKept
<1>1. Shaped /\ Faithful => PicksKept
  <2> SUFFICES ASSUME Shaped, Faithful, NEW e \in Entity
               PROVE  LET said == {a \in DOMAIN accepted : e \in DOMAIN accepted[a]}
                          newest == CHOOSE a \in said : \A b \in said : b <= a
                      IN  IF said = {} THEN e \notin DOMAIN bindings
                          ELSE /\ e \in DOMAIN bindings
                               /\ bindings[e] = accepted[newest][e]
    BY DEF PicksKept
  <2> DEFINE said == Said(e, accepted)
             newest == CHOOSE a \in said : \A b \in said : b <= a
  <2>1. CASE said = {}
    BY <2>1 DEF Faithful, Follows, Said
  <2>2. CASE said # {}
    <3>1. e \in DOMAIN bindings
      BY <2>2 DEF Faithful, Follows, Said
    <3>2. PICK a \in said : accepted[a][e] = bindings[e] /\ \A x \in said : x <= a
      BY <3>1 DEF Faithful, Follows
    <3>3. newest \in said /\ \A b \in said : b <= newest
      BY <3>2
    <3>4. newest = a
      <4>1. newest \in Nat /\ a \in Nat
        BY <3>2, <3>3, ListedLen DEF Said, Shaped
      <4>2. newest <= a /\ a <= newest
        BY <3>2, <3>3
      <4> HIDE DEF newest
      <4> QED
        BY <4>1, <4>2
    <3> QED
      BY <2>2, <3>1, <3>2, <3>4 DEF Said
  <2> QED
    BY <2>1, <2>2 DEF Said
<1> QED
  BY <1>1, Inductive, PTL

\* A name the reply settled is not asked about by the run the reply started, but in
\* the cases ReplyIsHeeded lists, in conversations of any length.
THEOREM Heeded == Spec => []ReplyIsHeeded
<1>1. Shaped /\ Faithful => ReplyIsHeeded
  <2> SUFFICES ASSUME Shaped, Faithful, NEW k \in DOMAIN runs, runs[k].kind = "card",
                      runs[k].cause > 0,
                      NEW e \in DOMAIN runs[k].asked \cap DOMAIN accepted[runs[k].cause]
               PROVE  Excused(runs[k], e, accepted)
    BY DEF ReplyIsHeeded, Excused, Later
  <2>1. runs[k].st = "done"
    BY DEF Shaped, RunShape
  <2> QED
    BY <2>1 DEF Faithful, Sound, Heeds
<1> QED
  BY <1>1, Inductive, PTL

\* What a run searches lies in the scope its question was asked with, but for the
\* companies a reply included, whatever the router and the model answer.
THEOREM Respected == Spec => []ScopeRespected
<1>1. Shaped /\ Faithful => ScopeRespected
  <2> SUFFICES ASSUME Shaped, Faithful, NEW k \in DOMAIN runs, runs[k].kind = "search",
                      questions[runs[k].question].scope # All,
                      questions[runs[k].question].scope # {},
                      NEW c \in runs[k].covered \ questions[runs[k].question].scope
               PROVE  Included(c, accepted)
    BY DEF ScopeRespected, Included
  <2>1. runs[k].st = "done"
    BY DEF Shaped, RunShape
  <2> QED
    BY <2>1 DEF Faithful, Sound, Within
<1> QED
  BY <1>1, Inductive, PTL
=============================================================================
