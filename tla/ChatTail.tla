------------------------------- MODULE ChatTail -------------------------------
(***************************************************************************)
(* The history of one conversation: the messages table, the tail cached in *)
(* Redis, and the runs that read and extend both.  A run is one POST and   *)
(* its execution, a new question or the reply to a clarification card.     *)
(*                                                                         *)
(* messages[i] is what the message with seq i is: seq is max + 1 under a   *)
(* unique constraint, so a transaction adds its messages in one piece or   *)
(* fails.                                                                  *)
(***************************************************************************)
EXTENDS Naturals, Sequences, FiniteSets

CONSTANTS
  Run,      \* POSTs and their executions
  NoTail,   \* the key is not in Redis
  MaxTail,  \* CHAT_TAIL_MAX_MESSAGES
  Budget    \* how many events of each kind may happen

Kind == {"redis", "api", "crash", "stage"}

ASSUME TailAssumption == MaxTail \in Nat \ {0}
ASSUME BudgetAssumption == Budget \in [Kind -> Nat]

VARIABLES
  messages, lastSeq,         \* the table, and conversations.last_seq
  tail,                      \* the cached tail
  pc, snap, slot, context,   \* runs: snapshot_seq, placeholder, history
  spent, mishaps, crossed    \* history

run == <<snap, slot>>
history == <<spent, mishaps, crossed>>
vars == <<messages, lastSeq, tail, pc, run, context, history>>

Message == {"question", "pending", "answer", "error", "card", "replied"}
Card == {"card", "replied"}

\* What a history holds of a message: a placeholder without an answer has no
\* content.
Entry == [seq : Nat, kind : {"question", "answer", "blank"}]
Shown(i) == [seq |-> i,
             kind |-> IF messages[i] \in {"pending", "error"} THEN "blank"
                                                              ELSE messages[i]]
Cached == [msgs : Seq(Entry), seq : Nat]

Spend(kind) == /\ spent[kind] < Budget[kind]
               /\ spent' = [spent EXCEPT ![kind] = @ + 1]
GoTo(r, stage) == pc' = [pc EXCEPT ![r] = stage]
Larger(m, n) == IF m > n THEN m ELSE n

Init ==
  /\ messages = <<>> /\ lastSeq = 0 /\ tail = NoTail
  /\ pc = [r \in Run |-> "new"]
  /\ snap = [r \in Run |-> 0] /\ slot = [r \in Run |-> 0]
  /\ context = [r \in Run |-> <<>>]
  /\ spent = [k \in Kind |-> 0] /\ mishaps = {} /\ crossed = {}
\* What ends without its message in a live tail leaves a hole: the next append
\* goes past it.
NoteHole(seq) ==
  mishaps' = IF tail' # NoTail /\ tail'.seq < seq THEN mishaps \cup {"lost"}
                                                 ELSE mishaps
-----------------------------------------------------------------------------
(* The scripts on the key.                                                 *)

\* Mutant: an append does not look at the seq.
AppendedAnyhow(t, e) ==
  IF t # NoTail
  THEN LET all == Append(t.msgs, e)
       IN  [msgs |-> SubSeq(all, Larger(1, Len(all) - MaxTail + 1), Len(all)),
            seq |-> Larger(e.seq, t.seq)]
  ELSE t

\* Nothing to append to, or a seq the tail is past already: skipped.
Appended(t, e) ==
  IF t # NoTail /\ e.seq > t.seq
  THEN LET all == Append(t.msgs, e)
       IN  [msgs |-> SubSeq(all, Larger(1, Len(all) - MaxTail + 1), Len(all)),
            seq |-> e.seq]
  ELSE t

\* Mutant: the reader's copy always wins.
PopulatedBlindly(t, msgs, seq) == [msgs |-> msgs, seq |-> seq]

\* Compare and set: a tail that is as new stays.
Populated(t, msgs, seq) ==
  IF t # NoTail /\ t.seq >= seq THEN t ELSE [msgs |-> msgs, seq |-> seq]

\* The messages at these places, in their order.
InOrder(places) ==
  [n \in 1 .. Cardinality(places) |->
     Shown(CHOOSE i \in places : Cardinality({j \in places : j <= i}) = n)]
Kept(lo, hi) == {i \in lo .. hi : messages[i] \notin Card}

\* Mutant: the first messages of the conversation, not the last.
RecentFirst(hi) == InOrder(Kept(1, IF hi < MaxTail THEN hi ELSE MaxTail))

\* The last MaxTail messages up to hi, without the cards among them.
Recent(hi) == InOrder(Kept(IF hi > MaxTail THEN hi - MaxTail + 1 ELSE 1, hi))
-----------------------------------------------------------------------------
(* POST /v1/chat.                                                          *)

NoteOverlap ==
  mishaps' = IF \A s \in Run : pc[s] \in {"new", "done"} THEN mishaps
                                                     ELSE mishaps \cup {"overlap"}

\* A question and its placeholder, committed.
Ask(r) ==
  /\ pc[r] = "new" /\ GoTo(r, "append") /\ NoteOverlap
  /\ messages' = messages \o <<"question", "pending">>
  /\ snap' = [snap EXCEPT ![r] = Len(messages) + 1]
  /\ slot' = [slot EXCEPT ![r] = Len(messages) + 2]
  /\ lastSeq' = Len(messages) + 1
  /\ UNCHANGED <<tail, context, spent, crossed>>

\* A reply to an open card, when the conversation has not moved past it.
ReplyCheck(r) ==
  /\ pc[r] = "new" /\ GoTo(r, "reply") /\ NoteOverlap
  /\ \E i \in DOMAIN messages :
       /\ messages[i] = "card" /\ lastSeq <= i
       /\ snap' = [snap EXCEPT ![r] = i]
  /\ UNCHANGED <<messages, lastSeq, tail, slot, context, spent, crossed>>

\* The commit of that transaction: a new placeholder for the question the
\* card was about.  Nothing is checked again.
ReplyCommit(r) ==
  /\ pc[r] = "reply" /\ GoTo(r, "enqueue")
  /\ messages' = Append([messages EXCEPT ![snap[r]] = "replied"], "pending")
  /\ slot' = [slot EXCEPT ![r] = Len(messages) + 1]
  /\ \E s \in Run : /\ s # r /\ slot[s] = snap[r]
                    /\ snap' = [snap EXCEPT ![r] = snap[s]]
  /\ UNCHANGED <<lastSeq, tail, context, history>>

\* append_user, whose failure is swallowed.
AppendUser(r) ==
  /\ pc[r] = "append" /\ GoTo(r, "enqueue")
  /\ LET longer == Appended(tail, Shown(snap[r]))
     IN  \/ tail' = longer /\ UNCHANGED spent
         \/ tail' \in {tail, longer} /\ Spend("redis")
  /\ UNCHANGED <<messages, lastSeq, run, context, mishaps, crossed>>

\* delay(), or the API process died before it: the question stays unanswered.
Enqueue(r) ==
  /\ UNCHANGED <<messages, lastSeq, tail, run, context, crossed>>
  /\ \/ pc[r] = "enqueue" /\ GoTo(r, "queued") /\ UNCHANGED <<spent, mishaps>>
     \/ /\ pc[r] \in {"append", "enqueue"} /\ GoTo(r, "done") /\ Spend("api")
        /\ NoteHole(snap[r])
-----------------------------------------------------------------------------
(* ConversationHistory.load.                                               *)

Questions == {i \in DOMAIN messages : messages[i] = "question"}
Answers == {i \in DOMAIN messages : messages[i] = "answer"}
\* Another run was posted since or slipped in before a reply's commit, or has
\* answered what the run was posted for.
NoteCrossed(r) ==
  crossed' = IF \/ Len(messages) > slot[r]
                \/ \E i \in Questions \cup Answers : i > snap[r]
             THEN crossed \cup {r} ELSE crossed

\* Mutant: whatever is cached is used.
LoadAnyTail(r) ==
  /\ pc[r] = "queued" /\ NoteCrossed(r)
  /\ IF tail # NoTail
     THEN GoTo(r, "run") /\ context' = [context EXCEPT ![r] = tail.msgs]
     ELSE GoTo(r, "fetch") /\ UNCHANGED context
  /\ UNCHANGED <<messages, lastSeq, tail, run, spent, mishaps>>

\* The tail is used when it is at or past the run's snapshot.
Load(r) ==
  /\ pc[r] = "queued" /\ NoteCrossed(r)
  /\ IF tail # NoTail /\ tail.seq >= snap[r]
     THEN GoTo(r, "run") /\ context' = [context EXCEPT ![r] = tail.msgs]
     ELSE GoTo(r, "fetch") /\ UNCHANGED context
  /\ UNCHANGED <<messages, lastSeq, tail, run, spent, mishaps>>

\* The messages before the placeholder.
Fetch(r) ==
  /\ pc[r] = "fetch" /\ GoTo(r, "populate")
  /\ context' = [context EXCEPT ![r] = Recent(slot[r] - 1)]
  /\ UNCHANGED <<messages, lastSeq, tail, run, history>>

Populate(r) ==
  /\ pc[r] = "populate"
  /\ LET filled == Populated(tail, context[r], slot[r] - 1)
     IN  \/ tail' = filled /\ GoTo(r, "run") /\ UNCHANGED <<spent, mishaps>>
         \/ /\ tail' \in {tail, filled} /\ GoTo(r, "done") /\ Spend("redis")
            /\ NoteHole(snap[r])
  /\ UNCHANGED <<messages, lastSeq, run, context, crossed>>
-----------------------------------------------------------------------------
(* How a run ends.                                                         *)

\* An answer, a refusal or a card, committed; last_seq only grows.
Finish(r) ==
  /\ pc[r] = "run"
  /\ \/ messages' = [messages EXCEPT ![slot[r]] = "answer"] /\ GoTo(r, "record")
     \/ messages' = [messages EXCEPT ![slot[r]] = "card"] /\ GoTo(r, "done")
  /\ lastSeq' = Larger(lastSeq, slot[r])
  /\ UNCHANGED <<tail, run, context, history>>

\* A stage raises: the message says error, or was not touched.
Fail(r) ==
  /\ pc[r] \in {"queued", "fetch", "run"} /\ Spend("stage") /\ GoTo(r, "done")
  /\ messages' \in {messages, [messages EXCEPT ![slot[r]] = "error"]}
  /\ UNCHANGED <<lastSeq, tail, run, context, crossed>>
  /\ NoteHole(snap[r])

\* append_assistant, after the commit; its failure is logged.
AppendAssistant(r) ==
  /\ pc[r] = "record" /\ GoTo(r, "done")
  /\ LET longer == Appended(tail, Shown(slot[r]))
     IN  \/ tail' = longer /\ UNCHANGED spent
         \/ tail' \in {tail, longer} /\ Spend("redis")
  /\ NoteHole(slot[r])
  /\ UNCHANGED <<messages, lastSeq, run, context, crossed>>

\* The worker dies and the message is delivered again; after the commit the
\* redelivery finds the request completed and returns.
Crash(r) ==
  /\ pc[r] \in {"fetch", "populate", "run", "record"} /\ Spend("crash")
  /\ UNCHANGED <<messages, lastSeq, tail, run, context, crossed>>
  /\ IF pc[r] = "record" THEN GoTo(r, "done") /\ NoteHole(slot[r])
                         ELSE GoTo(r, "queued") /\ UNCHANGED mishaps

\* CHAT_TAIL_TTL without a read or a write, or an eviction.
Expire ==
  /\ tail # NoTail /\ tail' = NoTail
  /\ UNCHANGED <<messages, lastSeq, pc, run, context, history>>
-----------------------------------------------------------------------------
Next ==
  \/ Expire
  \/ \E r \in Run :
       \/ Ask(r) \/ ReplyCheck(r) \/ ReplyCommit(r) \/ AppendUser(r)
       \/ Enqueue(r) \/ Load(r) \/ Fetch(r) \/ Populate(r)
       \/ Finish(r) \/ Fail(r) \/ AppendAssistant(r) \/ Crash(r)

Spec == Init /\ [][Next]_vars
-----------------------------------------------------------------------------
(* Properties.                                                             *)

\* Each variable keeps its range, and the tail its bound.
TypeOK ==
  /\ messages \in Seq(Message) /\ lastSeq \in Nat
  /\ tail = NoTail \/ (tail \in Cached /\ Len(tail.msgs) <= MaxTail)
  /\ pc \in [Run -> {"new", "reply", "append", "enqueue", "queued", "fetch",
                     "populate", "run", "record", "done"}]
  /\ snap \in [Run -> Nat] /\ slot \in [Run -> Nat]
  /\ context \in [Run -> Seq(Entry)]
  /\ spent \in [Kind -> Nat] /\ mishaps \subseteq {"lost", "overlap"}
  /\ crossed \subseteq Run

\* Whichever runs append, populate, repeat or expire, the tail holds messages
\* of the conversation in their order, none twice, none past its latest_seq,
\* and shows questions as questions.
TailInOrder ==
  tail # NoTail =>
    /\ tail.seq \in DOMAIN messages
    /\ \A i \in DOMAIN tail.msgs :
         /\ tail.msgs[i].seq <= tail.seq
         /\ (tail.msgs[i].kind = "question") <=> (tail.msgs[i].seq \in Questions)
         /\ \A j \in 1 .. i - 1 : tail.msgs[j].seq < tail.msgs[i].seq

\* A slow reader cannot put an older tail over a newer one.
NewerTailKept ==
  [][tail # NoTail /\ tail' # NoTail => tail'.seq >= tail.seq]_vars

Asked(r) == {i \in DOMAIN context[r] : context[r][i].kind = "question"}
AnswersItsQuestion(r) ==
  \E i \in Asked(r) : /\ context[r][i].seq = snap[r]
                      /\ \A j \in Asked(r) : j <= i

\* The last question of the history a run works with is the one it was posted
\* for, whatever was lost, cached or redelivered, unless another run was posted or
\* answered beside it, or so many cards were that the question fell out of the
\* window.
OwnQuestion ==
  \A r \in Run \ crossed :
    pc[r] = "run" /\ slot[r] <= snap[r] + MaxTail => AnswersItsQuestion(r)

\* A run sees every question and every answer among the last messages before
\* it, when runs do not overlap and none ended without its message in the tail.
HistoryComplete ==
  mishaps = {} =>
    \A r \in Run : pc[r] = "run" =>
      \A i \in DOMAIN messages :
        /\ i < slot[r] /\ i + MaxTail >= slot[r]
        /\ messages[i] \in {"question", "answer"}
        => \E j \in DOMAIN context[r] : context[r][j] = Shown(i)
=============================================================================
