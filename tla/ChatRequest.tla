----------------------------- MODULE ChatRequest -----------------------------
(***************************************************************************)
(* One question, from the POSTs that carry it to the reader that is told   *)
(* how it ended: the llm_requests row and its placeholder message, the     *)
(* Celery message, the executions of process_chat, the Redis event stream  *)
(* and one subscriber of it.                                               *)
(*                                                                         *)
(* log holds every event ever written; first is the index of the oldest    *)
(* one still in the stream.  All the deltas of an answer are one event;    *)
(* activity, metadata and title events are left out.                       *)
(***************************************************************************)
EXTENDS Naturals, Sequences

CONSTANTS
  Task,         \* executions of process_chat
  Post,         \* POSTs with one client_request_id
  NoTask,       \* no open transaction on the row
  MaxAttempts,  \* CHAT_MAX_ATTEMPTS
  Budget        \* how many events of each kind may happen

Kind == {"death", "beside", "freeze", "redis", "db", "stage", "api", "full",
         "drop"}

ASSUME NoTaskAssumption == NoTask \notin Task
ASSUME AttemptsAssumption == MaxAttempts \in Nat \ {0}
ASSUME BudgetAssumption == Budget \in [Kind -> Nat]

VARIABLES
  status, attempts, message,  \* the row, and the placeholder's status
  old,                        \* past CHAT_MAX_REQUEST_AGE_SECONDS
  lock,                       \* who has the row in an open transaction
  ppc,                        \* the POSTs
  queue, unacked,             \* messages queued, messages of lost workers
  pc, attempt, read, detached, frozen,  \* executions
  log, first,                 \* the event stream
  sub, pos,                   \* the subscriber
  spent, mishaps, billed, enqueued  \* history

row == <<status, attempts, message>>
broker == <<queue, unacked>>
local == <<attempt, read, detached, frozen>>
stream == <<log, first>>
reader == <<sub, pos>>
history == <<mishaps, billed, enqueued>>
vars == <<row, old, lock, ppc, broker, pc, local, stream, reader, spent,
          history>>

Status == {"absent", "queued", "streaming", "completed", "failed"}
Event == [type : {"delta", "usage", "error"}, by : Task]

\* Where an execution is; Caught are the stages inside the inner try, whose
\* exceptions are handled in the same session.
Caught == {"stream", "persist", "usage"}
Short == {"shortusage", "shortcommit"}
Early == {"load", "expire", "count"}
Ending == {"usage", "caught", "caughtcommit", "failed", "failtell"}
Stage == Early \cup Short \cup Caught \cup
         {"idle", "open", "scan", "route", "work", "tell", "caught",
          "caughtcommit", "failed", "failtell", "exit"}

Spend(kind) == /\ spent[kind] < Budget[kind]
               /\ spent' = [spent EXCEPT ![kind] = @ + 1]

At(t, stage) == pc[t] = stage /\ t \notin frozen
GoTo(t, stage) == pc' = [pc EXCEPT ![t] = stage]

Larger(m, n) == IF m > n THEN m ELSE n

\* A row is written when no other transaction has it; a session that closes
\* rolls its own back.
MayWrite(t) == lock \in {NoTask, t}
Rollback(t) == lock' = IF lock = t THEN NoTask ELSE lock

\* One XADD.  A Redis error leaves it unknown whether the event was added.
Emit(t, type, next, handler) ==
  LET added == Append(log, [type |-> type, by |-> t])
  IN  \/ log' = added /\ GoTo(t, next) /\ UNCHANGED spent
      \/ log' \in {log, added} /\ GoTo(t, handler) /\ Spend("redis")

Init ==
  /\ status = "absent" /\ attempts = 0 /\ message = "none"
  /\ old = FALSE /\ lock = NoTask
  /\ ppc = [p \in Post |-> "new"] /\ queue = 0 /\ unacked = 0
  /\ pc = [t \in Task |-> "idle"] /\ attempt = [t \in Task |-> 0]
  /\ read = [t \in Task |-> "absent"] /\ detached = {} /\ frozen = {}
  /\ log = <<>> /\ first = 1
  /\ sub = "off" /\ pos = 0
  /\ spent = [k \in Kind |-> 0] /\ mishaps = {}
  /\ billed = 0 /\ enqueued = 0
-----------------------------------------------------------------------------
(* POST /v1/chat.                                                          *)

\* A known client_request_id returns the ids of the request there is.
PostLookup(p) ==
  /\ ppc[p] = "new"
  /\ ppc' = [ppc EXCEPT ![p] = IF status = "absent" THEN "admit"
                                                    ELSE "answered"]
  /\ UNCHANGED <<row, old, lock, broker, pc, local, stream, reader, spent,
                 history>>

\* 503 when the queue is deep.
PostAdmit(p) ==
  /\ ppc[p] = "admit"
  /\ \/ ppc' = [ppc EXCEPT ![p] = "commit"] /\ UNCHANGED spent
     \/ ppc' = [ppc EXCEPT ![p] = "refused"] /\ Spend("full")
  /\ UNCHANGED <<row, old, lock, broker, pc, local, stream, reader, history>>

\* Mutant: no unique index on client_request_id.
PostCommitTwice(p) ==
  /\ ppc[p] = "commit" /\ ppc' = [ppc EXCEPT ![p] = "enqueue"]
  /\ status' = "queued" /\ message' = "in_progress" /\ UNCHANGED attempts
  /\ UNCHANGED <<old, lock, broker, pc, local, stream, reader, spent, history>>

\* The user message, the request and the placeholder in one transaction.  The
\* loser of two POSTs meets the unique index and gets a 500.
PostCommit(p) ==
  /\ ppc[p] = "commit"
  /\ IF status = "absent"
     THEN /\ ppc' = [ppc EXCEPT ![p] = "enqueue"]
          /\ status' = "queued" /\ message' = "in_progress"
          /\ UNCHANGED attempts
     ELSE ppc' = [ppc EXCEPT ![p] = "refused"] /\ UNCHANGED row
  /\ UNCHANGED <<old, lock, broker, pc, local, stream, reader, spent, history>>

\* delay(), unless the broker refuses or the API process dies first.
PostEnqueue(p) ==
  /\ ppc[p] = "enqueue"
  /\ \/ /\ ppc' = [ppc EXCEPT ![p] = "answered"]
        /\ queue' = queue + 1 /\ enqueued' = enqueued + 1 /\ UNCHANGED spent
     \/ /\ ppc' = [ppc EXCEPT ![p] = "refused"] /\ Spend("api")
        /\ UNCHANGED <<queue, enqueued>>
  /\ UNCHANGED <<row, old, lock, unacked, pc, local, stream, reader, mishaps,
                 billed>>
-----------------------------------------------------------------------------
(* load_and_validate_request.                                              *)

Deliver(t) ==
  /\ pc[t] = "idle" /\ queue > 0 /\ queue' = queue - 1
  /\ GoTo(t, "load")
  /\ UNCHANGED <<row, old, lock, ppc, unacked, local, stream, reader, spent,
                 history>>

\* Mutant: a redelivery does not look whether the request is completed.
LoadUnguarded(t) ==
  /\ At(t, "load") /\ GoTo(t, IF old THEN "expire" ELSE "count")
  /\ read' = [read EXCEPT ![t] = status]
  /\ UNCHANGED <<row, old, lock, ppc, broker, attempt, detached, frozen,
                 stream, reader, spent, history>>

\* The row is read once: completed returns, too old is given up.
Load(t) ==
  /\ At(t, "load")
  /\ GoTo(t, CASE status = "completed" -> "exit"
               [] status # "completed" /\ old -> "expire"
               [] OTHER -> "count")
  /\ read' = [read EXCEPT ![t] = status]
  /\ UNCHANGED <<row, old, lock, ppc, broker, attempt, detached, frozen,
                 stream, reader, spent, history>>

Expire(t) ==
  /\ At(t, "expire") /\ MayWrite(t) /\ GoTo(t, "tell")
  /\ status' = "failed"
  /\ UNCHANGED <<attempts, message, old, lock, ppc, broker, local, stream,
                 reader, spent, history>>

\* Mutant: the count is a read and a later write, without a lock on the row.
CountUnlocked(t) ==
  /\ At(t, "count") /\ attempts < MaxAttempts
  /\ attempt' = [attempt EXCEPT ![t] = attempts + 1] /\ GoTo(t, "open")
  /\ UNCHANGED <<row, old, lock, ppc, broker, read, detached, frozen, stream,
                 reader, spent, history>>

\* Mutant: every delivery counts, none is refused.
CountUncapped(t) ==
  /\ At(t, "count") /\ MayWrite(t) /\ lock' = t /\ GoTo(t, "open")
  /\ attempt' = [attempt EXCEPT ![t] = attempts + 1]
  /\ UNCHANGED <<row, old, ppc, broker, read, detached, frozen, stream, reader,
                 spent, history>>

\* UPDATE .. RETURNING takes the row until the next commit; above the cap it
\* is committed with failed at once.  The counter stops one above the cap.
Count(t) ==
  /\ At(t, "count") /\ MayWrite(t)
  /\ IF attempts < MaxAttempts
     THEN /\ lock' = t /\ attempt' = [attempt EXCEPT ![t] = attempts + 1]
          /\ GoTo(t, "open") /\ UNCHANGED row
     ELSE /\ attempts' = MaxAttempts + 1 /\ status' = "failed"
          /\ GoTo(t, "tell") /\ UNCHANGED <<lock, attempt, message>>
  /\ UNCHANGED <<old, ppc, broker, read, detached, frozen, stream, reader,
                 spent, history>>

\* The error event of a request that is not run.
Tell(t) ==
  /\ At(t, "tell") /\ Emit(t, "error", "exit", "failed")
  /\ UNCHANGED <<row, old, lock, ppc, broker, local, first, reader, history>>

\* Mutant: a second attempt writes behind the first one's events.
OpenDirty(t) ==
  /\ At(t, "open") /\ GoTo(t, "scan")
  /\ UNCHANGED <<row, old, lock, ppc, broker, local, stream, reader, spent,
                 history>>

\* A second attempt starts on an empty stream; an error is suppressed.
Open(t) ==
  /\ At(t, "open") /\ GoTo(t, "scan")
  /\ \/ attempt[t] > 1 /\ first' = Len(log) + 1 /\ UNCHANGED spent
     \/ attempt[t] > 1 /\ UNCHANGED first /\ Spend("redis")
     \/ attempt[t] = 1 /\ UNCHANGED <<first, spent>>
  /\ UNCHANGED <<row, old, lock, ppc, broker, local, log, reader, history>>
-----------------------------------------------------------------------------
(* The pipeline.                                                           *)

\* The commit before the router: the attempt, and streaming unless the
\* session read it already.
CommitRun(t) ==
  /\ At(t, "scan") /\ MayWrite(t) /\ GoTo(t, "route") /\ lock' = NoTask
  /\ attempts' = Larger(attempts, attempt[t])
  /\ status' = IF read[t] = "streaming" THEN status ELSE "streaming"
  /\ billed' = billed + 1
  /\ UNCHANGED <<message, old, ppc, broker, local, stream, reader, spent,
                 mishaps, enqueued>>

\* A refused question, before that commit, or an early exit of the router
\* after it: the reply, then usage, and only then the commit.
Refuse(t) ==
  /\ (At(t, "scan") \/ At(t, "route"))
  /\ Emit(t, "delta", "shortusage", "failed")
  /\ IF pc'[t] = "failed" THEN Rollback(t) ELSE UNCHANGED lock
  /\ UNCHANGED <<row, old, ppc, broker, local, first, reader, history>>

ShortUsage(t) ==
  /\ At(t, "shortusage") /\ MayWrite(t)
  /\ Emit(t, "usage", "shortcommit", "failed")
  /\ lock' = IF pc'[t] = "failed" THEN NoTask ELSE t
  /\ UNCHANGED <<row, old, ppc, broker, local, first, reader, history>>

ShortCommit(t) ==
  /\ At(t, "shortcommit") /\ GoTo(t, "exit") /\ lock' = NoTask
  /\ attempts' = Larger(attempts, attempt[t])
  /\ status' = "completed" /\ message' = "completed"
  /\ UNCHANGED <<old, ppc, broker, local, stream, reader, spent, history>>

\* Routed, searched, prompted: committed again on the way.
Work(t) ==
  /\ \/ At(t, "route") /\ GoTo(t, "work")
     \/ At(t, "work") /\ GoTo(t, "stream")
  /\ UNCHANGED <<row, old, lock, ppc, broker, local, stream, reader, spent,
                 history>>

Stream(t) ==
  /\ At(t, "stream") /\ Emit(t, "delta", "persist", "caught")
  /\ UNCHANGED <<row, old, lock, ppc, broker, local, first, reader, history>>

\* Mutant: the placeholder message is not finished with the row.
PersistRowOnly(t) ==
  /\ At(t, "persist") /\ MayWrite(t) /\ GoTo(t, "usage")
  /\ status' = "completed"
  /\ UNCHANGED <<attempts, message, old, lock, ppc, broker, local, stream,
                 reader, spent, history>>

\* The answer, its citations and its usage in one commit.
Persist(t) ==
  /\ At(t, "persist") /\ MayWrite(t) /\ GoTo(t, "usage")
  /\ status' = "completed" /\ message' = "completed"
  /\ UNCHANGED <<attempts, old, lock, ppc, broker, local, stream, reader,
                 spent, history>>

\* After the commit, the tail and the title: the last event.
Usage(t) ==
  /\ At(t, "usage") /\ Emit(t, "usage", "exit", "caught")
  /\ UNCHANGED <<row, old, lock, ppc, broker, local, first, reader, history>>
-----------------------------------------------------------------------------
(* How an execution ends.                                                  *)

\* A session that never commits the reply it sent, or the usage.
NoteEarly(t) ==
  mishaps' = mishaps \cup (IF pc[t] \in Short THEN {"early"} ELSE {})

\* A stage raises, or the soft time limit is raised in it.
StageFails(t) ==
  /\ \E s \in Short \cup Caught \cup {"scan", "route", "work"} : At(t, s)
  /\ Spend("stage") /\ NoteEarly(t)
  /\ GoTo(t, IF pc[t] \in Caught THEN "caught" ELSE "failed") /\ Rollback(t)
  /\ UNCHANGED <<row, old, ppc, broker, local, stream, reader, billed,
                 enqueued>>

\* A failed transaction breaks the session: the inner handler fails too.  An
\* early stage also fails with Redis, when it announces itself.
DbFails(t) ==
  /\ \E s \in Early \cup {"scan", "shortcommit", "persist", "caughtcommit"} :
       At(t, s)
  /\ Spend("db") \/ (pc[t] \in {"load", "scan"} /\ Spend("redis"))
  /\ NoteEarly(t) /\ GoTo(t, "failed") /\ Rollback(t)
  /\ UNCHANGED <<row, old, ppc, broker, local, stream, reader, billed,
                 enqueued>>

\* except around the stream: failed over whatever the row says, the error
\* event, then the commit.
CaughtTell(t) ==
  /\ At(t, "caught") /\ MayWrite(t)
  /\ Emit(t, "error", "caughtcommit", "failed")
  /\ lock' = IF pc'[t] = "failed" THEN NoTask ELSE t
  /\ UNCHANGED <<row, old, ppc, broker, local, first, reader, history>>

CaughtCommit(t) ==
  /\ At(t, "caughtcommit") /\ GoTo(t, "exit") /\ lock' = NoTask
  /\ status' = "failed" /\ message' = "error"
  /\ UNCHANGED <<attempts, old, ppc, broker, local, stream, reader, spent,
                 history>>

\* The outer except: failed in a session of its own, or not at all.
SetFailed(t) ==
  /\ At(t, "failed") /\ MayWrite(t) /\ GoTo(t, "failtell")
  /\ \/ status' = "failed" /\ UNCHANGED spent
     \/ UNCHANGED status /\ Spend("db")
  /\ UNCHANGED <<attempts, message, old, lock, ppc, broker, local, stream,
                 reader, history>>

FailTell(t) ==
  /\ At(t, "failtell") /\ Emit(t, "error", "exit", "exit")
  /\ UNCHANGED <<row, old, lock, ppc, broker, local, first, reader, history>>

End(t) ==
  /\ GoTo(t, "idle") /\ Rollback(t)
  /\ attempt' = [attempt EXCEPT ![t] = 0]
  /\ read' = [read EXCEPT ![t] = "absent"]
  /\ detached' = detached \ {t} /\ frozen' = frozen \ {t}

\* Returned or raised: acknowledged.
Exit(t) ==
  /\ At(t, "exit") /\ End(t)
  /\ UNCHANGED <<row, old, ppc, broker, stream, reader, spent, history>>

\* Ended between the commit of completed and the last event, or between the
\* events of a short path and its commit.
NoteKilled(t) ==
  mishaps' = mishaps \cup
    (IF status = "completed" /\ pc[t] \in Ending THEN {"silent"} ELSE {}) \cup
    (IF pc[t] \in Short THEN {"early"} ELSE {})

\* The child process is killed: its message is requeued at once.
Crash(t) ==
  /\ pc[t] # "idle" /\ Spend("death") /\ End(t) /\ NoteKilled(t)
  /\ queue' = IF t \in detached THEN queue ELSE queue + 1
  /\ UNCHANGED <<row, old, ppc, unacked, stream, reader, billed, enqueued>>

\* The whole worker goes: the broker waits for its visibility timeout.
WorkerLost(t) ==
  /\ pc[t] # "idle" /\ Spend("death") /\ End(t) /\ NoteKilled(t)
  /\ unacked' = IF t \in detached THEN unacked ELSE unacked + 1
  /\ UNCHANGED <<row, old, ppc, queue, stream, reader, billed, enqueued>>

\* An hour, which is past the age limit.
VisibilityTimeout ==
  /\ unacked > 0 /\ old
  /\ unacked' = unacked - 1 /\ queue' = queue + 1
  /\ UNCHANGED <<row, old, lock, ppc, pc, local, stream, reader, spent,
                 history>>

\* The worker loses its broker connection: the message is delivered again
\* while the execution goes on.
Redeliver(t) ==
  /\ pc[t] # "idle" /\ t \notin detached /\ Spend("beside")
  /\ detached' = detached \cup {t} /\ queue' = queue + 1
  /\ UNCHANGED <<row, old, lock, ppc, unacked, pc, attempt, read, frozen,
                 stream, reader, history>>

\* time_limit: killed and acknowledged.
HardLimit(t) ==
  /\ pc[t] \notin Early \cup {"idle"} /\ t \notin frozen /\ Spend("death")
  /\ End(t) /\ NoteKilled(t)
  /\ UNCHANGED <<row, old, ppc, broker, stream, reader, billed, enqueued>>

\* soft_time_limit while the loop waits: acknowledged, and suspended until
\* the process runs its loop again.
SoftLimitEscapes(t) ==
  /\ pc[t] \notin Early \cup {"idle"} /\ t \notin frozen /\ Spend("freeze")
  /\ detached' = detached \cup {t} /\ frozen' = frozen \cup {t}
  /\ NoteKilled(t)
  /\ UNCHANGED <<row, old, lock, ppc, broker, pc, attempt, read, stream,
                 reader, billed, enqueued>>

Thaw(t) ==
  /\ t \in frozen /\ frozen' = frozen \ {t}
  /\ UNCHANGED <<row, old, lock, ppc, broker, pc, attempt, read, detached,
                 stream, reader, spent, history>>

Age ==
  /\ status # "absent" /\ ~old /\ old' = TRUE
  /\ UNCHANGED <<row, lock, ppc, broker, pc, local, stream, reader, spent,
                 history>>
-----------------------------------------------------------------------------
(* GET /v1/chat/stream.                                                    *)

Subscribe ==
  /\ sub = "off" /\ sub' = "reading"
  /\ \E p \in Post : ppc[p] = "answered"
  /\ UNCHANGED <<row, old, lock, ppc, broker, pc, local, stream, pos, spent,
                 history>>

NextEvent == Larger(pos + 1, first)

\* XREAD from the last id: usage and error end the stream.
ReadEvent ==
  /\ sub = "reading" /\ NextEvent <= Len(log) /\ pos' = NextEvent
  /\ sub' = CASE log[NextEvent].type = "usage" -> "complete"
              [] log[NextEvent].type = "error" -> "error"
              [] OTHER -> "reading"
  /\ UNCHANGED <<row, old, lock, ppc, broker, pc, local, stream, spent,
                 history>>

\* A page reload starts again from the beginning.
Reload ==
  /\ sub = "reading" /\ pos' = 0 /\ Spend("drop")
  /\ UNCHANGED <<row, old, lock, ppc, broker, pc, local, stream, sub, history>>

\* Mutant: only a failed row ends the wait.
GiveUpOnFailed ==
  /\ sub = "reading" /\ NextEvent > Len(log) /\ sub' = "error"
  /\ status = "failed"
  /\ UNCHANGED <<row, old, lock, ppc, broker, pc, local, stream, pos, spent,
                 history>>

\* Nothing new: the row says failed, or nobody can be working on it any more.
\* 510 seconds without an event are longer than an execution may take.
GiveUp ==
  /\ sub = "reading" /\ NextEvent > Len(log) /\ sub' = "error"
  /\ \/ status = "failed"
     \/ /\ status \in {"queued", "streaming"}
        /\ \A t \in Task : pc[t] \in {"idle", "load"} \/ t \in frozen
  /\ UNCHANGED <<row, old, lock, ppc, broker, pc, local, stream, pos, spent,
                 history>>
-----------------------------------------------------------------------------
Posting(p) == PostLookup(p) \/ PostAdmit(p) \/ PostCommit(p) \/ PostEnqueue(p)

Progress(t) ==
  \/ Load(t) \/ Expire(t) \/ Count(t) \/ Tell(t) \/ Open(t) \/ CommitRun(t)
  \/ Refuse(t) \/ ShortUsage(t) \/ ShortCommit(t) \/ Work(t) \/ Stream(t)
  \/ Persist(t) \/ Usage(t) \/ CaughtTell(t) \/ CaughtCommit(t)
  \/ SetFailed(t) \/ FailTell(t) \/ Exit(t)

Trouble(t) ==
  \/ StageFails(t) \/ DbFails(t) \/ Crash(t) \/ WorkerLost(t) \/ Redeliver(t)
  \/ HardLimit(t) \/ SoftLimitEscapes(t) \/ Thaw(t)

Reading == Subscribe \/ ReadEvent \/ Reload \/ GiveUp

Next ==
  \/ Reading \/ Age \/ VisibilityTimeout
  \/ \E p \in Post : Posting(p)
  \/ \E t \in Task : Deliver(t) \/ Progress(t) \/ Trouble(t)

Spec == Init /\ [][Next]_vars

\* Workers take messages and run, requests age, a reader keeps reading.
Fairness ==
  /\ WF_vars(\E t \in Task : Deliver(t)) /\ \A t \in Task : WF_vars(Progress(t))
  /\ WF_vars(Age) /\ WF_vars(VisibilityTimeout)
  /\ WF_vars(ReadEvent) /\ WF_vars(GiveUp)
  /\ \A p \in Post : WF_vars(ppc[p] # "new" /\ Posting(p))

FairSpec == Spec /\ Fairness
-----------------------------------------------------------------------------
(* Properties.                                                             *)

\* Each variable keeps its range: the statuses of the row and its message,
\* the stages of the pipeline, the events of the stream.
TypeOK ==
  /\ status \in Status /\ attempts \in 0 .. MaxAttempts + 1
  /\ message \in {"none", "in_progress", "completed", "error"}
  /\ old \in BOOLEAN /\ lock \in Task \cup {NoTask}
  /\ ppc \in [Post -> {"new", "admit", "commit", "enqueue", "answered",
                       "refused"}]
  /\ queue \in Nat /\ unacked \in Nat
  /\ pc \in [Task -> Stage] /\ attempt \in [Task -> 0 .. MaxAttempts]
  /\ read \in [Task -> Status]
  /\ detached \in SUBSET Task /\ frozen \in SUBSET Task
  /\ log \in Seq(Event) /\ first \in Nat \ {0}
  /\ sub \in {"off", "reading", "complete", "error"} /\ pos \in Nat
  /\ spent \in [Kind -> Nat] /\ mishaps \in SUBSET {"early", "silent"}
  /\ billed \in Nat /\ enqueued \in Nat

\* However a request is redelivered, beside a live execution or after it was
\* killed, at most CHAT_MAX_ATTEMPTS executions reach a model.
BilledCap == billed <= MaxAttempts

\* Retried POSTs of one client_request_id enqueue one task between them.
OneEnqueue == enqueued <= 1

\* No execution went on beside a redelivery, and Redis and Postgres answered.
Calm == \A k \in {"beside", "freeze", "redis", "db"} : spent[k] = 0

\* What a reader can replay comes from one execution: a second attempt does
\* not append to the first one's partial answer.  The exception is a refusal
\* killed before its commit, whose attempt was rolled back.
OneAnswerInStream ==
  Calm /\ "early" \notin mishaps =>
    \A i, j \in first .. Len(log) :
      log[i].type = "delta" /\ log[j].type = "delta" => log[i].by = log[j].by

\* A reader told the answer is persisted finds the row and the message
\* completed, or about to be: the short paths announce it before the commit.
ToldIsPersisted ==
  sub = "complete" /\ Calm /\ "early" \notin mishaps =>
    \/ status = "completed" /\ message = "completed"
    \/ \E t \in Task : pc[t] = "shortcommit"

\* A completed request is not failed or run again afterwards.
CompletedIsFinal ==
  [][status = "completed" /\ Calm' /\ spent'["stage"] = 0
       => status' = "completed" /\ billed' = billed]_vars

\* A reader is told how the request ended, through any one crash, lost worker,
\* time limit and failure, unless it was completed by an execution that died
\* before it could say so.
EveryReaderIsTold ==
  sub = "reading" ~> sub # "reading" \/ "silent" \in mishaps
=============================================================================
