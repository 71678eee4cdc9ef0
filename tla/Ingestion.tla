------------------------------ MODULE Ingestion ------------------------------
(***************************************************************************)
(* One document on its way from upload to retrieval: the Postgres row, its *)
(* chunks, the two search indexes, the S3 objects, the Redis lease and     *)
(* reap marker, the Celery queue, the worker tasks that run the pipeline,  *)
(* the API requests that reap it and the one that deletes it.              *)
(*                                                                         *)
(* A task is one execution of ingest_document.  It doubles as its lease    *)
(* token (a uuid4 in the code) and as the generation of the chunks it      *)
(* wrote, whose ids are fresh uuids too.  A token nothing refers to any    *)
(* more is used again, so Task is finite and behaviours are not.           *)
(*                                                                         *)
(* What goes wrong is paid for from Budget, one entry per kind of event.   *)
(***************************************************************************)
EXTENDS Naturals, FiniteSets

CONSTANTS
  Task,         \* executions of ingest_document, also lease tokens
  Reader,       \* API requests that call reap_abandoned
  NoTask,       \* no lease, no generation
  MaxAttempts,  \* INGEST_MAX_ATTEMPTS
  MaxRetries,   \* max_retries of self.retry
  MaxMessages,  \* bound on the messages one retry level of the queue holds
  Budget        \* how many events of each kind may happen

Kind == {"crash", "limit", "freeze", "stall", "redis", "broker", "db",
         "stage", "lookup", "s3", "index", "api", "delete", "backlog"}

ASSUME NoTaskAssumption == NoTask \notin Task
ASSUME AttemptsAssumption == MaxAttempts \in Nat \ {0}
ASSUME BoundAssumption == MaxRetries \in Nat /\ MaxMessages \in Nat
ASSUME BudgetAssumption == Budget \in [Kind -> Nat]

VARIABLES
  status, attempts, parsed, blank,                \* the documents row
  chunks, index, s3,                              \* what is stored under it
  lease, marker,                                  \* Redis keys
  queue,                                          \* messages by retry count
  pc, held, attempt, prior, tries, acked, frozen, \* worker tasks
  threads,                                        \* their index calls
  upc, rpc, dpc, pending,                         \* upload, readers, delete
  spent, mishaps, started                         \* history

row == <<status, attempts, parsed, blank>>
stores == <<chunks, index, s3>>
redis == <<lease, marker>>
local == <<held, attempt, prior, tries, acked, frozen>>
api == <<upc, rpc, dpc, pending>>
history == <<spent, mishaps, started>>
vars == <<row, stores, redis, queue, pc, local, threads, api, history>>

Status == {"absent", "pending", "processing", "ready", "failed"}
Index == {"qdrant", "opensearch"}
Object == {"raw", "docling"}

\* Where a delivery is in _run_pipeline; Owning are the stages that run after
\* the claim, when the lease should be this task's, Working those that run
\* after the attempt was counted.
Owning == {"unmark", "count", "parse", "save", "chunk", "embed", "purge",
           "index", "finalize"}
Working == Owning \ {"unmark", "count"}
Stage == Owning \cup {"idle", "fetch", "claim", "handler", "release", "retry"}

\* The index calls asyncio.to_thread makes.  A thread cannot be cancelled: it
\* outlives the coroutine that awaited it.
Call == [task : Task, op : {"delete", "upsert"}, on : Index]
Calls(t, op) == {[task |-> t, op |-> op, on |-> x] : x \in Index}
CallsOf(t) == {c \in threads : c.task = t}
Awaited(c) == pc[c.task] = (IF c.op = "delete" THEN "purge" ELSE "index")

Spend(kind) == /\ spent[kind] < Budget[kind]
               /\ spent' = [spent EXCEPT ![kind] = @ + 1]

Fresh(t) == /\ pc[t] = "idle" /\ t # lease /\ t # chunks
            /\ CallsOf(t) = {} /\ \A x \in Index : t \notin index[x]

\* A soft time limit may leave a coroutine suspended in a loop nothing drives.
At(t, stage) == pc[t] = stage /\ t \notin frozen
GoTo(t, stage) == pc' = [pc EXCEPT ![t] = stage]

Enqueue(k) == queue' = [queue EXCEPT ![k] = @ + 1]

\* The execution is over: acknowledged, requeued or killed.
End(t) ==
  /\ GoTo(t, "idle")
  /\ held' = [held EXCEPT ![t] = FALSE]
  /\ attempt' = [attempt EXCEPT ![t] = 0]
  /\ prior' = [prior EXCEPT ![t] = FALSE]
  /\ tries' = [tries EXCEPT ![t] = 0]
  /\ acked' = acked \ {t} /\ frozen' = frozen \ {t}

Init ==
  /\ status = "absent" /\ attempts = 0 /\ parsed = FALSE /\ blank = FALSE
  /\ chunks = NoTask /\ index = [x \in Index |-> {}] /\ s3 = {}
  /\ lease = NoTask /\ marker = FALSE
  /\ queue = [k \in 0 .. MaxRetries |-> 0]
  /\ pc = [t \in Task |-> "idle"] /\ held = [t \in Task |-> FALSE]
  /\ attempt = [t \in Task |-> 0] /\ prior = [t \in Task |-> FALSE]
  /\ tries = [t \in Task |-> 0] /\ acked = {} /\ frozen = {}
  /\ threads = {}
  /\ upc = "new" /\ rpc = [r \in Reader |-> "idle"]
  /\ dpc = "idle" /\ pending = {}
  /\ spent = [k \in Kind |-> 0] /\ mishaps = {} /\ started = 0
-----------------------------------------------------------------------------
(* POST /v1/documents/upload: commit the row, store the PDF, enqueue.      *)

UploadCreate ==
  /\ upc = "new" /\ upc' = "created"
  /\ status' = "pending" /\ blank' \in BOOLEAN
  /\ UNCHANGED <<attempts, parsed, stores, redis, queue, pc, local, threads,
                 rpc, dpc, pending, history>>

UploadStore ==
  /\ upc = "created" /\ upc' = "stored"
  /\ s3' = s3 \cup {"raw"}
  /\ UNCHANGED <<row, chunks, index, redis, queue, pc, local, threads,
                 rpc, dpc, pending, history>>

\* S3 refuses the PDF: the row is deleted again and the client gets a 502.
UploadStoreFails ==
  /\ upc = "created" /\ upc' = "done" /\ Spend("s3")
  /\ status' = "absent"
  /\ UNCHANGED <<attempts, parsed, blank, stores, redis, queue, pc, local,
                 threads, rpc, dpc, pending, mishaps, started>>

UploadEnqueue ==
  /\ upc = "stored" /\ upc' = "done" /\ Enqueue(0)
  /\ UNCHANGED <<row, stores, redis, pc, local, threads, rpc, dpc, pending,
                 history>>

\* The API process dies, or the broker refuses the message, after the row was
\* committed: nothing undoes the row and nothing enqueues it later.
UploadLost ==
  /\ upc \in {"created", "stored"} /\ upc' = "done" /\ Spend("api")
  /\ UNCHANGED <<row, stores, redis, queue, pc, local, threads, rpc, dpc,
                 pending, mishaps, started>>
-----------------------------------------------------------------------------
(* Claiming the document: fetch_document_record in _run_pipeline.          *)

Deliver(t) ==
  /\ Fresh(t) /\ GoTo(t, "fetch")
  /\ \E k \in 0 .. MaxRetries :
       /\ queue[k] > 0
       /\ queue' = [queue EXCEPT ![k] = @ - 1]
       /\ tries' = [tries EXCEPT ![t] = k]
  /\ UNCHANGED <<row, stores, redis, held, attempt, prior, acked, frozen,
                 threads, api, history>>

\* The row is read once; parse_status is remembered from this read.  A
\* missing row raises LookupError, a ready one returns.
Fetch(t) ==
  /\ At(t, "fetch")
  /\ GoTo(t, CASE status = "absent" -> "retry"
               [] status = "ready" -> "release"
               [] OTHER -> "claim")
  /\ prior' = [prior EXCEPT ![t] = parsed]
  /\ UNCHANGED <<row, stores, redis, queue, held, attempt, tries, acked,
                 frozen, threads, api, history>>

\* Mutant: the lease key is SET without NX.
ClaimBlind(t) ==
  /\ At(t, "claim") /\ GoTo(t, "unmark")
  /\ lease' = t /\ held' = [held EXCEPT ![t] = TRUE]
  /\ UNCHANGED <<row, stores, marker, queue, attempt, prior, tries, acked,
                 frozen, threads, api, history>>

\* Mutant: a refused task raises and its handler writes failed.
ClaimRefusedRaises(t) ==
  /\ At(t, "claim")
  /\ IF lease = NoTask
     THEN /\ lease' = t /\ held' = [held EXCEPT ![t] = TRUE]
          /\ GoTo(t, "unmark")
     ELSE GoTo(t, "handler") /\ UNCHANGED <<lease, held>>
  /\ UNCHANGED <<row, stores, marker, queue, attempt, prior, tries, acked,
                 frozen, threads, api, history>>

NoteOverlap ==
  mishaps' = IF dpc = "idle" THEN mishaps ELSE mishaps \cup {"overlap"}

\* SET NX on the lease key; a task that is refused returns.
Claim(t) ==
  /\ At(t, "claim")
  /\ IF lease = NoTask
     THEN /\ lease' = t /\ held' = [held EXCEPT ![t] = TRUE]
          /\ GoTo(t, "unmark") /\ NoteOverlap
     ELSE /\ GoTo(t, "release") /\ UNCHANGED <<lease, held, mishaps>>
  /\ UNCHANGED <<row, stores, marker, queue, attempt, prior, tries, acked,
                 frozen, threads, api, spent, started>>

\* Redis raises: the task goes on without a lease and without a heartbeat.
\* The SET may have been applied before the connection was lost.
ClaimUnleased(t) ==
  /\ At(t, "claim") /\ GoTo(t, "unmark") /\ Spend("redis")
  /\ lease' = lease \/ (lease = NoTask /\ lease' = t)
  /\ mishaps' = mishaps \cup {"breach"}
  /\ UNCHANGED <<row, stores, marker, queue, local, threads, api, started>>

\* The reap marker is deleted; an error is suppressed.
Unmark(t) ==
  /\ At(t, "unmark") /\ GoTo(t, "count")
  /\ \/ marker' = FALSE /\ UNCHANGED spent
     \/ Spend("redis") /\ UNCHANGED marker
  /\ UNCHANGED <<row, stores, lease, queue, local, threads, api, mishaps,
                 started>>

\* Mutant: the cap is off by one.
CountOverCap(t) ==
  /\ At(t, "count") /\ status # "absent" /\ attempts <= MaxAttempts
  /\ attempts' = attempts + 1 /\ status' = "processing"
  /\ attempt' = [attempt EXCEPT ![t] = attempts + 1]
  /\ GoTo(t, "parse") /\ started' = started + 1
  /\ UNCHANGED <<parsed, blank, stores, redis, queue, held, prior, tries,
                 acked, frozen, threads, api, spent, mishaps>>

\* One transaction: count the attempt, then processing, or failed above the
\* cap.  The counter stops at MaxAttempts + 1, which nothing tells apart from
\* a larger one.  On a missing row the UPDATE .. RETURNING raises.
Count(t) ==
  /\ At(t, "count")
  /\ \/ /\ status = "absent" /\ GoTo(t, "handler")
        /\ UNCHANGED <<status, attempts, attempt, started>>
     \/ /\ status # "absent" /\ attempts < MaxAttempts
        /\ attempts' = attempts + 1 /\ status' = "processing"
        /\ attempt' = [attempt EXCEPT ![t] = attempts + 1]
        /\ GoTo(t, "parse") /\ started' = started + 1
     \/ /\ status # "absent" /\ attempts >= MaxAttempts
        /\ attempts' = MaxAttempts + 1 /\ status' = "failed"
        /\ GoTo(t, "release") /\ UNCHANGED <<attempt, started>>
  /\ UNCHANGED <<parsed, blank, stores, redis, queue, held, prior, tries,
                 acked, frozen, threads, api, spent, mishaps>>
-----------------------------------------------------------------------------
(* The pipeline proper.                                                    *)

\* A retry that saw a parse_status and can load docling.json skips the parse.
Resume(t) ==
  /\ At(t, "parse") /\ GoTo(t, "chunk")
  /\ attempt[t] > 1 /\ prior[t] /\ "docling" \in s3
  /\ UNCHANGED <<row, stores, redis, queue, local, threads, api, history>>

\* Otherwise download, parse, describe pictures, upload crops, export.
Parse(t) ==
  /\ At(t, "parse") /\ "raw" \in s3 /\ GoTo(t, "save")
  /\ \/ ~(attempt[t] > 1 /\ prior[t] /\ "docling" \in s3) /\ UNCHANGED spent
     \/ attempt[t] > 1 /\ prior[t] /\ "docling" \in s3 /\ Spend("s3")
  /\ UNCHANGED <<row, stores, redis, queue, local, threads, api, mishaps,
                 started>>

\* The PDF is gone from S3: download_file raises.
ParseNoPdf(t) ==
  /\ At(t, "parse") /\ "raw" \notin s3 /\ GoTo(t, "handler")
  /\ ~(attempt[t] > 1 /\ prior[t] /\ "docling" \in s3)
  /\ UNCHANGED <<row, stores, redis, queue, local, threads, api, history>>

\* gather: the row's parse_status and docling.json, two stores.
SaveMetadata == parsed' = (parsed \/ status # "absent")
UploadArtifact == s3' = s3 \cup {"docling"}

Save(t) ==
  /\ At(t, "save") /\ GoTo(t, "chunk")
  /\ SaveMetadata /\ UploadArtifact
  /\ UNCHANGED <<status, attempts, blank, chunks, index, redis, queue, local,
                 threads, api, history>>

\* One of the two raises; the other may still be done.
SaveFails(t) ==
  /\ At(t, "save") /\ GoTo(t, "handler") /\ Spend("stage")
  /\ \/ SaveMetadata /\ UNCHANGED s3
     \/ UploadArtifact /\ UNCHANGED parsed
     \/ UNCHANGED <<parsed, s3>>
  /\ UNCHANGED <<status, attempts, blank, chunks, index, redis, queue, local,
                 threads, api, mishaps, started>>

SetStatus(s) == status' = IF status = "absent" THEN "absent" ELSE s

\* No chunks: ready at once, nothing indexed.
FinishEmpty(t) ==
  /\ At(t, "chunk") /\ blank /\ GoTo(t, "release")
  /\ SetStatus("ready")
  /\ UNCHANGED <<attempts, parsed, blank, stores, redis, queue, local,
                 threads, api, history>>

\* One transaction: replace the document's chunks.  A missing row is a
\* LookupError, which the task wrapper retries.
Persist(t) ==
  /\ At(t, "chunk") /\ ~blank
  /\ IF status = "absent"
     THEN GoTo(t, "retry") /\ UNCHANGED chunks
     ELSE GoTo(t, "embed") /\ chunks' = t
  /\ UNCHANGED <<row, index, s3, redis, queue, local, threads, api, history>>

\* Mutant: a retry indexes without purging what an earlier attempt left.
StartPurgeSkipped(t) ==
  /\ At(t, "embed") /\ GoTo(t, "purge")
  /\ UNCHANGED <<row, stores, redis, queue, local, threads, api, history>>

\* After embedding: purge both indexes by document id, on a retry only.
StartPurge(t) ==
  /\ At(t, "embed") /\ GoTo(t, "purge")
  /\ threads' = IF attempt[t] > 1 THEN threads \cup Calls(t, "delete")
                                  ELSE threads
  /\ UNCHANGED <<row, stores, redis, queue, local, api, history>>

StartIndex(t) ==
  /\ At(t, "purge") /\ CallsOf(t) = {} /\ GoTo(t, "index")
  /\ threads' = threads \cup Calls(t, "upsert")
  /\ UNCHANGED <<row, stores, redis, queue, local, api, history>>

IndexDone(t) ==
  /\ At(t, "index") /\ CallsOf(t) = {} /\ GoTo(t, "finalize")
  /\ UNCHANGED <<row, stores, redis, queue, local, threads, api, history>>

\* Mutant: the row gets the name of the progress event.
FinalizeDone(t) ==
  /\ At(t, "finalize") /\ GoTo(t, "release") /\ SetStatus("done")
  /\ UNCHANGED <<attempts, parsed, blank, stores, redis, queue, local,
                 threads, api, history>>

\* The status is written whoever owns the document by now.
Finalize(t) ==
  /\ At(t, "finalize") /\ GoTo(t, "release")
  /\ SetStatus("ready")
  /\ UNCHANGED <<attempts, parsed, blank, stores, redis, queue, local,
                 threads, api, history>>
-----------------------------------------------------------------------------
(* Index calls in their threads.                                           *)

NoteLate(c) ==
  mishaps' = IF Awaited(c) THEN mishaps ELSE mishaps \cup {"late"}

\* A call takes effect, awaited or not.
CallLands(c) ==
  /\ c \in threads /\ threads' = threads \ {c} /\ NoteLate(c)
  /\ index' = [index EXCEPT ![c.on] =
                 IF c.op = "delete" THEN {} ELSE @ \cup {c.task}]
  /\ UNCHANGED <<row, chunks, s3, redis, queue, pc, local, api, spent, started>>

\* A call raises: gather raises in the coroutine at once and leaves the other
\* call running.  The failed upsert may have written some of its batches.
CallFails(c) ==
  /\ c \in threads /\ threads' = threads \ {c} /\ NoteLate(c)
  /\ Spend("index")
  /\ index' = index \/ (c.op = "upsert" /\
               index' = [index EXCEPT ![c.on] = @ \cup {c.task}])
  /\ IF Awaited(c) THEN GoTo(c.task, "handler") ELSE UNCHANGED pc
  /\ UNCHANGED <<row, chunks, s3, redis, queue, local, api, started>>
-----------------------------------------------------------------------------
(* How an execution ends.                                                  *)

\* A stage raises: the parse, the chunker, the embedder, the S3 backup.
StageFails(t) ==
  /\ \E s \in {"parse", "chunk", "embed", "index"} : At(t, s)
  /\ GoTo(t, "handler") /\ Spend("stage")
  /\ UNCHANGED <<row, stores, redis, queue, local, threads, api, mishaps,
                 started>>

\* The same, with a KeyError or an IndexError: both are LookupErrors, which
\* skip the handler and are retried as if the row were missing.
StageRaisesLookup(t) ==
  /\ \E s \in {"parse", "save", "chunk", "embed", "index"} : At(t, s)
  /\ GoTo(t, "retry") /\ Spend("lookup")
  /\ UNCHANGED <<row, stores, redis, queue, local, threads, api, mishaps,
                 started>>

\* A transaction of the task fails and is rolled back.
DbFails(t) ==
  /\ \E s \in {"fetch", "count", "chunk", "finalize"} : At(t, s)
  /\ GoTo(t, "handler") /\ Spend("db")
  /\ UNCHANGED <<row, stores, redis, queue, local, threads, api, mishaps,
                 started>>

\* except Exception: set_failed, whoever owns the document; its own failure
\* is logged and the row left as it is.
SetFailed(t) ==
  /\ At(t, "handler") /\ GoTo(t, "release")
  /\ \/ SetStatus("failed") /\ UNCHANGED spent
     \/ Spend("db") /\ UNCHANGED status
  /\ UNCHANGED <<attempts, parsed, blank, stores, redis, queue, local,
                 threads, api, mishaps, started>>

\* Mutant: a plain DEL of the key.
ReleaseLeaseBlind(t) ==
  lease' = (IF held[t] THEN NoTask ELSE lease) /\ UNCHANGED spent

\* finally: compare-and-delete of the lease by the task that still holds it.
\* A Redis error is swallowed, the delete may have been applied.
ReleaseLease(t) ==
  LET mine == held[t] /\ lease = t
  IN  \/ lease' = (IF mine THEN NoTask ELSE lease) /\ UNCHANGED spent
      \/ mine /\ lease' = lease /\ Spend("redis")

\* Returned or raised: the delivery is acknowledged either way.
Release(t) ==
  /\ At(t, "release") /\ ReleaseLease(t) /\ End(t)
  /\ UNCHANGED <<row, stores, marker, queue, threads, api, mishaps, started>>

\* LookupError: released, then self.retry while retries are left.  A coroutine
\* nobody awaits any more (acked) has no wrapper to retry it.
Retry(t) ==
  /\ At(t, "retry") /\ ReleaseLease(t) /\ End(t)
  /\ IF tries[t] < MaxRetries /\ t \notin acked
     THEN Enqueue(tries[t] + 1) ELSE UNCHANGED queue
  /\ UNCHANGED <<row, stores, marker, threads, api, mishaps, started>>

\* The heartbeat finds the key in other hands (or gone) and cancels the task,
\* which returns without writing.  Its index calls keep running.
StandDown(t) ==
  /\ \E s \in Owning : At(t, s)
  /\ held[t] /\ lease # t
  /\ held' = [held EXCEPT ![t] = FALSE] /\ GoTo(t, "release")
  /\ UNCHANGED <<row, stores, redis, queue, attempt, prior, tries, acked,
                 frozen, threads, api, history>>

\* The same cancellation, while the exception handler awaits the database: no
\* clause catches it there, it ends the worker process and the broker
\* redelivers.  A coroutine without a wrapper just ends.
HandlerCancelled(t) ==
  /\ At(t, "handler") /\ held[t] /\ lease # t /\ End(t)
  /\ IF t \in acked THEN UNCHANGED <<threads, queue>>
                     ELSE threads' = threads \ CallsOf(t) /\ Enqueue(tries[t])
  /\ UNCHANGED <<row, stores, redis, api, history>>

\* The worker process dies (OOM, eviction): the broker redelivers.
Crash(t) ==
  /\ pc[t] # "idle" /\ Spend("crash") /\ End(t)
  /\ threads' = threads \ CallsOf(t)
  /\ IF t \in acked THEN UNCHANGED queue ELSE Enqueue(tries[t])
  /\ UNCHANGED <<row, stores, redis, api, mishaps, started>>

\* time_limit, 45 minutes: the child is killed and the delivery acknowledged.
\* The limits are reached in the pipeline, not in the first few milliseconds.
HardLimit(t) ==
  /\ pc[t] \in Working /\ t \notin acked /\ Spend("limit") /\ End(t)
  /\ threads' = threads \ CallsOf(t)
  /\ UNCHANGED <<row, stores, redis, queue, api, mishaps, started>>

\* soft_time_limit raised inside the coroutine: its handler runs.
SoftLimitCaught(t) ==
  /\ \E s \in Working : At(t, s)
  /\ t \notin acked /\ GoTo(t, "handler") /\ Spend("limit")
  /\ UNCHANGED <<row, stores, redis, queue, local, threads, api, mishaps,
                 started>>

\* soft_time_limit raised while the loop waits: it leaves run_until_complete,
\* the delivery is acknowledged and the coroutine stays suspended.
SoftLimitEscapes(t) ==
  /\ \E s \in Working : At(t, s)
  /\ t \notin acked /\ Spend("freeze")
  /\ acked' = acked \cup {t} /\ frozen' = frozen \cup {t}
  /\ UNCHANGED <<row, stores, redis, queue, pc, held, attempt, prior, tries,
                 threads, api, mishaps, started>>

\* The next task of that process runs the same loop, and resumes it.
Thaw(t) ==
  /\ t \in frozen /\ frozen' = frozen \ {t}
  /\ UNCHANGED <<row, stores, redis, queue, pc, held, attempt, prior, tries,
                 acked, threads, api, history>>
-----------------------------------------------------------------------------
(* Redis expiry.                                                           *)

\* Mutant: the key is set without an expiry.
LeaseNeverExpires == FALSE /\ UNCHANGED vars

\* Nobody refreshes the key: its task is gone, or never learnt it had it.
LeaseExpires ==
  /\ lease # NoTask /\ (pc[lease] = "idle" \/ ~held[lease])
  /\ lease' = NoTask
  /\ UNCHANGED <<row, stores, marker, queue, pc, local, threads, api, history>>

\* The key is lost under a live task: Redis restarts, the loop stalls past
\* the TTL, or the loop is not driven at all.
LeaseLapses ==
  /\ lease # NoTask /\ pc[lease] # "idle" /\ held[lease]
  /\ IF lease \in frozen THEN UNCHANGED spent ELSE Spend("stall")
  /\ lease' = NoTask /\ mishaps' = mishaps \cup {"breach"}
  /\ UNCHANGED <<row, stores, marker, queue, pc, local, threads, api, started>>

\* The marker outlives any wait in the queue, unless the backlog is too deep.
MarkerExpires ==
  /\ marker /\ marker' = FALSE
  /\ \/ /\ \A k \in 0 .. MaxRetries : queue[k] = 0
        /\ \A r \in Reader : rpc[r] # "enqueue"
        /\ UNCHANGED spent
     \/ Spend("backlog")
  /\ UNCHANGED <<row, stores, lease, queue, pc, local, threads, api, mishaps,
                 started>>
-----------------------------------------------------------------------------
(* reap_abandoned, on the read paths.                                      *)

\* The request loaded the row earlier; only a processing one is a candidate.
ReadRow(r) ==
  /\ rpc[r] = "idle" /\ status = "processing"
  /\ rpc' = [rpc EXCEPT ![r] = "check"]
  /\ UNCHANGED <<row, stores, redis, queue, pc, local, threads, upc, dpc,
                 pending, history>>

CheckLease(r) ==
  /\ rpc[r] = "check"
  /\ \/ rpc' = [rpc EXCEPT ![r] = IF lease = NoTask THEN "mark" ELSE "idle"]
        /\ UNCHANGED spent
     \/ rpc' = [rpc EXCEPT ![r] = "idle"] /\ Spend("redis")
  /\ UNCHANGED <<row, stores, redis, queue, pc, local, threads, upc, dpc,
                 pending, mishaps, started>>

\* SET NX on the marker; an error gives up.
Mark(r) ==
  /\ rpc[r] = "mark"
  /\ \/ /\ marker' = TRUE /\ UNCHANGED spent
        /\ rpc' = [rpc EXCEPT ![r] = IF marker THEN "idle" ELSE "enqueue"]
     \/ UNCHANGED marker /\ Spend("redis") /\ rpc' = [rpc EXCEPT ![r] = "idle"]
  /\ UNCHANGED <<row, stores, lease, queue, pc, local, threads, upc, dpc,
                 pending, mishaps, started>>

\* delay(); when it raises the marker is dropped, when the API process dies
\* it stays.
ReapEnqueue(r) ==
  /\ rpc[r] = "enqueue" /\ rpc' = [rpc EXCEPT ![r] = "idle"]
  /\ \/ queue[0] < MaxMessages /\ Enqueue(0) /\ UNCHANGED <<marker, spent>>
     \/ Spend("broker") /\ marker' \in {FALSE, marker} /\ UNCHANGED queue
  /\ UNCHANGED <<row, stores, lease, pc, local, threads, upc, dpc, pending,
                 mishaps, started>>
-----------------------------------------------------------------------------
(* DELETE /v1/documents/{id}: purge_document, one request at a time.       *)

\* Mutant: only the vector store is cleaned.
PurgeStartOneIndex ==
  /\ dpc = "idle" /\ pending = {} /\ status # "absent" /\ Spend("delete")
  /\ dpc' = "indexes" /\ pending' = {"qdrant"}
  /\ mishaps' = IF threads = {} /\ \A t \in Task : pc[t] \notin Owning
                  THEN mishaps ELSE mishaps \cup {"overlap"}
  /\ UNCHANGED <<row, stores, redis, queue, pc, local, threads, upc, rpc,
                 started>>

PurgeStart ==
  /\ dpc = "idle" /\ pending = {} /\ status # "absent" /\ Spend("delete")
  /\ dpc' = "indexes" /\ pending' = Index
  /\ mishaps' = IF threads = {} /\ \A t \in Task : pc[t] \notin Owning
                  THEN mishaps ELSE mishaps \cup {"overlap"}
  /\ UNCHANGED <<row, stores, redis, queue, pc, local, threads, upc, rpc,
                 started>>

PurgeIndex(x) ==
  /\ x \in pending /\ pending' = pending \ {x}
  /\ index' = [index EXCEPT ![x] = {}]
  /\ mishaps' = IF dpc = "indexes" THEN mishaps ELSE mishaps \cup {"purge"}
  /\ UNCHANGED <<row, chunks, s3, redis, queue, pc, local, threads, upc, rpc,
                 dpc, spent, started>>

\* One index fails: 503 to the client; the other call is not cancelled.
PurgeIndexFails(x) ==
  /\ dpc = "indexes" /\ x \in pending /\ Spend("index")
  /\ pending' = pending \ {x} /\ dpc' = "idle"
  /\ mishaps' = mishaps \cup {"purge"}
  /\ UNCHANGED <<row, stores, redis, queue, pc, local, threads, upc, rpc,
                 started>>

\* S3 errors are logged and passed over.
PurgeObjects ==
  /\ dpc = "indexes" /\ pending = {} /\ dpc' = "rows"
  /\ \/ s3' = {} /\ UNCHANGED spent
     \/ s3' \in SUBSET s3 /\ Spend("s3")
  /\ UNCHANGED <<row, chunks, index, redis, queue, pc, local, threads, upc,
                 rpc, pending, mishaps, started>>

PurgeRows ==
  /\ dpc = "rows" /\ dpc' = "idle"
  /\ status' = "absent" /\ attempts' = 0 /\ parsed' = FALSE
  /\ chunks' = NoTask /\ started' = 0
  /\ UNCHANGED <<blank, index, s3, redis, queue, pc, local, threads, upc, rpc,
                 pending, spent, mishaps>>

\* The API process dies half way.
PurgeCrash ==
  /\ dpc # "idle" /\ dpc' = "idle" /\ pending' = {} /\ Spend("api")
  /\ mishaps' = mishaps \cup {"purge"}
  /\ UNCHANGED <<row, stores, redis, queue, pc, local, threads, upc, rpc,
                 started>>
-----------------------------------------------------------------------------
Upload == UploadCreate \/ UploadStore \/ UploadStoreFails \/ UploadEnqueue
            \/ UploadLost

Progress(t) ==
  \/ Fetch(t) \/ Claim(t) \/ Unmark(t) \/ Count(t)
  \/ Resume(t) \/ Parse(t) \/ ParseNoPdf(t) \/ Save(t) \/ FinishEmpty(t)
  \/ Persist(t) \/ StartPurge(t) \/ StartIndex(t) \/ IndexDone(t)
  \/ Finalize(t) \/ SetFailed(t) \/ Release(t) \/ Retry(t) \/ StandDown(t)

Trouble(t) ==
  \/ ClaimUnleased(t) \/ SaveFails(t) \/ StageFails(t)
  \/ StageRaisesLookup(t) \/ DbFails(t) \/ HandlerCancelled(t)
  \/ Crash(t) \/ HardLimit(t)
  \/ SoftLimitCaught(t) \/ SoftLimitEscapes(t) \/ Thaw(t)

Read(r) == ReadRow(r) \/ CheckLease(r) \/ Mark(r) \/ ReapEnqueue(r)

Purge == PurgeStart \/ PurgeObjects \/ PurgeRows \/ PurgeCrash
           \/ \E x \in Index : PurgeIndex(x) \/ PurgeIndexFails(x)

Next ==
  \/ Upload \/ Purge \/ LeaseExpires \/ LeaseLapses \/ MarkerExpires
  \/ \E t \in Task : Deliver(t) \/ Progress(t) \/ Trouble(t)
  \/ \E c \in threads : CallLands(c) \/ CallFails(c)
  \/ \E r \in Reader : Read(r)

Spec == Init /\ [][Next]_vars

\* Workers and threads run, keys expire, a delete request is carried through.
WorkersRun ==
  /\ WF_vars(UploadStore) /\ WF_vars(UploadEnqueue)
  /\ WF_vars(\E t \in Task : Deliver(t))
  /\ \A t \in Task : WF_vars(Progress(t))
  /\ \A c \in Call : WF_vars(CallLands(c))
  /\ WF_vars(LeaseExpires) /\ WF_vars(lease \in frozen /\ LeaseLapses)
  /\ WF_vars(MarkerExpires)
  /\ WF_vars(PurgeObjects) /\ WF_vars(PurgeRows)
  /\ \A x \in Index : WF_vars(PurgeIndex(x))

\* Somebody keeps looking at the document: the reaper has no scheduler.
SomebodyLooks == \A r \in Reader : WF_vars(Read(r))

FairSpec == Spec /\ WorkersRun /\ SomebodyLooks
-----------------------------------------------------------------------------
(* Properties.                                                             *)

RowType ==
  /\ status \in Status /\ attempts \in 0 .. MaxAttempts + 1
  /\ parsed \in BOOLEAN /\ blank \in BOOLEAN /\ started \in Nat
StoreType ==
  /\ chunks \in Task \cup {NoTask} /\ index \in [Index -> SUBSET Task]
  /\ s3 \in SUBSET Object /\ threads \in SUBSET Call
RedisType == lease \in Task \cup {NoTask} /\ marker \in BOOLEAN
QueueType == queue \in [0 .. MaxRetries -> Nat]
TaskType ==
  /\ pc \in [Task -> Stage] /\ held \in [Task -> BOOLEAN]
  /\ attempt \in [Task -> 0 .. MaxAttempts] /\ prior \in [Task -> BOOLEAN]
  /\ tries \in [Task -> 0 .. MaxRetries]
  /\ acked \in SUBSET Task /\ frozen \in SUBSET Task
ApiType ==
  /\ upc \in {"new", "created", "stored", "done"}
  /\ rpc \in [Reader -> {"idle", "check", "mark", "enqueue"}]
  /\ dpc \in {"idle", "indexes", "rows"} /\ pending \in SUBSET Index
HistoryType ==
  /\ spent \in [Kind -> Nat]
  /\ mishaps \in SUBSET {"breach", "late", "purge", "overlap"}

\* Each variable keeps its range: the statuses of the CHECK constraint, the
\* stages of _run_pipeline, counters within their bounds.
TypeOK == /\ RowType /\ StoreType /\ RedisType /\ QueueType /\ TaskType
          /\ ApiType /\ HistoryType

\* However deliveries are redelivered, reaped, refused or lost, at most
\* INGEST_MAX_ATTEMPTS of them run the pipeline, and no two count as the same
\* attempt, even two that run at once without a lease.
AttemptCap ==
  /\ started <= MaxAttempts
  /\ \A s, t \in Task : attempt[s] # 0 /\ attempt[s] = attempt[t] => s = t

\* Unless a live task loses its key or claims while Redis is down, no two
\* tasks are ever between claim and release of the document.
SoleOwner ==
  "breach" \notin mishaps =>
    \A s, t \in Task : pc[s] \in Owning /\ pc[t] \in Owning => s = t

\* A lease that disappears expired, or was released by the task it belongs
\* to: no task deletes or overwrites another's key (_RELEASE_LUA, SET NX).
OthersLeaseUntouched ==
  [][lease # NoTask /\ lease' # lease =>
       /\ lease' = NoTask
       /\ pc' = pc \/ (pc[lease] \in {"release", "retry"} /\ pc'[lease] = "idle")]_vars

\* A ready document is retrievable: each index holds the generation whose
\* chunks Postgres can hydrate and nothing else, whichever attempts crashed or
\* failed on the way.  The exceptions are an index call that lands after its
\* task stopped waiting for it, two owners at once, and a delete.
ReadyIsSearchable ==
  status = "ready" /\ dpc = "idle" /\ mishaps \subseteq {"overlap"} =>
    \A x \in Index : index[x] = IF blank THEN {} ELSE {chunks}

\* While a task that counted its attempt is in the pipeline, the row says
\* processing: neither a refused delivery nor an earlier owner writes under
\* it.  A transaction that fails before the claim is the exception, because
\* the handler writes failed without holding the lease.
OwnerSeesProcessing ==
  "breach" \notin mishaps /\ spent["db"] = 0 /\ status # "absent" =>
    \A t \in Task : pc[t] \in Working => status = "processing"

\* A delete that no task overlaps leaves neither index entries nor chunks.
DeletedLeavesNothing ==
  /\ status = "absent" /\ dpc = "idle" /\ pending = {}
  /\ mishaps \cap {"overlap", "purge", "breach", "late"} = {}
  => chunks = NoTask /\ \A x \in Index : index[x] = {}

\* The row's history is that of DocumentLifecycle, which is owned as long as
\* leases are kept and the database answers.
Lifecycle == INSTANCE DocumentLifecycle
  WITH owned <- "breach" \notin mishaps /\ spent["db"] = 0
ImplementsLifecycle == Lifecycle!Spec

\* A document whose worker crashed, was killed or froze, or could not write
\* its outcome, does not stay at processing while somebody reads it.
Recovers == status = "processing" ~> status \in {"ready", "failed", "absent"}
-----------------------------------------------------------------------------
(* What the documents and comments say and the code does not do.           *)

\* tasks.py, the guard at the load: it is there so that a redelivery never
\* trips the cap and marks a healthy (ready) document failed.
ReadyNeverFails == [][status = "ready" => status' # "failed"]_vars
=============================================================================
