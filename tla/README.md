# Formal models of the AI financial copilot

TLA+ models of this repository's pipelines, of its agent and of the algorithms
they rest on, TLC runs over small instances of them, and TLAPS proofs that hold
for instances of any size. Paths are relative to the repository root; in the
tables the directory `src/` of the source packages is left out. `PROJECT.json`
lists the components, the runs, the source lines behind every definition, the
hazards, the findings and the theorems.

1. [The system](#1-the-system)
2. [The modules](#2-the-modules)
3. [What is checked](#3-what-is-checked)
4. [What is proved](#4-what-is-proved)
5. [Where the code and its documents disagree](#5-where-the-code-and-its-documents-disagree)
6. [What is not modelled](#6-what-is-not-modelled)
7. [Plan](#7-plan)

## 1. The system

A FastAPI service and Celery workers over Postgres, Redis (an application
database and a broker), S3, Qdrant and OpenSearch. Users upload financial
documents, which workers parse and index, and ask questions, which workers
answer from the indexes while the browser reads a Redis stream.

### Ingestion

| Part | State | Operations | Interacts with |
|---|---|---|---|
| Upload, `POST /v1/documents/upload` (`api/routers/documents.py`) | `documents` row, S3 object | create the row, store the PDF, enqueue | worker, through row and queue |
| Pipeline task (`services/ingestion/tasks.py`) | row, chunks, `docling.json`, index entries | claim, count the attempt, resume or parse, persist chunks, embed, purge, index, finalize; five ways to end | Postgres, S3, Redis, both indexes |
| Lease (`_DocumentLease`) | Redis key with the task's token | `SET NX`, compare-and-set heartbeat, cancel on loss, compare-and-delete | pipeline task, reaper |
| Reaper (`services/ingestion/recovery.py`) | reap marker in Redis | on every read of a `processing` row without a lease: mark, enqueue | readers, queue |
| Purge (`services/ingestion/purge.py`) | index entries, S3 objects, rows | both indexes in parallel, S3 best effort, rows last | runs beside a task without taking its lease |

Hard: redelivery, reaping and retry overlap; the lease may expire under a live
task; index calls run in threads which no cancellation stops; a worker may die
between any two writes to five stores; a soft time limit may be raised in the
event loop instead of in the coroutine and leave it suspended.
Right means: one owner at a time; attempts capped; nobody touches another's
lease; `processing` while somebody works; `ready` only over what the indexes
really hold; a delete leaves nothing; whatever is abandoned is finished or
failed while somebody looks.

### Chat

| Part | State | Operations | Interacts with |
|---|---|---|---|
| `POST /v1/chat` (`api/routers/chat.py`) | `messages`, `llm_requests` | idempotency lookup, admission, one commit, append to the tail, enqueue | worker, through row and queue |
| Worker (`services/chat/tasks.py`) | row, placeholder, event stream | guard, expire, count, route, search, stream, persist, two exception handlers | Postgres, Redis, providers |
| Event stream and subscriber (`redis_client.py`, `chat.py`, `api/stream_liveness.py`) | Redis stream, read position | append, delete on a second attempt, read, reload, give up on a dead worker | worker, browser |
| Conversation tail (`services/context/conversation_history.py`, Lua scripts in `redis_client.py`) | last messages of a conversation, `latest_seq` | load, compare-and-set populate, append and trim, expire | every POST and every run of the conversation |

Hard: a commit and an event, or a commit and an enqueue, are two steps; a
redelivery may run beside an execution that is still alive; events and commits
come in different orders on the short paths and the long one; the tail is
filled by a reader that may be overtaken, and runs of one conversation overlap.
Right means: the provider is billed at most `CHAT_MAX_ATTEMPTS` times; a POST
retried is enqueued once; a reader sees one execution's answer, is told it ended
and is told the truth; completed stays completed; a run works on its own
question with the whole recent history.

### Answering

| Part | State | Operations | Interacts with |
|---|---|---|---|
| Router, scope and clarification (`services/router/`, reply path of `chat.py`) | `conversations.metadata.entity_bindings`, the card of a request, `last_seq` | route, resolve names, disambiguate, ask back, check and merge a reply | documents table, LLM, later turns |
| Agent loop (`services/chat/agent/`) | run state, evidence and findings ledgers, transcript | model call with fallbacks, reports, parallel searches, verdict, hand-over to synthesis | LLM router, retrieval |
| Retrieval (`services/retrieval/`) | none | embed, both indexes, fusion, hydration, rerank, labels | Qdrant, OpenSearch, Postgres, reranker |
| Figures (`agent/processor.py`, `number_grounding.py`) | none | convert, rank, ground numbers, render changes | exchange rates |
| LLM router and adapters (`services/llm_router.py`, `llm_adapters/`, `llm_runtime/`) | none that outlives a call | build a chain, write a request, resend without a refused feature, map errors, read a stream | providers |
| Answer stream (`events.py`, `citation_parser.py`, `confidence.py`) | parser and stripper of one answer | strip thoughts, turn marks into spans, references, confidence | worker, event stream |
| History of a prompt (`services/context/turns.py`, carried findings of `chat/tasks.py`) | `messages.metadata` | pair turns, cap the window, carry findings to a follow-up | tail cache, router, synthesis |

Hard: searches of one turn run at once and are folded in call order; a report
beside a search was written before its results; the deadline may strike in any
wait; every backend fails alone; a stream may be cut inside a mark; a reply to a
card is checked before it is committed, and the documents move meanwhile.
Right means: labels never change their meaning; what is served rests on what was
read; calls stay within their limits; no failure looks like an empty result; the
reader gets one model's whole answer or is told; a pick stays in force and a
scope is never widened by a failure.

### Parsing and seeding

| Part | State | Operations | Interacts with |
|---|---|---|---|
| Parser, chunker, enrichers (`services/ingestion/docling_parser.py`, `chunker.py`, `picture_enricher.py`, `table_summarizer.py`, `embedder.py`) | none; crops and `docling.json` in S3 | convert, judge, convert again with OCR, nest headers, merge, describe, embed | pipeline task |
| Sample seeding (`services/sample/`, `infra/k8s/chart/templates/app/seed-sample-job.yaml`, `infra/scripts/db_init`) | rows of the demo user, a plan per run | plan, purge, create, upload, enqueue, reap, wait, exit | purge, pipeline task, reaper, Kubernetes |

Hard: which of two conversions is served depends on both; descriptions and
placeholders are matched by order; the seeder purges and creates under the ids
it used before, beside deliveries that may still run, and may die anywhere.
Right means: nothing is stored with its neighbour; a status says what the text
is; the Job ends well within its restarts, and what is offered is what is indexed.

### The rest

The injection detector, authentication and sessions, rate limits, the ingestion
event stream, CRUD routers, observability, offline evaluation and the web UI
are not modelled; section 6 says why.

## 2. The modules

| Module | What it is |
|---|---|
| `DocumentLifecycle` | abstract: what ingestion promises about one row |
| `Ingestion` | one document from upload to retrieval; implements `DocumentLifecycle` |
| `ChatRequest` | one question, from its POSTs to the reader that is told the end |
| `ChatTail` | the history of one conversation: table, cached tail, overlapping runs |
| `AgentLoop` | one run of the agent, turn by turn; extends `Retrieval` |
| `Clarification` | the companies of a question over the turns of a conversation |
| `Seeding` | the seeding Job, the broker, the workers and its restarts |
| `Retrieval` | one search: backends, fusion, reranking, hydration |
| `Figures` | conversion, comparison and grounding of figures |
| `Parsing`, `Chunking`, `Enrichment` | from a PDF to stored chunks |
| `Providers`, `AnswerStream` | requests to models, their streams, and the answer the reader gets (`AnswerStream` extends `Providers`) |
| `History` | the turns and findings a prompt carries |
| `MCIngestion`, `MCChatRequest`, `MCChatTail`, `MCAgentLoop`, `MCClarification`, `MCSeeding` | budgets, values and symmetry for TLC |
| `MCAlgorithms` | one input of one algorithm per state, and what each is for |
| `Orders` | sorting a set and filtering a sequence by counting what comes before, and a sequence made of another element by element, for the modules that are proved about |
| `SequenceLemmas` | lemmas on folds, on `Orders`, on least and greatest elements |
| `IngestionProofs`, `ChatRequestProofs`, `ChatTailProofs`, `AgentLoopProofs`, `ClarificationProofs`, `SeedingProofs` | theorems about the module each is named for |
| `AlgorithmProofs` | theorems about `MCAlgorithms`, for inputs of any size |

Each of the models with steps takes one object (a document, a request, a
conversation, a run of the agent, a corpus), because the code never locks or
writes two of them together. `Ingestion`, `ChatRequest` and `ChatTail` do not
share variables: a chat run reads indexed chunks but never waits for ingestion,
and `ChatRequest` and `ChatTail` look at the same POST and worker from two
sides, one with every failure of a single request, the other with several
requests of one conversation and only the steps that reach the history.

**Faults.** Every fault is an action that spends from `Budget[kind]`, so a run
says which faults it allows and how many. Faults may strike at each point where
the code awaits the thing that fails. A call whose reply is lost may have taken
effect (`ClaimUnleased`, `ReleaseLease`, `Emit`, `AppendUser`, `Populate`).
**History variables** (`spent`, `mishaps`, `started`, `billed`, `enqueued`,
`crossed`) are written and never read by an action's guard except for `Spend`;
properties use them to name their exceptions.

### `Ingestion`

| State | In the code |
|---|---|
| `status`, `attempts`, `parsed`, `blank` | `documents.status`, `ingest_attempt_count`, whether `parse_status` is set, whether the PDF has any chunks |
| `chunks`, `index`, `s3` | generation of the chunk rows; generations in each index; objects stored |
| `lease`, `marker` | the two Redis keys of the document |
| `queue` | messages waiting, by how often `self.retry` has sent them |
| `pc`, `held`, `attempt`, `prior`, `tries`, `acked`, `frozen` | per execution: stage of `_run_pipeline`, whether it believes it has the lease, the attempt it was given, the `parse_status` it read, its retry count, whether the broker is done with it, whether its coroutine is suspended |
| `threads` | index calls in `asyncio.to_thread` |
| `upc`, `rpc`, `dpc`, `pending` | upload, reapers, delete and the index deletes it waits for |

The stages between two awaits that matter are one action each: `Deliver`,
`Fetch` (row read, `ready` guard), `Claim`/`ClaimUnleased`, `Unmark`, `Count`
(one transaction), `Resume`/`Parse`, `Save` (two gathered writes), `Persist`,
`StartPurge`, `StartIndex`, `IndexDone`, `Finalize`. A task ends through
`SetFailed` (`except Exception`), `StandDown` (heartbeat lost), `Retry`
(`LookupError`), `Release` (`finally`), `Crash`, `HardLimit`,
`SoftLimitCaught`, `SoftLimitEscapes`, `HandlerCancelled`.

A `Task` value is an execution, its lease token and the generation of the chunk
ids it wrote: all three are fresh uuids of one execution. A value nothing refers
to any more is used again (`Fresh`), so behaviours are unbounded although `Task`
is finite. The attempt counter stops at `MaxAttempts + 1`, which no code tells
apart from larger values. The batches of the embedding are one step, and stage
events are left out.

### `ChatRequest`

`status`, `attempts` and `message` are the `llm_requests` row and its
placeholder; `lock` is the transaction that has updated the row and not yet
committed (the increment of line 590 stays open until the next commit); `log`
is every event ever added and `first` the oldest still in the stream; `queue`
and `unacked` are messages waiting and messages of lost workers until the
visibility timeout. The deltas of an answer are one event. The two exception
handlers are `CaughtTell`/`CaughtCommit` (around the stream, in the same
session) and `SetFailed`/`FailTell` (around the pipeline, in a new one).

### `ChatTail`

`messages[i]` is what the message with seq `i` is; `tail` is the Redis value;
per run `snap` is `snapshot_seq`, `slot` the seq of the placeholder (which
`load` gets as `before_seq`), `context` the loaded history. `max(seq) + 1` is read without a lock,
but `UNIQUE (conversation_id, seq)` lets only one of two concurrent
transactions commit, so a commit is one step here and the loser's error is not
a state of its own. `Load`, `Fetch` and `Populate` are the three awaits of
`ConversationHistory.load`; `Appended` and `Populated` are the two Lua scripts,
atomic in Redis. `Recent` is the query of a run that found no tail it could
use: `Kept` are the places of its window that are not cards, `InOrder` their
messages. `crossed` holds the runs that loaded when another run was posted or
had answered beside them. `ReplyCheck` and `ReplyCommit` are apart because
`_apply_clarification_reply` checks `last_seq` in a transaction that commits
later and locks nothing.

### `AgentLoop` and `Retrieval`

`ledger` is the durable record of a run (`AgentRunState`, `EvidenceLedger`,
`FindingsLedger` together): `plan` the keys, `tried` and `reached` what was
searched and what answered, `labels` the chunks that S1, S2, ... name, each with
its rank in the search that put it on screen, `entries` the findings. `sent`
is the last prompt and how many labels it showed, `transcript` the messages with
the rounds written into their status view, `left` the time to the deadline.
A turn is `BeginTurn`, a model call that ends as `ModelAnswers`, `ModelFails` or
`ModelTimesOut` (and goes on to the fallback), `Prose` or `Dispatch`, and
`Decide`. `Dispatch` folds a whole turn in the order of `_run_turn`: keys, then
reports, then the results of its searches, which ran at once and are folded in
call order. `SearchesLost`, `DeadlineFires` and `OutOfTime` are the deadline in
each wait, `SearchRaises` the read of the rows outside the search's handler.
`Excerpts`, `Projected` and `Unresolved` are what the answering model is given.

A *leg* says what each backend would answer one search (`Down` for a failure),
and `SearchResult` what the search then returns. The loop is given its search
from outside (`RunDeps.execute_search`): what a search may return is the constant
`Found`, which `MCAgentLoop` sets to the results of three legs; `MCAlgorithms`
looks at every leg there is.

### `Clarification`

`corpus` is the set of companies with a ready document. A run reads it twice
(`RunStart`, `RunResolve`) and finishes by searching, asking or answering
directly (`RunFinish`); `CorpusChanges` may fall between. A reply is checked
(`ReplyCheck`: the card is the last message and not answered) and committed
later (`ReplyCommit`: message, bindings, a new run), or collides with another
writer on `UNIQUE (conversation_id, seq)` (`ReplyCollides`). Which names
resemble which companies is a constant (`Matches`, `Exact`), the model that
disambiguates answers anything in `Answers` or nothing.

### `Seeding`

The seeder's phases are those of `seed.py`: plan, index purges, rows, create,
upload, send, wait. The ingestion task is the one of `Ingestion` in four steps
(`Fetch` with its claim, `Persist`, `Index`, `Finish`), so that a task of a
document's earlier life can go on under the new row. `Crash` and `TimedOut` end
a run, `Start` is the restart, `BackoffLimit` the chart's number of them. A
marker lives for `MarkerRuns` waits, 3600 s against waits of 900 s. `raced`
holds the documents that a delivery worked on between plan and purge, or while
their upload failed and took the row away. A manifest without documents lets a
run exit 0 and offers nothing (`AllReady`, `Offered`).

### The algorithms

`Figures`, `Parsing`, `Chunking`, `Enrichment`, `Providers`, `AnswerStream` and
`History` have no variables: each operator is one function of the code over data
cut down to what decides (a number is an integer with its scale, a text a
sequence of tokens, a conversion its verdict and a few counts). `MCAlgorithms`
takes one step, from "start" to any one input, and its invariants compare the
outcome with a reference that says what the function is for and is written
another way: the places of the citations of the whole text against the parser
that saw it in pieces, the exact worth of every figure against the ranking, the
pieces of the document against the merged chunks. What the code computes in a
loop or by recursion is a recursive function or a set; no module declares a
RECURSIVE operator.

## 3. What is checked

`tlc -workers 2 -config <cfg>.cfg <module>`; none takes more than a few minutes.

| Run | Module, cfg | Asks | Bounds |
|---|---|---|---|
| `failures` | `MCIngestion`, `Ingestion_failures` | `SoleOwner`, `OthersLeaseUntouched`, `AttemptCap`, `OwnerSeesProcessing`, `ImplementsLifecycle`, `TypeOK` | 3 executions, 1 reader, 2 attempts, 1 retry; a crash and a lost lease (1.2 million states) |
| `deletes` | `Ingestion_deletes` | `ReadyIsSearchable`, `DeletedLeavesNothing` | 2 executions, a delete, and one each of: stage error, `LookupError`, index error, S3 error, Redis error, API death, hard or caught soft limit, escaped soft limit |
| `recovers` | `Ingestion_recovers` | `Recovers` (liveness) | 3 executions, 1 reader; one crash, one failed transaction, one refused enqueue |
| `faults` | `MCChatRequest`, `ChatRequest_faults` | `BilledCap`, `OneAnswerInStream`, `ToldIsPersisted`, `CompletedIsFinal`, `TypeOK` | 2 executions, 2 attempts; a death, a redelivery beside a live execution, a stage error, a full queue, a reload (5.5 million states) |
| `told` | `ChatRequest_told` | `OneEnqueue`, `EveryReaderIsTold` (liveness) | 2 POSTs, 1 execution at a time; a death, an escaped limit, one failure each of Redis, Postgres and the API process |
| `history` | `MCChatTail`, `ChatTail_history` | `TailInOrder`, `NewerTailKept`, `OwnQuestion`, `HistoryComplete` | 3 runs, tail of 3 messages; one failure each of Redis, the API process, a worker and a stage; expiry at any time |
| `agent` | `MCAgentLoop`, `AgentLoop_agent` | `OneLabel`, `CoveredIsRead`, `BackedByExcerpts`, `CallsWithinLimits`, `PromptsExtend`, `ConcludedFromRead`, `TypeOK` | 2 chunks, 2 keys (one without documents), 3 rounds, 2 models, deadline 8, reserve 1, a model call up to 2, 3 ways a search ends (624 thousand states) |
| `turns` | `MCClarification`, `Clarification_turns` | `PicksKept`, `ReplyIsHeeded`, `ScopeRespected` | 2 companies, an exact and a vague name, 1 question, 3 runs, 2 replies, 1 change of the corpus, cards above 1 company (1.3 million states) |
| `seeding` | `MCSeeding`, `Seeding_seeding` | `CorpusIsExact`, `SeedConverges` (liveness) | 1 listed and 1 unlisted document in any state a release finds, 2 workers, 2 faults, 6 restarts (77 thousand states) |
| `algorithms` | `MCAlgorithms`, `MCAlgorithms_algorithms` | `HonestSearch`, `AnswerIsExtreme`, `WrongScaleIsCaught`, `NothingMisplaced`, `StatusIsHonest`, `AnswersStayWithTheirOwn`, `ExchangeIsWhole`, `WindowAdvances` | rankings of 2 chunks, 2 figures, 4 chunks, 4 headers, files of 3 pages, 3 pictures, 5 tables, all texts of 4 tokens and nine of up to 12, chains of 2 models, 2 agent turns, 4 messages (538 thousand inputs) |
| `ready_fails`, `followups` | `MCIngestion`, `MCAlgorithms` | one statement of a comment or document each | expected to be violated: section 5 |

**Why the bounds are enough.** Two executions are needed for a race about the
lease or the stream and a third to arrive after both; two attempts reach the
resume path, the purge of an earlier generation and the cap. One retry level
shows a message that comes back and one that does not. A fault budget of one
per kind lets every pair of *different* faults meet in any order; `failures`
and `deletes` divide the faults between them because the product is too
large for one run. Three runs and a tail of three in `ChatTail` reach trimming
(a question, an answer and a third message already fill it), overtaking by two
others, and a card with two replies. Messages per retry level are capped by
`MaxMessages` only at `ReapEnqueue`; the other sources of messages are bounded
by the tasks and faults themselves.

Two searches of one turn that return the same chunk are enough for a label to be
given twice or lost, three rounds for a plan to open, be searched and be judged
a round later, and a deadline of 8 lets it strike in each wait of each round
while a shorter run still ends on its own. In `Clarification` two replies race
for one card and the third run answers the later one; one change of the corpus
falls between any two steps. A corpus of one listed and one unlisted document
gives the seeder something to keep, to make again and to take away, and six
restarts are the chart's. The texts of `algorithms` hold every token of the
grammar in every order up to four, and the longer ones nest, repeat and join
marks; four chunks are two groups with an undersized remainder on either side.

**Deadlock** is not checked (`CHECK_DEADLOCK FALSE`): each model ends, when the
document is settled, the request told, the run over, or the input judged.

**Fairness.** `WorkersRun` and `Fairness` are weak fairness of the workers'
consumption of the queue (one for the queue, not one for each message), of each
execution's own steps, of index threads, of key expiry and of requests once
accepted: Celery, the event loop, the thread pool and Redis give these.
`SomebodyLooks` assumes that some client goes on reading the document list:
the reaper has no scheduler, and the claim it makes is conditional on that. The
chat reader's fairness is the SSE loop, which polls until it ends. Nothing is
assumed fair about faults, about a first POST, or about an upload.
`MarkerExpires` is free only when no enqueue is in flight, which is what the
marker's TTL against an empty queue amounts to; a backlog longer than the TTL
is a fault (`"backlog"`). `Seeding` assumes that the Job takes its steps, that
Kubernetes starts it again, that the broker delivers, workers work, leases
expire and waits end; a restart that does not wait for deliveries in flight, and
a wait that runs out while work goes on, each count as a fault. The agent loop
and `Clarification` have safety properties only.

**Exceptions written into the properties.** `SoleOwner` and what follows from
it hold until a live task lost its key or claimed while Redis was down
(`"breach"`): the code chooses availability there (`tasks.py:220-229`).
`OwnerSeesProcessing` leaves out failed transactions, since the handler writes
`failed` for an error that came before the claim. `ReadyIsSearchable` leaves
out index calls that land after their task stopped waiting, two owners at once
and failed deletes; `DeletedLeavesNothing` leaves out deletes that overlap a
task (`docs/prod_docs/ingestion.md`, section 9, admits these). The chat
safety properties, where they say `Calm`, leave out executions that run beside
a redelivery and failures of Redis and Postgres; section 5 lists what happens
then. `OwnQuestion` leaves out runs that another run was posted or answered
beside, and questions that cards pushed out of the window; `HistoryComplete`
leaves out overlapping runs and runs that ended without their message
in the tail. `CoveredIsRead` speaks of runs that stop as covered: the other
stops may leave excerpts unread, which is what they are for. `ReplyIsHeeded`
names the five ways in which a name that was answered may be asked again
(a later reply, a company that went away, an unsaid "outside the scope", a
company of exactly that name, every name skipped). `CorpusIsExact` leaves out
documents that a delivery worked on between the plan and their purge or while
their upload failed.
`StatusIsHonest` excepts a garbled document whose OCR finds no text, and
`ExchangeIsWhole` the streams of Gemini, which have no terminal event; both are
told in section 5.

**Mutants.** Each property of each passing run has a mutant of the code (a
definition such as `ClaimBlind`, beside the one it replaces, marked "Mutant")
under which TLC finds it violated.

## 4. What is proved

For every number of executions, readers, POSTs, runs, documents and replies,
every cap and every budget of faults, from the assumptions the modules name:
caps and bounds are naturals, the caps on attempts and the length of the tail
are not zero, a budget is a natural for each kind of fault, the values that mean
"none" are none of the others, a name exactly matches only companies it matches
at all, the two manifests are finite and disjoint, and a search of the agent
returns a list of chunks, or fails, and says which of its parts were missing.

For the algorithms: the scales of two units differ by a factor of two or more
(they are 1, a thousand, a million and a billion), a batch and a number of
attempts are not zero, weights and limits are naturals, and what stands for a
missing unit, rate, answer or ranking is none of the things it stands for.
`AnyHonestSearch` also assumes `Keeping`: fusion and reranking keep at least one
chunk and the keyword index has a weight, as `config.py` sets them; with a limit
of zero every search would be empty. `AnyAnswersStay` takes pictures that
differ in their references (Docling's `self_ref`, a path with a number).
`AnyNothingMisplaced` takes documents in which each chunk has a placeholder for
each of its pictures (the code warns of a chunk that has not: "substitution will
misalign"), headings that are told from words and from the names of pictures, so
that a text without its headings can be spoken of, and headers that Docling gives
the first level, as `_nest_header_runs` says it does; of runs it speaks, as the
property does, up to `_MAX_RUN_DEPTH` and without a repeated header.
`ImageAssumption` says that the placeholder is no word of the run's documents.

| Theorem | Module | Says |
|---|---|---|
| `TypeCorrect` | `IngestionProofs` | `Spec => []TypeOK` |
| `OneOwner` | `IngestionProofs` | `Spec => []SoleOwner` |
| `LeaseUntouched` | `IngestionProofs` | `Spec => OthersLeaseUntouched` |
| `AttemptsCapped` | `IngestionProofs` | `Spec => []AttemptCap` |
| `RowFollowsOwner` | `IngestionProofs` | `Spec => []OwnerSeesProcessing` |
| `Implements` | `IngestionProofs` | `Spec => ImplementsLifecycle` |
| `ReadySearchable` | `IngestionProofs` | `Spec => []ReadyIsSearchable` |
| `DeletedForGood` | `IngestionProofs` | `Spec => []DeletedLeavesNothing` |
| `TypeCorrect` | `ChatRequestProofs` | `Spec => []TypeOK` |
| `EnqueuedOnce` | `ChatRequestProofs` | `Spec => []OneEnqueue` |
| `BilledAtMost` | `ChatRequestProofs` | `Spec => []BilledCap` |
| `CompletedStays` | `ChatRequestProofs` | `Spec => CompletedIsFinal` |
| `ToldTruth` | `ChatRequestProofs` | `Spec => []ToldIsPersisted` |
| `OneAnswer` | `ChatRequestProofs` | `Spec => []OneAnswerInStream` |
| `TailNeverOlder` | `ChatTailProofs` | `Spec => NewerTailKept` |
| `TailListed` | `ChatTailProofs` | `Spec => []TailInOrder` |
| `OwnLast` | `ChatTailProofs` | `Spec => []OwnQuestion` |
| `NothingMissing` | `ChatTailProofs` | `Spec => []HistoryComplete` |
| `Ranged` | `AgentLoopProofs` | `Spec => []TypeOK` |
| `WithinLimits` | `AgentLoopProofs` | `Spec => CallsWithinLimits` |
| `PromptsOnlyGrow` | `AgentLoopProofs` | `Spec => PromptsExtend` |
| `LabelsAreUnique` | `AgentLoopProofs` | `Spec => []OneLabel` |
| `CoveredWasRead` | `AgentLoopProofs` | `Spec => []CoveredIsRead` |
| `FindingsAreBacked` | `AgentLoopProofs` | `Spec => []BackedByExcerpts` |
| `FindingsRestOnPrompts` | `AgentLoopProofs` | `Spec => ConcludedFromRead` |
| `Picks` | `ClarificationProofs` | `Spec => []PicksKept` |
| `Heeded` | `ClarificationProofs` | `Spec => []ReplyIsHeeded` |
| `Respected` | `ClarificationProofs` | `Spec => []ScopeRespected` |
| `Exact` | `SeedingProofs` | `Spec => []CorpusIsExact` |
| `AnyStatusIsHonest` | `AlgorithmProofs` | `StatusIsHonest` of every PDF, whatever the two conversions do |
| `AnyWrongScaleIsCaught` | `AlgorithmProofs` | `WrongScaleIsCaught` for every value and unit |
| `AnyAnswerIsExtreme` | `AlgorithmProofs` | `AnswerIsExtreme` for any findings, amounts and rates |
| `AnyHonestSearch` | `AlgorithmProofs` | `HonestSearch` for rankings of any length |
| `AnyWindowAdvances` | `AlgorithmProofs` | `WindowAdvances` for messages of any number and size, and any budget |
| `AnyAnswersStay` | `AlgorithmProofs` | `AnswersStayWithTheirOwn` for pictures, tables and replies of any number |
| `AnyNothingMisplaced` | `AlgorithmProofs` | `NothingMisplaced` for documents of any number of chunks, pictures and headers |

A theorem of `AlgorithmProofs` has two parts. The first says that the property
holds of every input of its kind (`AnyParse`, `AnySearch`, ...): the sizes,
numbers and values that bound the run are gone. The second is
`Spec => []Property`, which follows because each input the run enumerates is one
of these.

### The arguments

`Ingestion`:

- *Ownership.* That two tasks are not both owners now says nothing about the
  next claim. `OwnersHold` (whoever is past the claim still has the key in
  Redis, and knows it) is inductive: a claim only succeeds without a key, and a
  key goes only when its task has left, when its task releases it, or by the
  two breaches. Steps fall into four shapes (`Moves`, `Quiet`, `Leaves`, and
  the claims), so that every action is looked at once, in the lemmas that
  sort them.
- *Attempts* need no lease. `Counted` relates the row's counter to what tasks
  were given: `started <= attempts`, and no task has an attempt above the
  counter unless the row is gone. `NothingYet` says that a row is created only
  where nothing has run, so no old task can meet a counter that starts again.
- *Status.* `RowSays` extends `OwnerSeesProcessing` to the exception handler;
  `HandlersHold` says that a task in the handler still has its lease (without
  database errors). A writer therefore owns the document, and no other task
  is in the pipeline to see what it writes.
- *Refinement.* `NotEnqueued` (nothing runs between the row's creation and its
  message) makes create and withdraw steps of the life cycle; `RowSays` makes
  every settling write one over `processing`; `OthersLeaveRow` shows that all
  other steps stutter or delete. The abstract `owned` is "no breach and no
  failed transaction", which never comes back once lost.
- *Indexes.* `Indexed` reads off a task's stage what it has done to the indexes
  (`Done`), under `OwnersHold`, so that one task at most has done anything. The
  step that needs an argument is the skipped purge of a first attempt: no
  earlier attempt was counted (`Counted`), so nobody has written
  (`AttemptKnown`, `Unborn`). `CallsFit` ties each index call in a thread to the
  task that awaits it, or to one that has stopped waiting, which is the named
  exception.
- *Deletes.* `Deleted` says, from the first call of an undisturbed delete on,
  that nobody works on the document and which of its stores are empty already;
  after the rows went no task can claim.

`ChatRequest`:

- *One enqueue.* `OneSender`: whoever is about to enqueue is the only one, comes
  after the row exists and before anything was enqueued. The unique index on
  `client_request_id` gives that to one POST, and nothing takes the row away.
- *Billing cap.* `Accounts`: an execution that counted and has not committed has
  the row locked (`Holding` lists those stages) and its attempt is the
  counter's next value. So no two executions commit the same attempt, and each
  billed one is covered by a committed attempt: `billed <= attempts`. No lease
  or queue is needed, and redeliveries may run beside live executions.
- *Completed is final.* `Alone` (without a redelivery beside a live execution one
  is under way at most) and `Rests`: over a completed row nobody is at a stage
  that writes, and without a failing stage nobody is in a handler.
- *Told.* `Told` extends `ToldIsPersisted` to the time between an event and its
  commit: once `usage` is in the stream the answer is committed and nobody is at
  work, or its execution is about to commit. The short paths, which emit before
  they commit, are the reason for its second half.
- *One answer.* `OneWriter`: an execution that may still write finds no delta in
  the stream, because a delta there means a committed attempt and the next
  execution clears the stream for that.

`ChatTail`:

- *In order.* `Placed` (a run has a placeholder of its own after its question, and
  it says `pending` until the run ends it) makes the table grow only: no message
  becomes a question or ceases to be one (`Grown`). `Ordered` then carries over
  each step of the table, and the two scripts and the query keep it
  (`AppendedListed`, `RecentFacts`), by lemmas on rising sequences and on the
  numbering of a set by its size (`InOrderFacts`).
- *Never older.* `TailMove` lists how a tail is replaced; both scripts compare and
  write in one step.
- *Own question.* The question a run asks need not stay in the tail: appends trim
  it. `Asking` speaks of the *open* question only, the newest that nobody has
  answered and that is within the window: whoever is past it (tail or reader)
  holds it. An append can only be of the open question itself, since what is
  appended later is a newer question or an answer.
- *Whole history.* Without mishaps one run is under way (`Alone`) and what the
  tail lacks is what that run has still to bring (`Whole`): its question until it
  has read a history that includes it, its answer once it is committed. Trimming
  keeps the window because the seqs of a rising sequence are at least as far
  apart as their places (`Spread`).

`AgentLoop`:

- *Limits.* `Limited` ties the cost to the rounds: a run pays once a round, and no
  round begins over the budget. A call's time is at most `left - Reserve`, computed
  anew for each model.
- *Prompts.* `Carried`: the last prompt is how the transcript begins, and a round
  begins with a message no prompt has carried, so that the status view, which is
  written into the last message, changes nothing that was sent. `Paired`: but for
  the turn in hand, every call has its results.
- *Ledgers.* `Sound` says of the whole ledger what holds between turns: a chunk has
  one label, labels are on admitted chunks, findings on labelled ones, a claim on
  at least one, and only planned keys were tried. That a claim cites something is
  stored with it and follows from nothing else, hence the invariant behind
  `BackedByExcerpts`.
- *Folds.* A turn's reports, its searches and the chunks of each search are folded
  by recursive functions. `Upwards` carries a set over the steps of a fold (from
  the least number, since the induction theorems cannot be used), and `Chain`
  shows that the function exists. The set is what one step keeps: `Sound`, with
  `Judged` (a report changes entries only, by what the ledger shows and has
  searched) or `Searched` (a search changes entries only where no document is).
- *Read.* `sent.labels` counts the ledger's labels from the prompt to the turn, and
  `facts.new` what the turn added: covered with nothing new is covered with
  everything sent.

`Clarification`: `Shaped` are the types; `Faithful` says of the bindings that they
are the newest picks (`Follows`), and of each run that what it read were picks,
those of its reply or newer ones (`Traced`, `Informed`), how each of its names was
resolved given these (`Heard`), and that its universe and its documents lie in
the scope (`Within`). Questions and replies are only added to, so that what is
`Sound` for a run stays so as they grow. `Heeds` is `ReplyIsHeeded` for one run.

`Seeding`: a task holds the lease of its document, which is not ready (`Leased`);
a document without a row has no files (`Rowless`); the plan holds what is still
to do (`Planned`); and a document that no delivery outlived (`Cleaned`) has an
index that fits the step of the one task on it.

`AlgorithmProofs`: no state carries over from one input to the next, so there is
no inductive invariant but the kind of the input; the argument is about data.

- *Induction.* A loop of the code is a function that is defined from its value one
  step before. `Chain` shows that the function exists, `Upwards` goes along it
  from the least number, and what one step keeps is a set.
- *Sorting* is by counting (`Sorted`): under a strict order no two elements have
  the same number before them, so that every place is taken once
  (`SortedFacts`) and what a cut keeps comes before what it drops.
- *Search.* A rank is the first place of a chunk; the scores of two chunks
  compare as their ranks do where both lists, or only one, hold them. Each pass
  then either keeps a chunk of what it was given or had nothing.
- *Comparison.* The figure picked is least or greatest by a key, and the key is
  its worth (`KeyIsWorth`): amounts are scaled and converted to integers before
  they are compared, or all have one currency.
- *Window.* Costs only grow to the left, so that the turns that fit are an end
  of the list; the first of them moves forward as turns are added; a boundary
  of blocks between two positions is one of the later list too
  (`BoundaryFacts`, on division). Turns of a longer history continue those of the
  shorter one because a pair is settled as soon as a question follows it
  (`StaySettled`).
- *Answers.* Batches cut a list and joined give the list back (`BatchFacts`,
  `FlattenFacts`). A reply is matched by the numbers it names, which are places
  in what was sent, and a retry keeps what was written before.
- *Merging.* What is kept of a chunk (pieces, items, text) is a function of it that
  goes with merging (`Additive`), and a pass only merges neighbours, so that what
  such a function gives of the finished chunks and the rest together (`AllOf`)
  stays the same (`PassKeepsAll`). That no two neighbours could have been one
  (`Apart`) is kept because a chunk that has grown fits less (`CouldBefore`).
  Every pass takes something off the rest, so that as many as there are chunks
  leave none (`PassShortens`).
- *Placeholders.* A text is filled word by word, the n-th placeholder by the n-th
  reference. The placeholders of two texts are those of one and those of the
  other (`HolesJoined`), so that a text goes on where the one before it ended
  (`SubstituteOn`). In a chunk with a placeholder for each picture it ends with
  the chunk's last picture (`SubstituteOwn`), and merged chunks have one for each
  again (`MergeHolds`): the text stored for a group is those of its parts. The
  embedded text differs from it in headings only (`BodyIsRaw`).
- *Headers.* Where the last run starts no earlier header is known any more
  (`RunStarts`), within it each header goes right below the one before it
  (`RunNests`), and of the first places of a list all are picked (`PickedAll`).

### What proving changed

- The invariant of `Seeding` was not inductive: a delivery may start on a row
  whose PDF is still being sent, and the failed upload then purges under it. With
  the two faults of the run TLC does not get there; `raced` now names the case,
  and section 5 tells it.
- An empty manifest lets a run exit 0 with nothing offered; the properties of
  `Seeding` now tell the two apart.
- `OwnQuestion` was false for four runs, one more than TLC takes: section 5 tells
  the case, and `crossed` now names it.
- In `AgentLoop` the folds were `FoldLeft` and are recursive functions now; minting
  and the fallback excerpts are sets, the labels one sequence instead of one for
  each search, and the results of a search the constant `Found`. The reachable
  states are as many as before.
- Sequences that were filtered (`SelectSeq`) are written as numbered sets in
  `ChatTail` and as sets in `Clarification`.
- In the algorithms, recursion and folds are recursive functions, and sorting and
  filtering (`SetToSortSeq`, `SelectSeq`) go through `Orders`. Placeholders are
  counted (`Holes`) instead of consumed. The run still looks at every input it
  looked at before.
- `WrongScaleIsCaught` is false for units whose scales are closer than a factor of
  two, because the tolerance is relative: `UnitAssumption` says what the units of
  the code give.
- A limit of pages that is 0 means none: `StatusIsHonest` forgot it, and is false
  for such a configuration without the case.
- Three properties said less than they seemed to. `AnswerIsExtreme` now says that
  figures ranked without conversion have one currency; `HonestSearch`, that what
  is served without reranking has rows; `AnswersStayWithTheirOwn` takes the rows
  of the tables from the input, not from a constant of the run.

### Only model-checked

- Liveness (`Recovers`, `EveryReaderIsTold`, `SeedConverges`) is out of the
  prover's reach.
- `ExchangeIsWhole` compares parsers that go through a stream in pieces with a
  reference that looks at the text whole. It needs an induction over texts and
  their cuts, with an invariant for every state of the parsers, and TLC covers all
  short texts.
- All other safety properties of all runs are proved.

## 5. Where the code and its documents disagree

Each of these has a run whose counterexample shows it (`findings` in
`PROJECT.json` quotes the line).

| Run | The code | The text |
|---|---|---|
| `ready_fails` | tests `ready`, awaits the claim and does not test again: a late delivery marks a ready document `failed` | `services/ingestion/tasks.py:556-560` |
| `followups` | a scope is resolved for retrieval routes only, so a direct answer compares the documents of the carried findings with none and drops them whenever the earlier turn had narrowed its documents | `docs/prod_docs/agent_design.md:2321`, 2326-2329 |

Others met while modelling, present in the models and excluded by name from the
properties, without a run of their own:

- `failed` is called final (`ingestion.md`, 4.2 and section 9), but a delivery
  that passed the guard earlier claims a failed row and may make it ready.
- A failed delete may have emptied one index although the client is told that
  nothing was deleted (`README.md:159`, `purge.py:31`).
- The "slow path" under the reaper (`recovery.py`, `reap_abandoned`) is gone once a
  redelivery met the dead worker's lease: being refused, it is acknowledged.
- A `KeyError` or `IndexError` of any stage is a `LookupError`: it skips
  `set_failed` and is retried as a missing row.
- The reap marker survives deliveries that are refused or find the row ready.
- A refusal killed before its commit loses its attempt with it; the redelivery
  counts attempt 1, does not clear the stream and appends a second refusal
  (`services/chat/tasks.py:717` against the comment at 615-617).
- A Redis or stage error after the commit of `completed` writes `failed` over it
  (`services/chat/tasks.py:1696`).
- The short paths emit `usage` before their commit (`services/chat/tasks.py:747`
  and 963): a commit that fails follows an answer the reader was told is persisted.
- Two concurrent replies to one card both pass its checks. The first one's answer
  then carries the tail past the question the card was about, which a slow reader
  may have left out of it: the second run uses a tail that does not hold its
  question ("The tail is used when its latest_seq is at least the request's
  snapshot_seq, meaning it already holds the question", `chat_pipeline.md:150`).
  So does a question whose `append_user` was overtaken by a later question's.
- A lost `append_assistant` leaves a hole in the tail until the tail expires.
- A cancelled task's delete thread runs on and lands under the new owner
  (against `services/ingestion/tasks.py:174-176`).
- Killed between claim and commit, the row stays `pending`: the redelivery is
  refused and acknowledged, and no reader reaps `pending` (`ingestion.md:804`).
- Killed between the final commit and `usage`: nothing is ever emitted again, and
  the reader of a completed request waits for ever (`chat_pipeline.md:613`).
- Died between commit and `delay()`: the retried POST returns the ids of a request
  nobody runs (`chat_pipeline.md:662`).
- The cached tail is used without `before_seq`: of two overlapping questions both
  runs answer the second (`chat_pipeline.md:155`).

In the seeder:

- "`ingest_attempt_count` is never reset" (`services/ingestion/tasks.py:855`) is
  not so: the seeder purges and creates under the same id. A first attempt then
  skips its own purge, and what an old task indexed in between stays: a run can
  exit 0 with a document that is ready and chunks that have no rows.
- An upload that fails deletes the row it had just created. A delivery of the
  document's earlier life that has claimed this row by then goes on without it and
  may index chunks that have no rows.
- With two faults it converges within its seven runs. With three it need not: a
  kill, a crash between marker and `delay()` and another crash leave a marker
  that outlives four waits. Restarts that do not wait for deliveries in flight
  can use the runs up by races alone.

In the agent and what it is given:

- "A minted one exists because a search named it" (of the unresolved lines) fails
  when the deadline strikes during the searches: the key is there and no search
  ended.
- The banner of `search_unavailable` says that every search failed; the verdict
  looked at the last turn's.
- An absence may be recorded after searches that all erred.
- A reranker without texts, or switched off, returns more than its `top_k`; of
  its answer only the number of indices is compared.
- With the currency normalizer switched off a comparison across currencies ranks
  the amounts as they are, under a note that says USD. A comparison that was
  given up skips the grounding of its numbers.
- `verify_value`: "a wrong unit cannot confirm itself" is false for numbers in
  full (`WrongScaleIsCaught` excepts that unit).
- A truncated answer of the history exceeds its cap by its marker, and the window
  "moves once every `step` turns" only until the tail is trimmed; the gap a
  refused question leaves may start it inside a block.

In streams and requests:

- Gemini's stream has no terminal check: cut, it passes for an answer, and with
  neither text nor usage the request gets no terminal event.
- `ThinkingStripper` misses a tag that is split between two chunks, and trims the
  newlines after a thought only within a chunk.
- `get_with_fallback` builds the fallback's adapter at once, so a fallback that is
  not configured fails requests to a healthy primary.
- The reasoning item of a call that was cut off is still replayed; the resend
  without replay heals it.

In parsing:

- Text that OCR read from a scan is not assessed for garbling, and an OCR fallback
  that finds no text at all is called `success_ocr_fallback`.
- A document with hardly any text that cannot be classified keeps `success`.
- The OCR converter stays in memory when the second conversion raises.

In routers: login and `create_conversation` answer before their commit, which the
session's dependency makes afterwards.

## 6. What is not modelled

- *Inside the modelled components*: stage and activity events, metrics, traces,
  titles, stream TTLs, rate limits, deletion of a conversation under a run, a
  question re-sent with the same `client_msg_id` under a new request id, cached
  tails that do not decode, the ingestion event stream.
- *Inside the answering models*: the wording of prompts and tools, tracing,
  prices, periods and document types of a question, how a company name is
  matched, the regular expressions that find numbers, white space in marks,
  provenance boxes and snippets, request parameters and structured output, the
  fake adapter, Docling itself, and the measures of text and images.
- *Authentication and sessions, conversations, feedback, samples and models
  routers*: checks and writes of one row each, with nothing two actors share.
  Refreshing a session mints an access token and rotates nothing.
- *Rate limits and admission*: an `INCR` with an expiry and a read of a queue's
  length, each one call; what a refusal does is in `ChatRequest`.
- *The ingestion event stream*: it repeats to a browser what the row says, and
  its poll is the reader of `Ingestion`.
- *The injection detector*: patterns and scores over one text; what follows from
  a verdict is in `ChatRequest`, `AgentLoop` and `History`.
- *Observability, offline evaluation, the web UI, configuration*: no state another
  part depends on.
- A question that meets the unique constraint on `seq` is a failed POST; `ChatTail`
  takes the constraint for granted, `Clarification` has the loser's step.

## 7. Plan

What is left to prove is `ExchangeIsWhole`: the part about requests and their
resends first, then the parser of streams, with the lemmas on flattening and on
recursive functions of `AlgorithmProofs`. Liveness stays with TLC.
