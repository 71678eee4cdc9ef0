------------------------------- MODULE Seeding -------------------------------
(***************************************************************************)
(* The seeding of the sample corpus: a Job reconciles the demo user's      *)
(* documents with the manifest, hands them to the ingestion workers and    *)
(* waits until they are ready.  It exits 1 when one fails or time runs     *)
(* out, and Kubernetes starts it again.                                    *)
(*                                                                         *)
(* A document is created again under the id it had, so a delivery of its   *)
(* earlier life may still be at work.  The ingestion task is the one of    *)
(* module Ingestion in four steps, without the loss of a lease in use.     *)
(***************************************************************************)
EXTENDS Integers, FiniteSets

CONSTANTS
  Listed,                 \* the documents of the manifest
  Unlisted,               \* documents of an earlier manifest
  Worker,
  Absent,                 \* instead of a row
  Idle,                   \* instead of a task
  NoOne,                  \* instead of the owner of a lease
  Dead,                   \* instead of an owner that was killed
  MaxAttempts,
  BackoffLimit,           \* how often the Job is started again
  MarkerRuns,             \* how many waits of a run a reap marker outlives
  MaxFaults               \* bound: crashes, kills, failures and slow runs

Doc == Listed \cup Unlisted
Status == {"pending", "processing", "ready", "failed"}
Stage == {"fetch", "persist", "index", "finish"}

ASSUME DocAssumption == Listed \cap Unlisted = {} /\ IsFiniteSet(Doc)
ASSUME WorkerAssumption == NoOne \notin Worker /\ Dead \notin Worker
ASSUME NameAssumption ==
  /\ Absent \notin [status : Status, attempts : Nat]
  /\ Idle \notin [doc : Doc, step : Stage, attempt : Nat, own : BOOLEAN]
ASSUME BoundAssumption ==
  /\ MaxAttempts \in Nat \ {0} /\ BackoffLimit \in Nat
  /\ MarkerRuns \in Nat /\ MaxFaults \in Nat

VARIABLES
  row,                    \* [status, attempts] of each document, or Absent
  file,                   \* documents whose PDF is in the store
  stored,                 \* documents that have chunk rows
  index,                  \* of each: "current" chunks have a row, "stale" ones none
  queue,                  \* deliveries of each document in the broker
  lease, marker,          \* its owner; for how many waits its reap marker lives
  task,                   \* [doc, step, attempt, own] of each worker, or Idle
  seeder,                 \* the plan of the run, and how far it is
  runs, faults,
  raced                   \* history: documents deleted though a delivery had them

store == <<row, file, stored, index>>
broker == <<queue, lease, marker>>
vars == <<row, file, stored, index, queue, lease, marker, task, seeder, runs, faults, raced>>

Plan(phase) ==
  [phase |-> phase, doc |-> Absent, purge |-> {}, create |-> {}, enqueue |-> {},
   processing |-> {}]

Row(status, attempts) == [status |-> status, attempts |-> attempts]
Has(d, status) == row[d] # Absent /\ row[d].status = status
AllReady == \A d \in Listed : Has(d, "ready")
Condemned == seeder.purge \cup (IF seeder.phase = "rows" THEN {seeder.doc} ELSE {})
Running(d) == {w \in Worker : task[w] # Idle /\ task[w].doc = d}
InFlight == \E d \in Doc : queue[d] > 0 \/ Running(d) # {}

\* What a release finds: a document is there or not, and if it is, it is done
\* with or was left waiting, for a delivery or for none.
Init ==
  /\ row \in [Doc -> {Absent, Row("ready", 1), Row("failed", 1), Row("pending", 0)}]
  /\ file = {d \in Doc : row[d] # Absent /\ row[d].status # "failed"}
  /\ stored = {d \in Doc : Has(d, "ready")}
  /\ index = [d \in Doc |-> IF d \in stored THEN {"current"} ELSE {}]
  /\ queue \in [Doc -> 0..1] /\ \A d \in Doc : queue[d] = 1 => Has(d, "pending")
  /\ lease = [d \in Doc |-> NoOne] /\ marker = [d \in Doc |-> 0]
  /\ task = [w \in Worker |-> Idle]
  /\ seeder = Plan("off")
  /\ runs = 0 /\ faults = 0 /\ raced = {}

Fault == faults < MaxFaults /\ faults' = faults + 1
-----------------------------------------------------------------------------
(* The ingestion task.                                                     *)

SetStatus(d, status) ==
  row' = IF row[d] = Absent THEN row ELSE [row EXCEPT ![d].status = status]
Release(w) ==
  /\ task' = [task EXCEPT ![w] = Idle]
  /\ lease' = [lease EXCEPT ![task[w].doc] = NoOne]
Taken(d) == queue' = [queue EXCEPT ![d] = @ - 1]
At(w, step) == task[w] # Idle /\ task[w].step = step
Step(w, step) == task' = [task EXCEPT ![w].step = step]

\* A delivery whose row is gone is tried again, and after ten times dropped.
Drop(d) ==
  /\ queue[d] > 0 /\ row[d] = Absent
  /\ Taken(d)
  /\ UNCHANGED <<store, lease, marker, task, seeder, runs, faults, raced>>

Refuse(d) ==
  /\ queue[d] > 0 /\ row[d] # Absent
  /\ Has(d, "ready") \/ lease[d] # NoOne
  /\ Taken(d)
  /\ UNCHANGED <<store, lease, marker, task, seeder, runs, faults, raced>>

Claim(w, d) ==
  LET attempt == row[d].attempts + 1
  IN  /\ queue[d] > 0 /\ row[d] # Absent /\ ~Has(d, "ready") /\ lease[d] = NoOne
      /\ task[w] = Idle
      /\ Taken(d) /\ marker' = [marker EXCEPT ![d] = 0]
      /\ IF attempt > MaxAttempts
         THEN /\ row' = [row EXCEPT ![d] = Row("failed", attempt)]
              /\ UNCHANGED <<lease, task>>
         ELSE /\ row' = [row EXCEPT ![d] = Row("processing", attempt)]
              /\ lease' = [lease EXCEPT ![d] = w]
              /\ task' = [task EXCEPT ![w] =
                            [doc |-> d, step |-> "fetch", attempt |-> attempt, own |-> FALSE]]
      /\ raced' = IF d \in Condemned THEN raced \cup {d} ELSE raced
      /\ UNCHANGED <<file, stored, index, seeder, runs, faults>>

Failed(w) ==
  /\ SetStatus(task[w].doc, "failed") /\ Release(w)
  /\ UNCHANGED <<file, stored, index, queue, marker, seeder, runs, raced>>

Fetch(w) ==
  /\ At(w, "fetch")
  /\ IF task[w].doc \in file
     THEN /\ Step(w, "persist")
          /\ UNCHANGED <<store, broker, seeder, runs, raced>>
     ELSE Failed(w)
  /\ UNCHANGED faults

\* The rows of this attempt replace the earlier ones, whose chunks may be in the
\* indexes.  Without a document the delivery is put back.
Persist(w) ==
  LET d == task[w].doc
  IN  /\ At(w, "persist")
      /\ IF row[d] = Absent
         THEN /\ Release(w) /\ queue' = [queue EXCEPT ![d] = @ + 1]
              /\ UNCHANGED <<store, marker>>
         ELSE /\ stored' = stored \cup {d}
              /\ index' = [index EXCEPT ![d] = IF @ = {} THEN {} ELSE {"stale"}]
              /\ task' = [v \in Worker |->
                            CASE v = w -> [task[w] EXCEPT !.step = "index", !.own = TRUE]
                              [] v # w /\ v \in Running(d) -> [task[v] EXCEPT !.own = FALSE]
                              [] OTHER -> task[v]]
              /\ UNCHANGED <<row, file, broker>>
      /\ UNCHANGED <<seeder, runs, faults, raced>>

\* Mutant: no attempt empties the indexes.
IndexOnTop(w) ==
  LET d == task[w].doc
  IN  /\ At(w, "index")
      /\ index' = [index EXCEPT ![d] = @ \cup {IF task[w].own THEN "current" ELSE "stale"}]
      /\ Step(w, "finish")
      /\ UNCHANGED <<row, file, stored, broker, seeder, runs, faults, raced>>

\* The first attempt takes the indexes for empty.
Index(w) ==
  LET d == task[w].doc
      left == IF task[w].attempt > 1 THEN {} ELSE index[d]
  IN  /\ At(w, "index")
      /\ index' = [index EXCEPT ![d] = left \cup {IF task[w].own THEN "current" ELSE "stale"}]
      /\ Step(w, "finish")
      /\ UNCHANGED <<row, file, stored, broker, seeder, runs, faults, raced>>

Finish(w) ==
  /\ At(w, "finish")
  /\ SetStatus(task[w].doc, "ready") /\ Release(w)
  /\ UNCHANGED <<file, stored, index, queue, marker, seeder, runs, faults, raced>>

\* A stage raises: the failure is written and the delivery acknowledged.
Raise(w) == task[w] # Idle /\ Fault /\ Failed(w)

\* Killed: the lease stays until it expires, the broker delivers again.
Kill(w) ==
  LET d == task[w].doc
  IN  /\ task[w] # Idle /\ Fault
      /\ task' = [task EXCEPT ![w] = Idle]
      /\ lease' = [lease EXCEPT ![d] = Dead]
      /\ queue' = [queue EXCEPT ![d] = @ + 1]
      /\ UNCHANGED <<store, marker, seeder, runs, raced>>

LeaseExpires(d) ==
  /\ lease[d] = Dead
  /\ lease' = [lease EXCEPT ![d] = NoOne]
  /\ UNCHANGED <<store, queue, marker, task, seeder, runs, faults, raced>>
-----------------------------------------------------------------------------
(* The run of the Job.                                                     *)

In(phase) == seeder.phase = phase

\* Mutant: a failed document is left as it is.
PlanKept(rows) ==
  LET owned == {d \in Doc : rows[d] # Absent}
      purge == owned \ Listed
  IN  [Plan("purge") EXCEPT !.purge = purge, !.create = Listed \ owned,
        !.enqueue = {d \in owned \ purge : rows[d].status = "pending"},
        !.processing = {d \in owned \ purge : rows[d].status = "processing"}]

PlanSeed(rows) ==
  LET owned == {d \in Doc : rows[d] # Absent}
      purge == {d \in owned : d \notin Listed \/ rows[d].status = "failed"}
      kept == owned \ purge
  IN  [Plan("purge") EXCEPT !.purge = purge, !.create = Listed \ kept,
        !.enqueue = {d \in kept : rows[d].status = "pending"},
        !.processing = {d \in kept : rows[d].status = "processing"}]

\* The Job backs off before it starts again; to start while deliveries of the
\* last run are still in flight counts as a fault.
Start ==
  /\ \/ In("off") /\ UNCHANGED faults
     \/ In("exit 1") /\ runs <= BackoffLimit
        /\ (IF InFlight THEN Fault ELSE UNCHANGED faults)
  /\ seeder' = PlanSeed(row) /\ runs' = runs + 1
  /\ UNCHANGED <<store, broker, task, raced>>

\* The next stage is reached when nothing is left for this one.
Turn(from, left, to) ==
  /\ In(from) /\ left = {}
  /\ seeder' = [seeder EXCEPT !.phase = to]
  /\ UNCHANGED <<store, broker, task, runs, faults, raced>>
Turns ==
  \/ Turn("purge", seeder.purge, "create") \/ Turn("create", seeder.create, "enqueue")
  \/ Turn("enqueue", seeder.enqueue, "reap") \/ Turn("reap", seeder.processing, "wait")

\* Both indexes first; then the objects, the chunk rows and the row.
PurgeIndexes(d) ==
  /\ In("purge") /\ d \in seeder.purge
  /\ index' = [index EXCEPT ![d] = {}]
  /\ seeder' = [seeder EXCEPT !.phase = "rows", !.doc = d, !.purge = @ \ {d}]
  /\ raced' = IF Running(d) # {} THEN raced \cup {d} ELSE raced
  /\ UNCHANGED <<row, file, stored, broker, task, runs, faults>>

PurgeRows ==
  LET d == seeder.doc
  IN  /\ In("rows")
      /\ row' = [row EXCEPT ![d] = Absent]
      /\ file' = file \ {d} /\ stored' = stored \ {d}
      /\ index' = [index EXCEPT ![d] = IF @ = {} THEN {} ELSE {"stale"}]
      /\ task' = [w \in Worker |-> IF w \in Running(d) THEN [task[w] EXCEPT !.own = FALSE]
                                   ELSE task[w]]
      /\ seeder' = [seeder EXCEPT !.phase = "purge", !.doc = Absent]
      /\ UNCHANGED <<broker, runs, faults, raced>>

\* The row is committed before the PDF is sent.
CreateRow(d) ==
  /\ In("create") /\ d \in seeder.create
  /\ row' = [row EXCEPT ![d] = Row("pending", 0)]
  /\ seeder' = [seeder EXCEPT !.phase = "upload", !.doc = d, !.create = @ \ {d}]
  /\ UNCHANGED <<file, stored, index, broker, task, runs, faults, raced>>

Upload ==
  /\ In("upload")
  /\ file' = file \cup {seeder.doc}
  /\ seeder' = [seeder EXCEPT !.phase = "create", !.doc = Absent,
                              !.enqueue = @ \cup {seeder.doc}]
  /\ UNCHANGED <<row, stored, index, broker, task, runs, faults, raced>>

\* Its row goes with an upload that fails, and the run ends.
UploadFails ==
  /\ In("upload") /\ Fault
  /\ row' = [row EXCEPT ![seeder.doc] = Absent]
  /\ stored' = stored \ {seeder.doc}
  /\ index' = [index EXCEPT ![seeder.doc] = IF @ = {} THEN {} ELSE {"stale"}]
  /\ task' = [w \in Worker |-> IF w \in Running(seeder.doc) THEN [task[w] EXCEPT !.own = FALSE]
                               ELSE task[w]]
  /\ seeder' = Plan("exit 1")
  /\ raced' = IF Running(seeder.doc) # {} THEN raced \cup {seeder.doc} ELSE raced
  /\ UNCHANGED <<file, broker, runs>>

Enqueue(d) ==
  /\ In("enqueue") /\ d \in seeder.enqueue
  /\ queue' = [queue EXCEPT ![d] = @ + 1]
  /\ seeder' = [seeder EXCEPT !.enqueue = @ \ {d}]
  /\ UNCHANGED <<store, lease, marker, task, runs, faults, raced>>

\* Of the documents that were processing when the run read them, those that
\* nobody owns are marked, unless they are, and then enqueued.
Mark(d) ==
  /\ In("reap") /\ d \in seeder.processing
  /\ IF lease[d] = NoOne /\ marker[d] = 0
     THEN /\ marker' = [marker EXCEPT ![d] = MarkerRuns]
          /\ seeder' = [seeder EXCEPT !.phase = "send", !.doc = d, !.processing = @ \ {d}]
     ELSE /\ seeder' = [seeder EXCEPT !.processing = @ \ {d}]
          /\ UNCHANGED marker
  /\ UNCHANGED <<store, queue, lease, task, runs, faults, raced>>

Send ==
  /\ In("send")
  /\ queue' = [queue EXCEPT ![seeder.doc] = @ + 1]
  /\ seeder' = [seeder EXCEPT !.phase = "reap", !.doc = Absent]
  /\ UNCHANGED <<store, lease, marker, task, runs, faults, raced>>

\* A broker that refuses takes the marker with it; the run goes on.
SendFails ==
  /\ In("send") /\ Fault
  /\ marker' = [marker EXCEPT ![seeder.doc] = 0]
  /\ seeder' = [seeder EXCEPT !.phase = "reap", !.doc = Absent]
  /\ UNCHANGED <<store, queue, lease, task, runs, raced>>

Wait ==
  /\ In("wait")
  /\ \/ /\ \E d \in Listed : row[d] = Absent \/ Has(d, "failed")
        /\ seeder' = Plan("exit 1")
     \/ AllReady /\ seeder' = Plan("exit 0")
  /\ UNCHANGED <<store, broker, task, runs, faults, raced>>

\* A wait is longer than the life of a lease and a part of that of a marker.  It
\* may run out while work goes on, which counts as a fault: it was slow.
TimedOut ==
  /\ In("wait") /\ ~AllReady
  /\ IF InFlight THEN Fault ELSE UNCHANGED faults
  /\ lease' = [d \in Doc |-> IF lease[d] = Dead THEN NoOne ELSE lease[d]]
  /\ marker' = [d \in Doc |-> IF marker[d] = 0 THEN 0 ELSE marker[d] - 1]
  /\ seeder' = Plan("exit 1")
  /\ UNCHANGED <<store, queue, task, runs, raced>>

\* The process dies, or what it calls raises.
Crash ==
  /\ seeder.phase \notin {"off", "exit 0", "exit 1"} /\ Fault
  /\ seeder' = Plan("exit 1")
  /\ UNCHANGED <<store, broker, task, runs, raced>>
-----------------------------------------------------------------------------
Work(w) == Fetch(w) \/ Persist(w) \/ Index(w) \/ Finish(w)
Deliver(d) == Drop(d) \/ Refuse(d) \/ \E w \in Worker : Claim(w, d)
Advance ==
  \/ Start \/ Turns \/ PurgeRows \/ Upload \/ Send \/ Wait
  \/ \E d \in Doc : PurgeIndexes(d) \/ CreateRow(d) \/ Enqueue(d) \/ Mark(d)

Next ==
  \/ Advance \/ UploadFails \/ SendFails \/ TimedOut \/ Crash
  \/ \E w \in Worker : Work(w) \/ Raise(w) \/ Kill(w)
  \/ \E d \in Doc : Deliver(d) \/ LeaseExpires(d)

\* Kubernetes starts the Job again, the broker delivers, workers work, keys
\* expire and a wait ends.
Fairness ==
  /\ WF_vars(Advance) /\ WF_vars(TimedOut)
  /\ \A w \in Worker : WF_vars(Work(w))
  /\ \A d \in Doc : WF_vars(Deliver(d)) /\ WF_vars(LeaseExpires(d))

Spec == Init /\ [][Next]_vars /\ Fairness
-----------------------------------------------------------------------------
\* The samples a user is offered: the API looks at the rows only.
Offered == Listed # {} /\ AllReady

Searchable(d) == d \in stored /\ index[d] = {"current"}

\* CorpusIsExact: whenever the samples are offered, each of their documents is
\* in the indexes once, as its rows have it; after a run that ended well they
\* are all ready and nothing is left of the others, in no store.  This is so of
\* every document that no delivery worked on from the plan to its purge, nor
\* while its upload failed (seed.py, samples.py).
CorpusIsExact ==
  /\ Offered => \A d \in Listed \ raced : Searchable(d)
  /\ In("exit 0") => /\ AllReady
                     /\ \A d \in Unlisted : row[d] = Absent /\ d \notin stored \cup file
                     /\ \A d \in Unlisted \ raced : index[d] = {}

\* SeedConverges: with no more than MaxFaults faults, wherever they strike, the
\* Job ends well within the restarts it has (seed.py, its docstring; the chart's
\* seed-sample-job.yaml).
SeedConverges == <>[](In("exit 0") /\ AllReady)
=============================================================================
