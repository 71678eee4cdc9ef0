----------------------------- MODULE SeedingProofs -----------------------------
(***************************************************************************)
(* Theorem about Seeding, for any manifests, workers, attempts, restarts   *)
(* and number of faults: CorpusIsExact.                                    *)
(***************************************************************************)
EXTENDS Seeding, TLAPS

Phase == {"off", "purge", "rows", "create", "upload", "enqueue", "reap", "send",
          "wait", "exit 0", "exit 1"}
Rows == [status : Status, attempts : Nat]
Seeders == [phase : Phase, doc : Doc \cup {Absent}, purge : SUBSET Doc,
            create : SUBSET Doc, enqueue : SUBSET Doc, processing : SUBSET Doc]
Tasks == [doc : Doc, step : Stage, attempt : Nat \ {0}, own : BOOLEAN]

\* The variables that the theorem rests on keep their ranges.
Typed ==
  /\ row \in [Doc -> Rows \cup {Absent}] /\ index \in [Doc -> SUBSET {"current", "stale"}]
  /\ DOMAIN lease = Doc /\ task \in [Worker -> Tasks \cup {Idle}]
  /\ seeder \in Seeders
  /\ seeder.phase \in {"rows", "upload"} => seeder.doc \in Doc

\* A task has the lease of its document, which is not ready.
Leased ==
  \A w \in Worker : task[w] # Idle =>
    lease[task[w].doc] = w /\ ~Has(task[w].doc, "ready")

\* A document without a row has nothing in the stores the row speaks for.
Rowless == \A d \in Doc : row[d] = Absent => d \notin stored \cup file

\* The plan, as far as it is carried out.
Planned ==
  /\ seeder.phase \notin {"purge", "rows"} => seeder.purge = {}
  /\ seeder.phase = "rows" => seeder.doc \notin seeder.purge
  /\ \A d \in seeder.create : d \in Listed /\ (row[d] = Absent \/ d \in Condemned)
  /\ seeder.phase = "upload" =>
       seeder.doc \in Listed /\ row[seeder.doc] # Absent /\ seeder.doc \notin file
  /\ seeder.phase \notin {"off", "exit 1"} =>
       \A d \in Unlisted : row[d] = Absent \/ d \in Condemned
  /\ In("exit 0") => AllReady

\* A task that no purge has met works on the row it claimed, on its own chunks, and
\* on empty indexes when it is the first.
Working(w) ==
  LET t == task[w] IN
  /\ row[t.doc] = Row("processing", t.attempt)
  /\ t.step # "finish" /\ t.attempt <= 1 => index[t.doc] = {}
  /\ t.step \in {"index", "finish"} => t.own /\ t.doc \in stored
  /\ t.step = "finish" => index[t.doc] = {"current"}

\* What is so of a document that was never deleted under a delivery.
Clean(d) ==
  /\ \A w \in Running(d) : Working(w)
  /\ row[d] = Absent => index[d] = {}
  /\ row[d] # Absent /\ row[d].attempts = 0 => index[d] = {}
  /\ d \in Listed /\ Has(d, "ready") => Searchable(d)
  /\ d \in Listed /\ d \in Condemned => Has(d, "failed")
  /\ seeder.phase = "rows" /\ d = seeder.doc => Running(d) = {} /\ index[d] = {}
  /\ seeder.phase = "upload" /\ d = seeder.doc =>
       index[d] = {} /\ \A w \in Running(d) : task[w].step = "fetch"
Cleaned == \A d \in Doc \ raced : Clean(d)

Inv == Typed /\ Leased /\ Rowless /\ Planned /\ Cleaned
-----------------------------------------------------------------------------
LEMMA RowFacts ==
  /\ \A status, attempts : Row(status, attempts).status = status
                           /\ Row(status, attempts).attempts = attempts
  /\ \A status \in Status, attempts \in Nat :
       Row(status, attempts) \in Rows /\ Row(status, attempts) # Absent
BY NameAssumption DEF Row, Rows

LEMMA TaskFacts == \A t \in Tasks : t # Idle
BY NameAssumption DEF Tasks

LEMMA PlanFacts ==
  \A phase \in Phase :
    /\ Plan(phase) \in Seeders
    /\ Plan(phase).phase = phase /\ Plan(phase).purge = {} /\ Plan(phase).create = {}
BY DEF Plan, Seeders

\* A document the step leaves alone.
LEMMA Untouched ==
  ASSUME NEW d \in Doc, Clean(d), row'[d] = row[d], index'[d] = index[d],
         d \in stored <=> d \in stored',
         \A w \in Worker : task'[w] # Idle /\ task'[w].doc = d => task'[w] = task[w],
         d \in Listed /\ d \in Condemned' => d \in Condemned,
         seeder'.phase = "rows" /\ d = seeder'.doc => seeder.phase = "rows" /\ d = seeder.doc,
         seeder'.phase = "upload" /\ d = seeder'.doc =>
           seeder.phase = "upload" /\ d = seeder.doc
  PROVE  Clean(d)'
<1>1. \A w \in Running(d)' : w \in Running(d) /\ task'[w] = task[w] /\ task[w].doc = d
  BY DEF Running
<1>2. \A w \in Running(d)' : Working(w)'
  BY <1>1 DEF Clean, Working
<1> QED
  BY <1>1, <1>2 DEF Clean, Has, Searchable

LEMMA InitInv == Init => Inv
<1> SUFFICES ASSUME Init PROVE Inv
  OBVIOUS
<1>1. Typed
  <2>1. row \in [Doc -> Rows \cup {Absent}]
    BY RowFacts DEF Init, Status
  <2> QED
    BY <2>1, PlanFacts DEF Init, Typed, Phase
<1>2. \A w \in Worker : task[w] = Idle
  BY DEF Init
<1>3. seeder.phase = "off" /\ seeder.purge = {} /\ seeder.create = {}
  BY PlanFacts DEF Init, Phase
<1>4. \A d \in Doc : /\ row[d] = Absent => d \notin stored \cup file
                     /\ d \notin stored => index[d] = {}
                     /\ d \in stored => index[d] = {"current"} /\ Has(d, "ready")
                     /\ Has(d, "ready") => d \in stored /\ row[d] # Absent /\ row[d].attempts = 1
  BY RowFacts DEF Init, Has, Status
<1>5. \A d \in Doc : Clean(d)
  BY <1>2, <1>3, <1>4 DEF Clean, Running, Condemned, Searchable, Has
<1> QED
  BY <1>1, <1>2, <1>3, <1>4, <1>5
  DEF Inv, Leased, Rowless, Planned, Cleaned, In
-----------------------------------------------------------------------------
(* The workers.  A step of theirs changes one document and leaves the plan     *)
(* alone.                                                                      *)

LEMMA OneDocument ==
  ASSUME Typed, Cleaned, Planned, NEW d \in Doc, UNCHANGED <<seeder, file>>, raced \subseteq raced',
         DOMAIN row' = Doc,
         \A e \in Doc \ {d} : row'[e] = row[e] /\ index'[e] = index[e]
                              /\ (e \in stored <=> e \in stored'),
         \A w \in Worker : task'[w] # Idle /\ task'[w].doc # d => task'[w] = task[w],
         row'[d] = Absent <=> row[d] = Absent,
         In("exit 0") /\ Has(d, "ready") => Has(d, "ready")',
         d \notin raced' => Clean(d)'
  PROVE  Cleaned' /\ Planned'
<1>1. Condemned' = Condemned
  BY DEF Condemned
<1>2. ASSUME NEW e \in Doc \ raced' PROVE Clean(e)'
  <2>1. CASE e = d
    BY <1>2, <2>1
  <2>2. CASE e # d
    <3>1. Clean(e)
      BY <1>2 DEF Cleaned
    <3>2. \A w \in Worker : task'[w] # Idle /\ task'[w].doc = e => task'[w] = task[w]
      BY <2>2
    <3> QED
      BY <1>1, <2>2, <3>1, <3>2, Untouched
  <2> QED
    BY <2>1, <2>2
<1>3. Planned'
  <2>1. In("exit 0") => AllReady'
    BY DEF Planned, AllReady, Has, Doc
  <2>2. \A e \in Doc : row'[e] = Absent <=> row[e] = Absent
    OBVIOUS
  <2>3. \A e \in seeder.create : e \in Listed /\ (row'[e] = Absent \/ e \in Condemned)
    BY <2>2 DEF Planned, Doc
  <2>4. seeder.phase = "upload" => row'[seeder.doc] # Absent
    BY <2>2 DEF Planned, Doc
  <2>5. seeder.phase \notin {"off", "exit 1"} =>
          \A e \in Unlisted : row'[e] = Absent \/ e \in Condemned
    BY <2>2 DEF Planned, Doc
  <2> QED
    BY <1>1, <2>1, <2>3, <2>4, <2>5 DEF Planned, In
<1> QED
  BY <1>2, <1>3 DEF Cleaned

LEMMA Working1 ==
  ASSUME Typed, NEW w \in Worker, task[w] # Idle
  PROVE  task[w] \in Tasks /\ task[w].doc \in Doc /\ w \in Running(task[w].doc)
BY DEF Typed, Tasks, Running

\* The lease lets one task at a document.
LEMMA OneTask ==
  ASSUME Typed, Leased, NEW w \in Worker, NEW v \in Worker, task[w] # Idle, task[v] # Idle,
         task[v].doc = task[w].doc
  PROVE  v = w
BY DEF Leased

LEMMA ClaimInv ==
  ASSUME Inv, NEW w \in Worker, NEW d \in Doc, Claim(w, d)
  PROVE  Inv'
<1> USE DEF Inv
<1> DEFINE attempt == row[d].attempts + 1
           t == [doc |-> d, step |-> "fetch", attempt |-> attempt, own |-> FALSE]
<1>1. /\ row[d] \in Rows /\ row[d].attempts \in Nat /\ attempt \in Nat \ {0}
      /\ row[d] # Absent /\ ~Has(d, "ready") /\ lease[d] = NoOne /\ task[w] = Idle
  BY DEF Claim, Typed, Rows
<1>2. \A v \in Worker : task[v] # Idle => task[v].doc # d
  BY <1>1, WorkerAssumption DEF Leased
<1>3. UNCHANGED <<file, stored, index, seeder>>
      /\ raced' = IF d \in Condemned THEN raced \cup {d} ELSE raced
  BY DEF Claim
<1>4. d \notin raced' => Clean(d) /\ d \notin Condemned
  BY <1>3 DEF Cleaned
<1>5. CASE attempt > MaxAttempts
  <2>1. row' = [row EXCEPT ![d] = Row("failed", attempt)] /\ UNCHANGED <<lease, task>>
    BY <1>5 DEF Claim
  <2>2. row'[d] = Row("failed", attempt) /\ row'[d] \in Rows /\ row'[d] # Absent
        /\ row'[d].status = "failed" /\ row'[d].attempts = attempt
    BY <1>1, <2>1, RowFacts DEF Typed, Status
  <2>3. Typed'
    BY <1>3, <2>1, <2>2 DEF Typed
  <2>4. Leased' /\ Rowless'
    BY <1>1, <1>2, <1>3, <2>1, <2>2, Working1 DEF Leased, Rowless, Has, Typed
  <2>5. Running(d)' = {}
    BY <1>2, <2>1 DEF Running
  <2>6. d \notin raced' => Clean(d)'
    BY <1>1, <1>3, <1>4, <2>2, <2>5 DEF Clean, Has, Condemned
  <2>7. Cleaned' /\ Planned'
    BY <1>1, <1>3, <2>1, <2>2, <2>6, OneDocument DEF Typed
  <2> QED
    BY <2>3, <2>4, <2>7
<1>6. CASE ~(attempt > MaxAttempts)
  <2>1. /\ row' = [row EXCEPT ![d] = Row("processing", attempt)]
        /\ lease' = [lease EXCEPT ![d] = w] /\ task' = [task EXCEPT ![w] = t]
    BY <1>6 DEF Claim
  <2>2. row'[d] = Row("processing", attempt) /\ row'[d] \in Rows /\ row'[d] # Absent
        /\ row'[d].status = "processing" /\ row'[d].attempts = attempt
    BY <1>1, <2>1, RowFacts DEF Typed, Status
  <2>3. t \in Tasks
    BY <1>1 DEF Tasks, Stage
  <2>4. Typed'
    BY <1>3, <2>1, <2>2, <2>3 DEF Typed
  <2>5. task'[w] = t /\ (\A v \in Worker \ {w} : task'[v] = task[v])
        /\ lease'[d] = w /\ (\A e \in Doc \ {d} : lease'[e] = lease[e] /\ row'[e] = row[e])
    BY <2>1 DEF Typed
  <2>6. Leased' /\ Rowless'
    BY <1>1, <1>2, <1>3, <2>2, <2>5, Working1 DEF Leased, Rowless, Has
  <2>7. \A v \in Running(d)' : v = w
    BY <1>2, <2>5 DEF Running
  <2>8. d \notin raced' => Working(w)'
    <3>1. attempt <= 1 => row[d].attempts = 0
      BY <1>1
    <3>2. d \notin raced' /\ attempt <= 1 => index'[d] = {}
      BY <1>1, <1>3, <1>4, <3>1 DEF Clean
    <3> QED
      BY <2>2, <2>5, <3>2 DEF Working
  <2>9. d \notin raced' => Clean(d)'
    <3>1. d \notin raced' => \A v \in Running(d)' : Working(v)'
      BY <2>7, <2>8
    <3>2. d \notin raced' => d \notin Condemned'
      BY <1>3, <1>4 DEF Condemned
    <3>3. \A v \in Running(d)' : task'[v].step = "fetch"
      BY <2>5, <2>7
    <3>4. seeder.phase = "rows" => seeder.doc \in Condemned
      BY DEF Condemned
    <3> QED
      BY <1>1, <1>3, <1>4, <2>2, <3>1, <3>2, <3>3, <3>4 DEF Clean, Has
  <2>10. \A v \in Worker : task'[v] # Idle /\ task'[v].doc # d => task'[v] = task[v]
    BY <2>5
  <2>11. DOMAIN row' = Doc /\ raced \subseteq raced'
    BY <1>3, <2>4 DEF Typed
  <2>12. Cleaned' /\ Planned'
    BY <1>1, <1>3, <2>2, <2>5, <2>9, <2>10, <2>11, OneDocument
  <2> QED
    BY <2>4, <2>6, <2>12
<1> QED
  BY <1>5, <1>6

\* A task that ends leaves its document to nobody.
LEMMA Ended ==
  ASSUME Typed, Leased, NEW w \in Worker, task[w] # Idle, NEW d, d = task[w].doc,
         task' = [task EXCEPT ![w] = Idle]
  PROVE  /\ task' \in [Worker -> Tasks \cup {Idle}] /\ task'[w] = Idle
         /\ \A v \in Worker \ {w} : task'[v] = task[v]
         /\ \A v \in Worker : task'[v] # Idle => task'[v] = task[v] /\ task[v].doc # d
         /\ Running(d)' = {}
<1>1. /\ task' \in [Worker -> Tasks \cup {Idle}] /\ task'[w] = Idle
      /\ \A v \in Worker \ {w} : task'[v] = task[v]
  BY DEF Typed
<1>2. \A v \in Worker : task'[v] # Idle =>
        task'[v] = task[v] /\ task[v].doc # d
  BY <1>1, OneTask
<1> QED
  BY <1>1, <1>2 DEF Running

\* Its row keeps its attempts.
LEMMA StatusSet ==
  ASSUME Typed, NEW d \in Doc, NEW status \in Status, SetStatus(d, status)
  PROVE  /\ row' \in [Doc -> Rows \cup {Absent}]
         /\ \A e \in Doc \ {d} : row'[e] = row[e]
         /\ row'[d] = Absent <=> row[d] = Absent
         /\ row[d] # Absent => row'[d].status = status /\ row'[d].attempts = row[d].attempts
<1>1. CASE row[d] = Absent
  BY <1>1 DEF SetStatus, Typed
<1>2. CASE row[d] # Absent
  <2>1. row[d] \in Rows /\ row' = [row EXCEPT ![d] = [row[d] EXCEPT !.status = status]]
    BY <1>2 DEF SetStatus, Typed
  <2>2. [row[d] EXCEPT !.status = status] \in Rows
        /\ [row[d] EXCEPT !.status = status].status = status
        /\ [row[d] EXCEPT !.status = status].attempts = row[d].attempts
    BY <2>1 DEF Rows
  <2>3. [row[d] EXCEPT !.status = status] # Absent
    BY <2>2, NameAssumption DEF Rows
  <2> QED
    BY <1>2, <2>1, <2>2, <2>3 DEF Typed
<1> QED
  BY <1>1, <1>2

LEMMA FailedInv ==
  ASSUME Inv, NEW w \in Worker, task[w] # Idle, Failed(w)
  PROVE  Inv'
<1> USE DEF Inv
<1>0. PICK d \in Doc : d = task[w].doc
  BY Working1
<1>1. /\ SetStatus(d, "failed") /\ task' = [task EXCEPT ![w] = Idle]
      /\ lease' = [lease EXCEPT ![d] = NoOne]
      /\ UNCHANGED <<file, stored, index, seeder, raced>>
  BY <1>0 DEF Failed, Release
<1>2. d \in Doc /\ task[w] \in Tasks
  BY <1>0, Working1
<1>3. /\ row' \in [Doc -> Rows \cup {Absent}]
      /\ \A e \in Doc \ {d} : row'[e] = row[e]
      /\ row'[d] = Absent <=> row[d] = Absent
      /\ row[d] # Absent => row'[d].status = "failed" /\ row'[d].attempts = row[d].attempts
  BY <1>1, <1>2, StatusSet DEF Status
<1>4. /\ task' \in [Worker -> Tasks \cup {Idle}]
      /\ \A v \in Worker : task'[v] # Idle => task'[v] = task[v] /\ task[v].doc # d
      /\ Running(d)' = {}
  BY <1>0, <1>1, Ended
<1>5. Typed'
  BY <1>1, <1>3, <1>4 DEF Typed
<1>6. Leased' /\ Rowless'
  BY <1>1, <1>2, <1>3, <1>4, Working1 DEF Leased, Rowless, Has, Typed
<1>7. d \notin raced' => Clean(d)'
  <2>1. d \notin raced' => Clean(d)
    BY <1>1, <1>2 DEF Cleaned
  <2>2. d \notin raced' => row[d] # Absent
    BY <1>2, <2>1, <1>0, Working1, RowFacts DEF Clean, Working, Tasks, Status
  <2>3. seeder.phase = "rows" /\ d = seeder.doc => d \in raced
    BY <1>1, <2>1, <1>2, <1>0, Working1 DEF Clean
  <2>4. d \notin raced' => Has(d, "failed")' /\ ~Has(d, "ready")'
    BY <1>3, <2>2 DEF Has
  <2> QED
    BY <1>1, <1>3, <1>4, <2>1, <2>2, <2>3, <2>4 DEF Clean
<1>8. Cleaned' /\ Planned'
  <2>1. ~Has(d, "ready")
    BY <1>0 DEF Leased
  <2>2. \A v \in Worker : task'[v] # Idle /\ task'[v].doc # d => task'[v] = task[v]
    BY <1>4
  <2> QED
    BY <1>1, <1>2, <1>3, <1>7, <2>1, <2>2, OneDocument
<1> QED
  BY <1>5, <1>6, <1>8

LEMMA FinishInv ==
  ASSUME Inv, NEW w \in Worker, Finish(w)
  PROVE  Inv'
<1> USE DEF Inv
<1>0. PICK d \in Doc : d = task[w].doc
  BY Working1 DEF Finish, At
<1>1. /\ task[w] # Idle /\ task[w].step = "finish"
      /\ SetStatus(d, "ready") /\ task' = [task EXCEPT ![w] = Idle]
      /\ lease' = [lease EXCEPT ![d] = NoOne]
      /\ UNCHANGED <<file, stored, index, seeder, raced>>
  BY <1>0 DEF Finish, Release, At
<1>2. d \in Doc /\ task[w] \in Tasks
  BY <1>0, <1>1, Working1
<1>3. /\ row' \in [Doc -> Rows \cup {Absent}]
      /\ \A e \in Doc \ {d} : row'[e] = row[e]
      /\ row'[d] = Absent <=> row[d] = Absent
      /\ row[d] # Absent => row'[d].status = "ready" /\ row'[d].attempts = row[d].attempts
  BY <1>1, <1>2, StatusSet DEF Status
<1>4. /\ task' \in [Worker -> Tasks \cup {Idle}]
      /\ \A v \in Worker : task'[v] # Idle => task'[v] = task[v] /\ task[v].doc # d
      /\ Running(d)' = {}
  BY <1>0, <1>1, Ended
<1>5. Typed'
  BY <1>1, <1>3, <1>4 DEF Typed
<1>6. Leased' /\ Rowless'
  BY <1>1, <1>2, <1>3, <1>4, Working1 DEF Leased, Rowless, Has, Typed
<1>7. d \notin raced' => Clean(d)'
  <2> SUFFICES ASSUME d \notin raced PROVE Clean(d)'
    BY <1>1
  <2>1. Clean(d) /\ Working(w) /\ w \in Running(d)
    BY <1>1, <1>2, <1>0, <1>0, Working1 DEF Cleaned, Clean
  <2>2. /\ row[d] # Absent /\ row[d].status = "processing" /\ d \in stored
        /\ row[d].attempts = task[w].attempt /\ index[d] = {"current"}
    BY <1>1, <1>0, <1>2, <2>1, RowFacts DEF Working, Tasks, Status
  <2>3. row[d].attempts # 0
    BY <2>1, <2>2 DEF Clean
  <2>4. ~(d \in Listed /\ d \in Condemned)
    BY <2>1, <2>2 DEF Clean, Has
  <2>5. d \notin Listed \/ d \notin Condemned'
    BY <1>1, <2>4 DEF Condemned
  <2>6. ~(seeder.phase \in {"rows", "upload"} /\ d = seeder.doc)
    BY <1>1, <2>1, <2>2 DEF Clean
  <2>7. Searchable(d)'
    BY <1>1, <2>2 DEF Searchable
  <2> QED
    BY <1>1, <1>3, <1>4, <2>2, <2>3, <2>5, <2>6, <2>7 DEF Clean
<1>8. Cleaned' /\ Planned'
  <2>1. ~Has(d, "ready")
    BY <1>0, <1>1 DEF Leased
  <2>2. \A v \in Worker : task'[v] # Idle /\ task'[v].doc # d => task'[v] = task[v]
    BY <1>4
  <2> QED
    BY <1>1, <1>2, <1>3, <1>7, <2>1, <2>2, OneDocument
<1> QED
  BY <1>5, <1>6, <1>8

\* A task that ends without a word on its document.
LEMMA GoneInv ==
  ASSUME Inv, NEW w \in Worker, task[w] # Idle, NEW d \in Doc, d = task[w].doc, NEW owner,
         task' = [task EXCEPT ![w] = Idle], lease' = [lease EXCEPT ![d] = owner],
         UNCHANGED <<row, file, stored, index, seeder, raced>>
  PROVE  Inv'
<1> USE DEF Inv
<1>1. /\ task' \in [Worker -> Tasks \cup {Idle}]
      /\ \A v \in Worker : task'[v] # Idle => task'[v] = task[v] /\ task[v].doc # d
      /\ Running(d)' = {}
  BY Ended
<1>2. Typed'
  BY <1>1 DEF Typed
<1>3. Leased' /\ Rowless'
  BY <1>1, Working1 DEF Leased, Rowless, Has, Typed
<1>4. \A e \in Doc \ raced : Clean(e)'
  <2>1. Condemned' = Condemned
    BY DEF Condemned
  <2> QED
    BY <1>1, <2>1, Untouched DEF Cleaned
<1>5. Planned'
  BY DEF Planned, In, AllReady, Has, Condemned
<1> QED
  BY <1>2, <1>3, <1>4, <1>5 DEF Cleaned

LEMMA KillInv ==
  ASSUME Inv, NEW w \in Worker, Kill(w)
  PROVE  Inv'
<1>1. task[w] # Idle
  BY DEF Kill
<1>2. PICK d \in Doc : d = task[w].doc
  BY <1>1, Working1 DEF Inv
<1> QED
  BY <1>1, <1>2, GoneInv DEF Kill, store

\* A task that goes on to its next step, whatever becomes of its own flag.
LEMMA Onward ==
  ASSUME Inv, NEW w \in Worker, task[w] # Idle, NEW d \in Doc, d = task[w].doc,
         NEW step \in Stage, NEW own \in BOOLEAN,
         NEW t, t = [task[w] EXCEPT !.step = step, !.own = own],
         task' = [task EXCEPT ![w] = t],
         UNCHANGED <<row, file, lease, seeder, raced>>,
         index' \in [Doc -> SUBSET {"current", "stale"}],
         \A e \in Doc \ {d} : index'[e] = index[e] /\ (e \in stored <=> e \in stored'),
         row[d] = Absent => d \notin stored',
         d \notin raced => Clean(d)'
  PROVE  Inv'
<1> USE DEF Inv
<1>1. t \in Tasks /\ t.doc = d /\ t # Idle
  <2>1. task[w] \in Tasks
    BY Working1
  <2>2. t \in Tasks /\ t.doc = d
    BY <2>1 DEF Tasks
  <2> QED
    BY <2>2, TaskFacts
<1>2. Typed'
  BY <1>1 DEF Typed
<1>3. Leased'
  <2>1. task'[w] = t /\ \A v \in Worker \ {w} : task'[v] = task[v]
    BY DEF Typed
  <2> QED
    BY <1>1, <2>1 DEF Leased, Has
<1>4. Rowless'
  BY DEF Rowless
<1>5. Cleaned' /\ Planned'
  <2>1. \A v \in Worker : task'[v] # Idle /\ task'[v].doc # d => task'[v] = task[v]
    BY <1>1 DEF Typed
  <2>2. ~Has(d, "ready") /\ DOMAIN row = Doc
    BY DEF Leased, Typed
  <2> QED
    BY <2>1, <2>2, OneDocument
<1> QED
  BY <1>2, <1>3, <1>4, <1>5

LEMMA FetchInv ==
  ASSUME Inv, NEW w \in Worker, Fetch(w)
  PROVE  Inv'
<1> USE DEF Inv
<1>0. task[w] # Idle /\ task[w].step = "fetch"
  BY DEF Fetch, At
<1>1. PICK d \in Doc : d = task[w].doc
  BY <1>0, Working1
<1>2. CASE d \notin file
  BY <1>0, <1>1, <1>2, FailedInv DEF Fetch
<1>3. CASE d \in file
  <2> DEFINE t == [task[w] EXCEPT !.step = "persist", !.own = task[w].own]
  <2>1. task[w] \in Tasks
    BY <1>0, Working1
  <2>2. /\ task' = [task EXCEPT ![w] = t]
        /\ UNCHANGED <<row, file, stored, index, lease, seeder, raced>>
    BY <1>1, <1>3, <2>1 DEF Fetch, Step, Tasks, store, broker
  <2>3. t.doc = d /\ t.attempt = task[w].attempt /\ t.step = "persist" /\ t \in Tasks
    BY <1>1, <2>1 DEF Tasks, Stage
  <2> HIDE DEF t
  <2>4. task'[w] = t /\ \A v \in Worker \ {w} : task'[v] = task[v]
    BY <2>2 DEF Typed
  <2>5. ASSUME d \notin raced PROVE Clean(d)'
    <3>1. Clean(d) /\ w \in Running(d)
      BY <1>0, <1>1, <2>5 DEF Cleaned, Running
    <3>2. Working(w)'
      BY <1>0, <1>1, <2>2, <2>3, <2>4, <3>1 DEF Clean, Working
    <3>3. \A v \in Running(d)' : v = w
      BY <1>0, <1>1, <2>4, OneTask DEF Running
    <3>4. ~(seeder.phase \in {"rows", "upload"} /\ d = seeder.doc)
      BY <1>3, <3>1 DEF Clean, Planned
    <3>5. Condemned' = Condemned
      BY <2>2 DEF Condemned
    <3> QED
      BY <2>2, <3>1, <3>2, <3>3, <3>4, <3>5 DEF Clean, Has, Searchable
  <2>6. Typed' /\ Leased'
    BY <1>1, <2>2, <2>3, <2>4, <1>0, TaskFacts DEF Typed, Leased, Has
  <2>7. Rowless'
    BY <2>2 DEF Rowless
  <2>8. Cleaned' /\ Planned'
    <3>1. \A v \in Worker : task'[v] # Idle /\ task'[v].doc # d => task'[v] = task[v]
      BY <2>3, <2>4
    <3> QED
      BY <2>2, <2>5, <3>1, <1>0, <1>1, OneDocument DEF Typed, Leased
  <2> QED
    BY <2>6, <2>7, <2>8
<1> QED
  BY <1>2, <1>3

LEMMA IndexInv ==
  ASSUME Inv, NEW w \in Worker, Index(w)
  PROVE  Inv'
<1> USE DEF Inv
<1> DEFINE t == [task[w] EXCEPT !.step = "finish", !.own = task[w].own]
<1>0. task[w] # Idle /\ task[w].step = "index" /\ task[w] \in Tasks
  BY Working1 DEF Index, At
<1>1. PICK d \in Doc : d = task[w].doc
  BY <1>0, Working1
<1>2. /\ task' = [task EXCEPT ![w] = t]
      /\ index' = [index EXCEPT ![d] =
                    (IF task[w].attempt > 1 THEN {} ELSE index[d])
                      \cup {IF task[w].own THEN "current" ELSE "stale"}]
      /\ UNCHANGED <<row, file, stored, lease, seeder, raced>>
  BY <1>0, <1>1 DEF Index, Step, Tasks, broker
<1>3. t.doc = d /\ t.attempt = task[w].attempt /\ t.step = "finish" /\ t.own = task[w].own
  BY <1>0, <1>1 DEF Tasks
<1> HIDE DEF t
<1>4. task'[w] = t /\ \A v \in Worker \ {w} : task'[v] = task[v]
  BY <1>2 DEF Typed
<1>5. /\ index' \in [Doc -> SUBSET {"current", "stale"}]
      /\ \A e \in Doc \ {d} : index'[e] = index[e]
  BY <1>2 DEF Typed
<1>6. ASSUME d \notin raced PROVE Clean(d)'
  <2>1. Clean(d) /\ w \in Running(d) /\ Working(w)
    BY <1>0, <1>1, <1>6 DEF Cleaned, Clean, Running
  <2>2. index'[d] = {"current"}
    <3>1. /\ task[w].own /\ (task[w].attempt <= 1 => index[d] = {})
          /\ task[w].attempt \in Nat
      BY <1>0, <1>1, <2>1 DEF Working, Tasks
    <3>2. (IF task[w].attempt > 1 THEN {} ELSE index[d]) = {}
      BY <3>1
    <3> QED
      BY <1>2, <3>1, <3>2 DEF Typed
  <2>3. Working(w)'
    BY <1>0, <1>1, <1>2, <1>3, <1>4, <2>1, <2>2 DEF Working
  <2>4. \A v \in Running(d)' : v = w
    BY <1>0, <1>1, <1>4, OneTask DEF Running
  <2>5. /\ row[d] # Absent /\ row[d].status = "processing"
        /\ row[d].attempts = task[w].attempt
    BY <1>0, <1>1, <2>1, RowFacts DEF Working, Tasks, Status
  <2>6. row[d].attempts # 0
    BY <1>0, <2>5 DEF Tasks
  <2>7. ~(seeder.phase \in {"rows", "upload"} /\ d = seeder.doc)
    BY <1>0, <2>1 DEF Clean
  <2>8. Condemned' = Condemned
    BY <1>2 DEF Condemned
  <2> QED
    BY <1>2, <2>1, <2>3, <2>4, <2>5, <2>6, <2>7, <2>8 DEF Clean, Has
<1>7. Inv'
  BY <1>0, <1>1, <1>2, <1>5, <1>6, Onward DEF t, Stage, Tasks, Rowless
<1> QED
  BY <1>7

LEMMA PersistInv ==
  ASSUME Inv, NEW w \in Worker, Persist(w)
  PROVE  Inv'
<1> USE DEF Inv
<1> DEFINE t == [task[w] EXCEPT !.step = "index", !.own = TRUE]
<1>0. task[w] # Idle /\ task[w].step = "persist" /\ task[w] \in Tasks
  BY Working1 DEF Persist, At
<1>1. PICK d \in Doc : d = task[w].doc
  BY <1>0, Working1
<1>2. CASE row[d] = Absent
  BY <1>0, <1>1, <1>2, GoneInv DEF Persist, Release, store
<1>3. CASE row[d] # Absent
  <2>1. /\ index' = [index EXCEPT ![d] = IF index[d] = {} THEN {} ELSE {"stale"}]
        /\ stored' = stored \cup {d}
        /\ UNCHANGED <<row, file, lease, seeder, raced>>
    BY <1>1, <1>3 DEF Persist, broker
  <2>2. task' = [task EXCEPT ![w] = t]
    <3>1. \A v \in Worker \ {w} : v \notin Running(d)
      BY <1>0, <1>1, OneTask DEF Running
    <3>2. task' = [v \in Worker |->
                     CASE v = w -> t
                       [] v # w /\ v \in Running(d) -> [task[v] EXCEPT !.own = FALSE]
                       [] OTHER -> task[v]]
      BY <1>1, <1>3 DEF Persist
    <3> HIDE DEF t
    <3>3. task' = [v \in Worker |-> IF v = w THEN t ELSE task[v]]
      BY <3>1, <3>2
    <3> QED
      BY <3>3 DEF Typed
  <2>3. t.doc = d /\ t.attempt = task[w].attempt /\ t.step = "index" /\ t.own = TRUE
    BY <1>0, <1>1 DEF Tasks
  <2> HIDE DEF t
  <2>4. task'[w] = t /\ \A v \in Worker \ {w} : task'[v] = task[v]
    BY <2>2 DEF Typed
  <2>5. /\ index' \in [Doc -> SUBSET {"current", "stale"}]
        /\ \A e \in Doc \ {d} : index'[e] = index[e]
        /\ index[d] = {} => index'[d] = {}
    BY <2>1 DEF Typed
  <2>6. ASSUME d \notin raced PROVE Clean(d)'
    <3>1. Clean(d) /\ w \in Running(d) /\ Working(w)
      BY <1>0, <1>1, <2>6 DEF Cleaned, Clean, Running
    <3>2. Working(w)'
      BY <1>0, <1>1, <2>1, <2>3, <2>4, <2>5, <3>1 DEF Working
    <3>3. \A v \in Running(d)' : v = w
      BY <1>0, <1>1, <2>4, OneTask DEF Running
    <3>4. /\ row[d] # Absent /\ row[d].status = "processing"
          /\ row[d].attempts = task[w].attempt /\ row[d].attempts # 0
      BY <1>0, <1>1, <3>1, RowFacts DEF Working, Tasks, Status
    <3>5. ~(seeder.phase \in {"rows", "upload"} /\ d = seeder.doc)
      BY <1>0, <3>1 DEF Clean
    <3>6. Condemned' = Condemned
      BY <2>1 DEF Condemned
    <3> QED
      BY <2>1, <3>1, <3>2, <3>3, <3>4, <3>5, <3>6 DEF Clean, Has
  <2>7. Inv'
    BY <1>0, <1>1, <1>3, <2>1, <2>2, <2>5, <2>6, Onward DEF t, Stage
  <2> QED
    BY <2>7
<1> QED
  BY <1>2, <1>3

LEMMA ExpiresInv ==
  ASSUME Inv, UNCHANGED <<row, file, stored, index, task, seeder, raced>>,
         DOMAIN lease' = Doc, \A d \in Doc : lease[d] \in Worker => lease'[d] = lease[d]
  PROVE  Inv'
<1> USE DEF Inv
<1>1. Typed' /\ Rowless'
  BY DEF Typed, Rowless
<1>2. Leased'
  BY Working1 DEF Leased, Has
<1>3. Condemned' = Condemned
  BY DEF Condemned
<1>4. \A d \in Doc \ raced : Clean(d)'
  BY <1>3, Untouched DEF Cleaned
<1>5. Planned'
  BY <1>3 DEF Planned, In, AllReady, Has
<1> QED
  BY <1>1, <1>2, <1>4, <1>5 DEF Cleaned
-----------------------------------------------------------------------------
(* The seeder.  Most steps only move it on.                                *)

LEMMA MovedOn ==
  ASSUME Inv, UNCHANGED <<row, stored, index, task, raced>>,
         DOMAIN lease' = Doc, \A d \in Doc : lease[d] \in Worker => lease'[d] = lease[d],
         seeder' \in Seeders,
         seeder'.phase \notin {"rows", "upload"}, Rowless', Planned',
         \A d \in Listed : d \in seeder'.purge => d \in Condemned \/ Has(d, "failed")
  PROVE  Inv'
<1> USE DEF Inv
<1>1. Typed' /\ Leased'
  BY Working1 DEF Typed, Leased, Has
<1>2. ASSUME NEW d \in Doc \ raced PROVE Clean(d)'
  <2>1. Clean(d)
    BY <1>2 DEF Cleaned
  <2>2. Running(d)' = Running(d) /\ \A w \in Running(d) : Working(w) => Working(w)'
    BY DEF Running, Working
  <2>3. Condemned' = seeder'.purge
    BY DEF Condemned
  <2> QED
    BY <2>1, <2>2, <2>3 DEF Clean, Has, Searchable
<1> QED
  BY <1>1, <1>2 DEF Cleaned

LEMMA OffInv ==
  ASSUME Inv, UNCHANGED <<row, stored, index, file, task, raced>>,
         DOMAIN lease' = Doc, \A d \in Doc : lease[d] \in Worker => lease'[d] = lease[d],
         seeder' = Plan("exit 1")
  PROVE  Inv'
<1>1. Planned'
  BY PlanFacts DEF Planned, In, Phase
<1>2. Rowless'
  BY DEF Inv, Rowless
<1> QED
  BY <1>1, <1>2, MovedOn, PlanFacts DEF Phase

\* Steps that keep to the rest of the plan once the purge is done.
LEMMA CarriedOn ==
  ASSUME Inv, UNCHANGED <<row, stored, index, file, lease, task, raced>>,
         seeder.phase \notin {"off", "exit 1", "rows", "upload", "purge"},
         seeder' \in Seeders, seeder'.phase \notin {"rows", "upload"},
         seeder'.purge = seeder.purge, seeder'.create = seeder.create,
         seeder'.phase = "exit 0" => AllReady
  PROVE  Inv'
<1>1. seeder.purge = {} /\ Condemned = {} /\ Condemned' = {}
  BY DEF Inv, Planned, Condemned
<1>2. Planned'
  BY <1>1 DEF Inv, Planned, In, AllReady, Has
<1>3. Rowless'
  BY DEF Inv, Rowless
<1> QED
  BY <1>1, <1>2, <1>3, MovedOn DEF Inv, Typed

LEMMA StartInv ==
  ASSUME Inv, Start
  PROVE  Inv'
<1> DEFINE owned == {d \in Doc : row[d] # Absent}
           purge == {d \in owned : d \notin Listed \/ row[d].status = "failed"}
           kept == owned \ purge
           pending == {d \in kept : row[d].status = "pending"}
           processing == {d \in kept : row[d].status = "processing"}
<1>1. UNCHANGED <<row, file, stored, index, lease, task, raced>>
      /\ seeder' = [Plan("purge") EXCEPT !.purge = purge, !.create = Listed \ kept,
                      !.enqueue = pending, !.processing = processing]
  BY DEF Start, store, broker, PlanSeed
<1>0. pending \subseteq Doc /\ processing \subseteq Doc
  OBVIOUS
<1> HIDE DEF owned, purge, kept, pending, processing
<1>2. purge \subseteq Doc /\ Listed \ kept \subseteq Doc
  BY DEF Doc, purge, owned
<1>3. seeder' \in Seeders /\ seeder'.phase = "purge" /\ seeder'.purge = purge
      /\ seeder'.create = Listed \ kept
  BY <1>0, <1>1, <1>2 DEF Plan, Phase, Seeders
<1>4. Condemned' = purge
  BY <1>3 DEF Condemned
<1>5. Planned'
  BY <1>1, <1>3, <1>4, DocAssumption DEF Planned, In, Doc, purge, owned, kept
<1>6. Rowless'
  BY <1>1 DEF Inv, Rowless
<1>7. \A d \in Listed : d \in purge => Has(d, "failed")
  BY DEF Has, purge, owned
<1> QED
  BY <1>1, <1>3, <1>5, <1>6, <1>7, MovedOn DEF Inv, Typed

LEMMA TurnsInv ==
  ASSUME Inv, Turns
  PROVE  Inv'
<1>1. UNCHANGED <<row, file, stored, index, lease, task, raced>>
  BY DEF Turns, Turn, store, broker
<1>2. CASE Turn("purge", seeder.purge, "create")
  <2>1. /\ seeder.phase = "purge" /\ seeder.purge = {}
        /\ seeder' = [seeder EXCEPT !.phase = "create"]
    BY <1>2 DEF Turn, In
  <2>2. /\ seeder' \in Seeders
        /\ seeder'.phase = "create" /\ seeder'.purge = {} /\ seeder'.create = seeder.create
    BY <2>1 DEF Inv, Typed, Phase, Seeders
  <2>3. Condemned = {} /\ Condemned' = {}
    BY <2>1, <2>2 DEF Condemned
  <2>4. Planned'
    BY <1>1, <2>1, <2>2, <2>3 DEF Inv, Planned, In
  <2>5. Rowless'
    BY <1>1 DEF Inv, Rowless
  <2> QED
    BY <1>1, <2>2, <2>4, <2>5, MovedOn DEF Inv, Typed
<1>3. ASSUME NEW from \in {"create", "enqueue", "reap"}, NEW left,
             NEW to \in {"enqueue", "reap", "wait"}, Turn(from, left, to)
      PROVE  Inv'
  <2>1. seeder.phase = from /\ seeder' = [seeder EXCEPT !.phase = to]
    BY <1>3 DEF Turn, In
  <2>2. /\ seeder' \in Seeders /\ seeder'.phase = to
        /\ seeder'.purge = seeder.purge /\ seeder'.create = seeder.create
    BY <2>1 DEF Inv, Typed, Seeders, Phase
  <2> QED
    BY <1>1, <2>1, <2>2, CarriedOn
<1> QED
  BY <1>2, <1>3 DEF Turns

LEMMA QueueInv ==
  ASSUME Inv, \/ \E d \in Doc : Enqueue(d) \/ Mark(d)
              \/ Send \/ SendFails
  PROVE  Inv'
<1>1. UNCHANGED <<row, file, stored, index, lease, task, raced>>
  BY DEF Enqueue, Mark, Send, SendFails, store
<1>2. seeder \in Seeders
  BY DEF Inv, Typed
<1>3. ASSUME NEW d \in Doc, Enqueue(d) PROVE Inv'
  <2>1. seeder.phase = "enqueue" /\ seeder' = [seeder EXCEPT !.enqueue = @ \ {d}]
    BY <1>3 DEF Enqueue, In
  <2>2. /\ seeder' \in Seeders /\ seeder'.phase = "enqueue"
        /\ seeder'.purge = seeder.purge /\ seeder'.create = seeder.create
    BY <1>2, <2>1 DEF Seeders
  <2> QED
    BY <1>1, <2>1, <2>2, CarriedOn
<1>4. ASSUME NEW d \in Doc, NEW phase \in {"send", "reap"}, NEW doc \in Doc \cup {Absent},
             NEW processing \in SUBSET Doc, seeder.phase \in {"reap", "send"},
             seeder' = [seeder EXCEPT !.phase = phase, !.doc = doc, !.processing = processing]
      PROVE  Inv'
  <2>1. /\ seeder' \in Seeders /\ seeder'.phase = phase
        /\ seeder'.purge = seeder.purge /\ seeder'.create = seeder.create
    BY <1>2, <1>4 DEF Seeders, Phase
  <2> QED
    BY <1>1, <1>4, <2>1, CarriedOn
<1>5. ASSUME NEW d \in Doc, Mark(d) PROVE Inv'
  <2>1. seeder.phase = "reap" /\ seeder.doc \in Doc \cup {Absent}
        /\ seeder.processing \ {d} \in SUBSET Doc
    BY <1>2, <1>5 DEF Mark, In, Seeders
  <2>2. \/ seeder' = [seeder EXCEPT !.phase = "send", !.doc = d, !.processing = @ \ {d}]
        \/ seeder' = [seeder EXCEPT !.phase = "reap", !.doc = seeder.doc,
                                    !.processing = @ \ {d}]
    <3>1. seeder' = [seeder EXCEPT !.processing = @ \ {d}] =>
            seeder' = [seeder EXCEPT !.phase = "reap", !.doc = seeder.doc,
                                     !.processing = @ \ {d}]
      BY <1>2, <2>1 DEF Seeders
    <3> QED
      BY <1>5, <3>1 DEF Mark
  <2> QED
    BY <1>4, <2>1, <2>2
<1>6. CASE Send \/ SendFails
  <2>1. seeder.phase = "send"
        /\ seeder' = [seeder EXCEPT !.phase = "reap", !.doc = Absent]
    BY <1>6 DEF Send, SendFails, In
  <2>2. /\ seeder' \in Seeders /\ seeder'.phase = "reap"
        /\ seeder'.purge = seeder.purge /\ seeder'.create = seeder.create
    BY <1>2, <2>1 DEF Seeders, Phase
  <2> QED
    BY <1>1, <2>1, <2>2, CarriedOn
<1> QED
  BY <1>3, <1>5, <1>6

LEMMA EndInv ==
  ASSUME Inv, Wait \/ TimedOut \/ Crash
  PROVE  Inv'
<1>1. UNCHANGED <<row, file, stored, index, task, raced>>
  BY DEF Wait, TimedOut, Crash, store, broker
<1>2. DOMAIN lease' = Doc /\ \A d \in Doc : lease[d] \in Worker => lease'[d] = lease[d]
  BY WorkerAssumption DEF Wait, TimedOut, Crash, broker, Inv, Typed
<1>3. CASE seeder' = Plan("exit 1")
  BY <1>1, <1>2, <1>3, OffInv
<1>4. CASE In("wait") /\ AllReady /\ seeder' = Plan("exit 0")
  <2>1. /\ seeder' \in Seeders /\ seeder'.phase = "exit 0"
        /\ seeder'.purge = {} /\ seeder'.create = {}
    BY <1>4, PlanFacts DEF Phase
  <2>2. seeder.phase = "wait" /\ Condemned = {} /\ Condemned' = {}
    BY <1>4, <2>1 DEF Inv, Planned, In, Condemned
  <2>3. Planned'
    BY <1>1, <1>4, <2>1, <2>2 DEF Inv, Planned, In, AllReady, Has
  <2>4. Rowless'
    BY <1>1 DEF Inv, Rowless
  <2> QED
    BY <1>1, <1>2, <2>1, <2>3, <2>4, MovedOn
<1> QED
  BY <1>3, <1>4 DEF Wait, TimedOut, Crash

\* A step of the seeder that changes one document.
LEMMA OthersClean ==
  ASSUME Cleaned, NEW d \in Doc, raced \subseteq raced',
         \A e \in Doc \ {d} : row'[e] = row[e] /\ index'[e] = index[e]
                              /\ (e \in stored <=> e \in stored')
                              /\ (e \in Condemned' => e \in Condemned),
         \A w \in Worker : task'[w] # Idle /\ task'[w].doc # d => task'[w] = task[w],
         seeder'.phase \in {"rows", "upload"} => seeder'.doc = d,
         d \notin raced' => Clean(d)'
  PROVE  Cleaned'
<1> SUFFICES ASSUME NEW e \in Doc \ raced' PROVE Clean(e)'
  BY DEF Cleaned
<1>1. CASE e = d
  BY <1>1
<1>2. CASE e # d
  <2>1. Clean(e)
    BY DEF Cleaned
  <2>2. \A w \in Worker : task'[w] # Idle /\ task'[w].doc = e => task'[w] = task[w]
    BY <1>2
  <2>3. ~(seeder'.phase = "rows" /\ e = seeder'.doc) /\ ~(seeder'.phase = "upload" /\ e = seeder'.doc)
    BY <1>2
  <2> QED
    BY <1>2, <2>1, <2>2, <2>3, Untouched
<1> QED
  BY <1>1, <1>2

\* Deleting the chunk rows of a document leaves its task with none of its own.
LEMMA Orphaned ==
  ASSUME Typed, NEW d \in Doc,
         task' = [w \in Worker |-> IF w \in Running(d) THEN [task[w] EXCEPT !.own = FALSE]
                                   ELSE task[w]]
  PROVE  /\ task' \in [Worker -> Tasks \cup {Idle}]
         /\ \A w \in Worker : task'[w] = Idle <=> task[w] = Idle
         /\ \A w \in Worker : task[w] # Idle => task'[w].doc = task[w].doc
         /\ \A w \in Worker : task'[w] # Idle /\ task'[w].doc # d => task'[w] = task[w]
         /\ Running(d) = {} => Running(d)' = {}
<1>1. \A w \in Running(d) : /\ task[w] \in Tasks /\ task[w].doc = d /\ task[w] # Idle
                            /\ [task[w] EXCEPT !.own = FALSE] \in Tasks
                            /\ [task[w] EXCEPT !.own = FALSE].doc = d
  BY DEF Typed, Running, Tasks
<1>2. \A w \in Worker : IF w \in Running(d)
                        THEN task'[w] \in Tasks /\ task'[w].doc = d /\ task'[w] # Idle
                        ELSE task'[w] = task[w]
  BY <1>1, TaskFacts
<1>3. task' \in [Worker -> Tasks \cup {Idle}]
  BY <1>2 DEF Typed
<1> QED
  BY <1>1, <1>2, <1>3 DEF Running

\* Without its row a task is not ready, so the lease may stay.
LEMMA RowGone ==
  ASSUME Inv, NEW d \in Doc, row' = [row EXCEPT ![d] = Absent],
         stored' = stored \ {d}, file' = file \ {d}, UNCHANGED lease,
         index' = [index EXCEPT ![d] = IF index[d] = {} THEN {} ELSE {"stale"}],
         task' = [w \in Worker |-> IF w \in Running(d) THEN [task[w] EXCEPT !.own = FALSE]
                                   ELSE task[w]],
         seeder' \in Seeders, seeder'.phase \notin {"rows", "upload"}, raced \subseteq raced',
         Planned', d \notin Condemned', Condemned' \subseteq Condemned,
         d \notin raced' => Running(d) = {} /\ index[d] = {}
  PROVE  Inv'
<1> USE DEF Inv
<1>1. /\ task' \in [Worker -> Tasks \cup {Idle}]
      /\ \A w \in Worker : task'[w] = Idle <=> task[w] = Idle
      /\ \A w \in Worker : task[w] # Idle => task'[w].doc = task[w].doc
      /\ \A w \in Worker : task'[w] # Idle /\ task'[w].doc # d => task'[w] = task[w]
      /\ Running(d) = {} => Running(d)' = {}
  BY Orphaned
<1>2. row'[d] = Absent /\ \A e \in Doc \ {d} : row'[e] = row[e] /\ index'[e] = index[e]
  BY DEF Typed
<1>3. Typed'
  BY <1>1 DEF Typed
<1>4. Leased' /\ Rowless'
  BY <1>1, <1>2, Working1 DEF Leased, Rowless, Has
<1>5. d \notin raced' => Clean(d)'
  <2>1. d \notin raced' => Running(d)' = {} /\ index'[d] = {}
    BY <1>1 DEF Typed
  <2> QED
    BY <1>2, <2>1 DEF Clean, Has
<1>6. Cleaned'
  BY <1>1, <1>2, <1>5, OthersClean
<1> QED
  BY <1>3, <1>4, <1>6

LEMMA PurgeIndexesInv ==
  ASSUME Inv, NEW d \in Doc, PurgeIndexes(d)
  PROVE  Inv'
<1> USE DEF Inv
<1>1. /\ seeder.phase = "purge" /\ d \in seeder.purge
      /\ index' = [index EXCEPT ![d] = {}]
      /\ seeder' = [seeder EXCEPT !.phase = "rows", !.doc = d, !.purge = seeder.purge \ {d}]
      /\ raced' = IF Running(d) # {} THEN raced \cup {d} ELSE raced
      /\ UNCHANGED <<row, file, stored, lease, task>>
  BY DEF PurgeIndexes, In, broker
<1>2. /\ seeder' \in Seeders /\ seeder'.phase = "rows" /\ seeder'.doc = d
      /\ seeder'.purge = seeder.purge \ {d} /\ seeder'.create = seeder.create
  BY <1>1 DEF Typed, Seeders, Phase
<1>3. index'[d] = {} /\ \A e \in Doc \ {d} : index'[e] = index[e]
  BY <1>1 DEF Typed
<1>4. Condemned' = Condemned /\ d \in Condemned
  BY <1>1, <1>2 DEF Condemned
<1>5. Typed' /\ Leased' /\ Rowless'
  BY <1>1, <1>2 DEF Typed, Leased, Rowless, Has
<1>6. Planned'
  BY <1>1, <1>2, <1>4 DEF Planned, In
<1>7. d \notin raced' => Clean(d)'
  <2>1. d \notin raced' => Clean(d) /\ Running(d)' = {}
    BY <1>1 DEF Cleaned, Running
  <2>2. d \notin raced' /\ d \in Listed => ~Has(d, "ready")
    BY <1>4, <2>1 DEF Clean, Has
  <2> QED
    BY <1>1, <1>2, <1>3, <1>4, <2>1, <2>2 DEF Clean, Has
<1>8. Cleaned'
  BY <1>1, <1>2, <1>3, <1>4, <1>7, OthersClean
<1> QED
  BY <1>5, <1>6, <1>8

LEMMA PurgeRowsInv ==
  ASSUME Inv, PurgeRows
  PROVE  Inv'
<1> USE DEF Inv
<1>0. PICK d \in Doc : d = seeder.doc
  BY DEF PurgeRows, In, Typed
<1>1. /\ seeder.phase = "rows"
      /\ row' = [row EXCEPT ![d] = Absent] /\ file' = file \ {d} /\ stored' = stored \ {d}
      /\ index' = [index EXCEPT ![d] = IF index[d] = {} THEN {} ELSE {"stale"}]
      /\ task' = [w \in Worker |-> IF w \in Running(d) THEN [task[w] EXCEPT !.own = FALSE]
                                   ELSE task[w]]
      /\ seeder' = [seeder EXCEPT !.phase = "purge", !.doc = Absent]
      /\ UNCHANGED <<lease, raced>>
  BY <1>0 DEF PurgeRows, In, broker
<1>2. /\ seeder' \in Seeders /\ seeder'.phase = "purge"
      /\ seeder'.purge = seeder.purge /\ seeder'.create = seeder.create
  BY <1>1 DEF Typed, Seeders, Phase
<1>3. Condemned = seeder.purge \cup {d} /\ Condemned' = seeder.purge /\ d \notin seeder.purge
  BY <1>0, <1>1, <1>2 DEF Condemned, Planned
<1>4. row'[d] = Absent /\ \A e \in Doc \ {d} : row'[e] = row[e]
  BY <1>1 DEF Typed
<1>5. Planned'
  <2>1. \A e \in seeder.create : e \in Listed /\ (row'[e] = Absent \/ e \in Condemned')
    BY <1>3, <1>4 DEF Planned, Doc
  <2>2. \A e \in Unlisted : row'[e] = Absent \/ e \in Condemned'
    BY <1>1, <1>3, <1>4 DEF Planned, Doc
  <2> QED
    BY <1>2, <2>1, <2>2 DEF Planned, In
<1>6. d \notin raced' => Running(d) = {} /\ index[d] = {}
  BY <1>0, <1>1 DEF Cleaned, Clean
<1> QED
  BY <1>1, <1>2, <1>3, <1>5, <1>6, RowGone

LEMMA CreateRowInv ==
  ASSUME Inv, NEW d \in Doc, CreateRow(d)
  PROVE  Inv'
<1> USE DEF Inv
<1>1. /\ seeder.phase = "create" /\ d \in seeder.create
      /\ row' = [row EXCEPT ![d] = Row("pending", 0)]
      /\ seeder' = [seeder EXCEPT !.phase = "upload", !.doc = d, !.create = seeder.create \ {d}]
      /\ UNCHANGED <<file, stored, index, lease, task, raced>>
  BY DEF CreateRow, In, broker
<1>2. /\ seeder' \in Seeders /\ seeder'.phase = "upload" /\ seeder'.doc = d
      /\ seeder'.purge = seeder.purge /\ seeder'.create = seeder.create \ {d}
  BY <1>1 DEF Typed, Seeders, Phase
<1>3. seeder.purge = {} /\ Condemned = {} /\ Condemned' = {}
  BY <1>1, <1>2 DEF Planned, Condemned
<1>4. d \in Listed /\ row[d] = Absent /\ d \notin stored \cup file
  BY <1>1, <1>3 DEF Planned, Rowless
<1>5. /\ row'[d] \in Rows /\ row'[d] # Absent /\ row'[d].status = "pending"
      /\ row'[d].attempts = 0 /\ \A e \in Doc \ {d} : row'[e] = row[e]
  BY <1>1, RowFacts DEF Typed, Status
<1>6. Typed'
  BY <1>1, <1>2, <1>5 DEF Typed
<1>7. Leased' /\ Rowless'
  BY <1>1, <1>5, Working1 DEF Leased, Rowless, Has
<1>8. Planned'
  BY <1>1, <1>2, <1>3, <1>4, <1>5, DocAssumption DEF Planned, In, Doc
<1>9. d \notin raced' => Clean(d)'
  <2>1. d \notin raced' => Clean(d)
    BY <1>1 DEF Cleaned
  <2>2. d \notin raced' => Running(d) = {}
    <3> SUFFICES ASSUME d \notin raced', NEW w \in Running(d) PROVE FALSE
      OBVIOUS
    <3>1. task[w] \in Tasks /\ row[d] = Row("processing", task[w].attempt)
      BY <2>1, Working1 DEF Clean, Working, Running
    <3> QED
      BY <1>4, <3>1, RowFacts DEF Tasks, Status
  <2>3. d \notin raced' => Running(d)' = {} /\ index'[d] = {}
    BY <1>1, <1>4, <2>1, <2>2 DEF Clean, Running
  <2> QED
    BY <1>2, <1>3, <1>5, <2>3 DEF Clean, Has
<1>10. Cleaned'
  BY <1>1, <1>2, <1>3, <1>5, <1>9, OthersClean
<1> QED
  BY <1>6, <1>7, <1>8, <1>10

LEMMA UploadInv ==
  ASSUME Inv, Upload
  PROVE  Inv'
<1> USE DEF Inv
<1>0. PICK d \in Doc : d = seeder.doc
  BY DEF Upload, In, Typed
<1>1. /\ seeder.phase = "upload" /\ file' = file \cup {d}
      /\ seeder' = [seeder EXCEPT !.phase = "create", !.doc = Absent,
                                  !.enqueue = seeder.enqueue \cup {d}]
      /\ UNCHANGED <<row, stored, index, lease, task, raced>>
  BY <1>0 DEF Upload, In, broker
<1>2. /\ seeder' \in Seeders /\ seeder'.phase = "create"
      /\ seeder'.purge = seeder.purge /\ seeder'.create = seeder.create
  BY <1>1 DEF Typed, Seeders, Phase
<1>3. seeder.purge = {} /\ Condemned = {} /\ Condemned' = {}
  BY <1>1, <1>2 DEF Planned, Condemned
<1>4. Planned'
  BY <1>1, <1>2, <1>3 DEF Planned, In
<1>5. Rowless'
  BY <1>0, <1>1 DEF Rowless, Planned
<1> QED
  BY <1>1, <1>2, <1>3, <1>4, <1>5, MovedOn DEF Typed

LEMMA UploadFailsInv ==
  ASSUME Inv, UploadFails
  PROVE  Inv'
<1> USE DEF Inv
<1>0. PICK d \in Doc : d = seeder.doc
  BY DEF UploadFails, In, Typed
<1>1. /\ seeder.phase = "upload"
      /\ row' = [row EXCEPT ![d] = Absent] /\ stored' = stored \ {d}
      /\ index' = [index EXCEPT ![d] = IF index[d] = {} THEN {} ELSE {"stale"}]
      /\ task' = [w \in Worker |-> IF w \in Running(d) THEN [task[w] EXCEPT !.own = FALSE]
                                   ELSE task[w]]
      /\ seeder' = Plan("exit 1")
      /\ raced' = IF Running(d) # {} THEN raced \cup {d} ELSE raced
      /\ UNCHANGED <<file, lease>>
  BY <1>0 DEF UploadFails, In, broker
<1>2. file' = file \ {d}
  BY <1>0, <1>1 DEF Planned
<1>3. seeder' \in Seeders /\ seeder'.phase = "exit 1" /\ seeder'.purge = {}
      /\ seeder'.create = {}
  BY <1>1, PlanFacts DEF Phase
<1>4. Condemned' = {}
  BY <1>3 DEF Condemned
<1>5. Planned'
  BY <1>3 DEF Planned, In
<1>6. d \notin raced' => Running(d) = {} /\ index[d] = {}
  BY <1>0, <1>1 DEF Cleaned, Clean
<1> QED
  BY <1>1, <1>2, <1>3, <1>4, <1>5, <1>6, RowGone
-----------------------------------------------------------------------------
LEMMA NextInv == Inv /\ [Next]_vars => Inv'
<1> SUFFICES ASSUME Inv, [Next]_vars PROVE Inv'
  OBVIOUS
<1>1. CASE Advance
  BY <1>1, StartInv, TurnsInv, PurgeRowsInv, UploadInv, QueueInv, EndInv, PurgeIndexesInv,
     CreateRowInv DEF Advance
<1>2. CASE UploadFails \/ SendFails \/ TimedOut \/ Crash
  BY <1>2, UploadFailsInv, QueueInv, EndInv
<1>3. ASSUME NEW w \in Worker, Work(w) \/ Raise(w) \/ Kill(w) PROVE Inv'
  BY <1>3, FetchInv, PersistInv, IndexInv, FinishInv, FailedInv, KillInv DEF Work, Raise
<1>4. ASSUME NEW d \in Doc, Deliver(d) \/ LeaseExpires(d) PROVE Inv'
  <2>1. CASE Drop(d) \/ Refuse(d)
    BY <2>1, ExpiresInv DEF Drop, Refuse, store, Inv, Typed
  <2>2. CASE LeaseExpires(d)
    <3>1. lease[d] = Dead /\ lease' = [lease EXCEPT ![d] = NoOne]
      BY <2>2 DEF LeaseExpires
    <3>2. DOMAIN lease' = Doc /\ \A e \in Doc : lease[e] \in Worker => lease'[e] = lease[e]
      BY <3>1, WorkerAssumption DEF Inv, Typed
    <3> QED
      BY <2>2, <3>2, ExpiresInv DEF LeaseExpires, store
  <2> QED
    BY <1>4, <2>1, <2>2, ClaimInv DEF Deliver
<1>5. CASE UNCHANGED vars
  BY <1>5, ExpiresInv DEF vars, Inv, Typed
<1> QED
  BY <1>1, <1>2, <1>3, <1>4, <1>5 DEF Next

\* Inv says what CorpusIsExact says of the documents that are offered and, once a
\* run has ended well, of those that are not listed.
LEMMA InvExact == Inv => CorpusIsExact
<1> SUFFICES ASSUME Inv PROVE CorpusIsExact
  OBVIOUS
<1> USE DEF Inv
<1>1. Offered => \A d \in Listed \ raced : Searchable(d)
  BY DEF Offered, AllReady, Cleaned, Clean, Doc
<1>2. ASSUME In("exit 0") PROVE /\ AllReady
                                /\ \A d \in Unlisted : row[d] = Absent
  BY <1>2 DEF Planned, Condemned, In
<1>3. In("exit 0") => \A d \in Unlisted : d \notin stored \cup file
  BY <1>2 DEF Rowless, Doc
<1>4. In("exit 0") => \A d \in Unlisted \ raced : index[d] = {}
  BY <1>2 DEF Cleaned, Clean, Doc
<1> QED
  BY <1>1, <1>2, <1>3, <1>4 DEF CorpusIsExact

\* Whatever happens to the Job, the workers and the broker, and however often, the
\* samples that are offered can be searched, each by its own chunks, and a run that
\* ended well leaves nothing of an earlier manifest (seed.py, samples.py, tasks.py).
THEOREM Exact == Spec => []CorpusIsExact
<1>1. Inv => CorpusIsExact
  BY InvExact
<1> QED
  BY InitInv, NextInv, <1>1, PTL DEF Spec
=============================================================================
