-------------------------- MODULE ChatRequestProofs --------------------------
(***************************************************************************)
(* Theorems about ChatRequest, for any number of POSTs and executions, any *)
(* cap and any budget of faults: types, at most one enqueue (OneEnqueue),  *)
(* at most MaxAttempts billed executions (BilledCap); and, while requests  *)
(* are not redelivered beside a live execution and Redis and Postgres      *)
(* answer, that completed is final (CompletedIsFinal), that a reader is    *)
(* told the truth (ToldIsPersisted) and reads one execution's answer       *)
(* (OneAnswerInStream).                                                    *)
(***************************************************************************)
EXTENDS ChatRequest, SequenceTheorems, TLAPS

RowType ==
  /\ status \in Status /\ attempts \in 0 .. MaxAttempts + 1
  /\ message \in {"none", "in_progress", "completed", "error"}
LockType == lock \in Task \cup {NoTask}
PostType == ppc \in [Post -> {"new", "admit", "commit", "enqueue", "answered",
                              "refused"}]
BrokerType == queue \in Nat /\ unacked \in Nat
StageType == pc \in [Task -> Stage]
LocalType ==
  /\ attempt \in [Task -> 0 .. MaxAttempts] /\ read \in [Task -> Status]
  /\ detached \in SUBSET Task /\ frozen \in SUBSET Task
StreamType == log \in Seq(Event) /\ first \in Nat \ {0}
ReaderType == sub \in {"off", "reading", "complete", "error"} /\ pos \in Nat
SpentType == spent \in [Kind -> Nat]
HistoryType ==
  mishaps \in SUBSET {"early", "silent"} /\ billed \in Nat /\ enqueued \in Nat

\* The groups of TypeOK, each with what keeps it.
LEMMA Frames ==
  ASSUME TypeOK
  PROVE  /\ RowType /\ LockType /\ PostType /\ BrokerType /\ StageType
         /\ LocalType /\ StreamType /\ ReaderType /\ SpentType /\ HistoryType
         /\ UNCHANGED row => RowType'
         /\ UNCHANGED lock => LockType'
         /\ UNCHANGED ppc => PostType'
         /\ UNCHANGED broker => BrokerType'
         /\ UNCHANGED pc => StageType'
         /\ UNCHANGED local => LocalType'
         /\ UNCHANGED stream => StreamType'
         /\ UNCHANGED reader => ReaderType'
         /\ UNCHANGED spent => SpentType'
         /\ UNCHANGED history => HistoryType'
BY DEF TypeOK, RowType, LockType, PostType, BrokerType, StageType, LocalType,
       StreamType, ReaderType, SpentType, HistoryType, row, broker, local,
       stream, reader, history

LEMMA Grouped ==
  ASSUME RowType', LockType', PostType', BrokerType', StageType', LocalType',
         StreamType', ReaderType', SpentType', HistoryType', old' \in BOOLEAN
  PROVE  TypeOK'
BY DEF TypeOK, RowType, LockType, PostType, BrokerType, StageType, LocalType,
       StreamType, ReaderType, SpentType, HistoryType

LEMMA SpendType ==
  ASSUME NEW kind, SpentType, Spend(kind)
  PROVE  SpentType'
<1>1. CASE kind \in Kind
  <2>1. spent[kind] + 1 \in Nat
    BY <1>1 DEF SpentType
  <2> QED
    BY <2>1 DEF Spend, SpentType
<1>2. CASE kind \notin Kind
  <2>1. [spent EXCEPT ![kind] = @ + 1] = spent
    BY <1>2, Zenon DEF SpentType
  <2> QED
    BY <2>1 DEF Spend, SpentType
<1> QED
  BY <1>1, <1>2

LEMMA EmitType ==
  ASSUME TypeOK, NEW t \in Task, NEW next \in Stage, NEW handler \in Stage,
         NEW type \in {"delta", "usage", "error"}, Emit(t, type, next, handler),
         first' = first
  PROVE  StreamType' /\ StageType' /\ SpentType'
<1>1. Append(log, [type |-> type, by |-> t]) \in Seq(Event)
  BY AppendProperties DEF TypeOK, Event
<1>2. StreamType'
  BY <1>1 DEF Emit, StreamType, TypeOK
<1>3. StageType'
  BY DEF Emit, GoTo, StageType, TypeOK
<1>4. SpentType'
  BY Frames, SpendType DEF Emit, SpentType
<1> QED
  BY <1>2, <1>3, <1>4

LEMMA EndType ==
  ASSUME TypeOK, NEW t \in Task, End(t)
  PROVE  LockType' /\ StageType' /\ LocalType'
BY AttemptsAssumption
DEF TypeOK, End, GoTo, Rollback, LockType, StageType, LocalType, Stage, Status

\* What an execution does to the counter.
LEMMA CounterType ==
  ASSUME TypeOK, NEW t \in Task
  PROVE  /\ Larger(attempts, attempt[t]) \in 0 .. MaxAttempts + 1
         /\ MaxAttempts + 1 \in 0 .. MaxAttempts + 1
         /\ attempts < MaxAttempts => attempts + 1 \in 0 .. MaxAttempts
<1>1. attempts \in 0 .. MaxAttempts + 1 /\ attempt[t] \in 0 .. MaxAttempts
  BY DEF TypeOK
<1>2. MaxAttempts \in Nat
  BY AttemptsAssumption
<1> QED
  BY <1>1, <1>2 DEF Larger

LEMMA TypeInit == Init => TypeOK
<1> SUFFICES ASSUME Init PROVE TypeOK
  OBVIOUS
<1>1. 0 \in 0 .. MaxAttempts /\ 0 \in 0 .. MaxAttempts + 1
  BY AttemptsAssumption
<1>2. <<>> \in Seq(Event)
  OBVIOUS
<1>3. "idle" \in Stage /\ "absent" \in Status
  BY DEF Stage, Status
<1>4. /\ attempt \in [Task -> 0 .. MaxAttempts] /\ read \in [Task -> Status]
      /\ pc \in [Task -> Stage] /\ spent \in [Kind -> Nat]
  BY <1>1, <1>3 DEF Init
<1>5. status \in Status /\ attempts \in 0 .. MaxAttempts + 1
  BY <1>1, <1>3 DEF Init
<1>6. /\ lock \in Task \cup {NoTask}
      /\ ppc \in [Post -> {"new", "admit", "commit", "enqueue", "answered",
                           "refused"}]
      /\ log \in Seq(Event) /\ first \in Nat \ {0}
  BY <1>2 DEF Init
<1>7. /\ message = "none" /\ queue = 0 /\ unacked = 0 /\ detached = {}
      /\ frozen = {} /\ sub = "off" /\ pos = 0 /\ mishaps = {} /\ billed = 0
      /\ enqueued = 0
  BY DEF Init
<1>8. old \in BOOLEAN
  BY Zenon DEF Init
<1> QED
  BY <1>4, <1>5, <1>6, <1>7, <1>8 DEF TypeOK

LEMMA TypeNext == TypeOK /\ [Next]_vars => TypeOK'
<1> SUFFICES ASSUME TypeOK, [Next]_vars PROVE TypeOK'
  OBVIOUS
<1>1. old \in BOOLEAN
  BY DEF TypeOK
<1> USE Grouped, Frames, <1>1
<1>2. ASSUME NEW p \in Post, PostLookup(p) PROVE TypeOK'
  BY <1>2 DEF PostLookup, row, broker, local, stream, reader, history,
     PostType
<1>3. ASSUME NEW p \in Post, PostAdmit(p) PROVE TypeOK'
  BY <1>3, SpendType DEF PostAdmit, row, broker, local, stream, reader,
     history, PostType
<1>4. ASSUME NEW p \in Post, PostCommit(p) PROVE TypeOK'
  BY <1>4 DEF PostCommit, row, broker, local, stream, reader, history,
     RowType, PostType, Status
<1>5. ASSUME NEW p \in Post, PostEnqueue(p) PROVE TypeOK'
  BY <1>5, SpendType DEF PostEnqueue, row, local, stream, reader, BrokerType,
     broker, HistoryType, history, PostType
<1>6. ASSUME NEW t \in Task, Load(t) PROVE TypeOK'
  <2> DEFINE next == CASE status = "completed" -> "exit"
                       [] status # "completed" /\ old -> "expire"
                       [] OTHER -> "count"
  <2>1. next \in {"exit", "expire", "count"}
    OBVIOUS
  <2>2. GoTo(t, next)
    BY <1>6 DEF Load
  <2> HIDE DEF next
  <2>3. StageType'
    BY <2>1, <2>2 DEF GoTo, StageType, Stage, Early
  <2> QED
    BY <1>6, <2>3 DEF Load, row, broker, stream, reader, history, LocalType,
       RowType
<1>7. ASSUME NEW t \in Task, Expire(t) PROVE TypeOK'
  BY <1>7 DEF Expire, At, GoTo, broker, local, stream, reader, history,
     RowType, row, StageType, Stage, Status, Early
<1>8. ASSUME NEW t \in Task, Count(t) PROVE TypeOK'
  <2>1. RowType'
    <3>1. attempts' \in 0 .. MaxAttempts + 1 /\ status' \in Status
      BY <1>8, CounterType DEF Count, RowType, Status, row
    <3>2. message' = message
      BY <1>8 DEF Count, row
    <3> QED
      BY <3>1, <3>2 DEF RowType
  <2>2. LocalType'
    <3>2. /\ \/ attempt' = attempt
             \/ /\ attempts < MaxAttempts
                /\ attempt' = [attempt EXCEPT ![t] = attempts + 1]
          /\ UNCHANGED <<read, detached, frozen>>
      BY <1>8 DEF Count
    <3>3. attempt' \in [Task -> 0 .. MaxAttempts]
      BY <3>2, CounterType DEF LocalType
    <3> QED
      BY <3>2, <3>3 DEF LocalType
  <2> QED
    BY <1>8, <2>1, <2>2 DEF Count, GoTo, broker, stream, reader, history,
       LockType, StageType, Stage
<1>9. ASSUME NEW t \in Task, Tell(t) PROVE TypeOK'
  BY <1>9, EmitType DEF Tell, At, row, broker, local, reader, history,
     StreamType, stream, Early, Stage
<1>10. ASSUME NEW t \in Task, Open(t) PROVE TypeOK'
  BY <1>10, SpendType DEF Open, At, GoTo, row, broker, local, reader, history,
     StreamType, stream, StageType, Stage
<1>11. ASSUME NEW t \in Task, CommitRun(t) PROVE TypeOK'
  <2>1. RowType'
    <3>3. attempts' \in 0 .. MaxAttempts + 1
      BY <1>11, CounterType DEF CommitRun
    <3>4. status' \in Status /\ message' = message
      BY <1>11 DEF CommitRun, RowType, Status
    <3> QED
      BY <3>3, <3>4 DEF RowType, Status
  <2> QED
    BY <1>11, <2>1 DEF CommitRun, GoTo, broker, local, stream, reader,
       HistoryType, LockType, StageType, Stage
<1>12. ASSUME NEW t \in Task, Refuse(t) PROVE TypeOK'
  BY <1>12, EmitType DEF Refuse, At, Rollback, row, broker, local, reader,
     history, StreamType, stream, LockType, StageType, Stage, Short
<1>13. ASSUME NEW t \in Task, ShortUsage(t) PROVE TypeOK'
  BY <1>13, EmitType DEF ShortUsage, At, row, broker, local, reader, history,
     StreamType, stream, LockType, StageType, Stage, Short
<1>14. ASSUME NEW t \in Task, ShortCommit(t) PROVE TypeOK'
  <2>1. RowType'
    <3>3. attempts' \in 0 .. MaxAttempts + 1
      BY <1>14, CounterType DEF ShortCommit
    <3>4. status' = "completed" /\ message' = "completed"
      BY <1>14 DEF ShortCommit, RowType, Status
    <3> QED
      BY <3>3, <3>4 DEF RowType, Status
  <2> QED
    BY <1>14, <2>1 DEF ShortCommit, GoTo, broker, local, stream, reader,
       history, LockType, StageType, Stage
<1>15. ASSUME NEW t \in Task, Work(t) PROVE TypeOK'
  BY <1>15 DEF Work, At, GoTo, row, broker, local, stream, reader, history,
     StageType, Stage, Caught
<1>16. ASSUME NEW t \in Task, Stream(t) PROVE TypeOK'
  BY <1>16, EmitType DEF Stream, At, row, broker, local, reader, history,
     StreamType, stream, Caught, Stage
<1>17. ASSUME NEW t \in Task, Persist(t) PROVE TypeOK'
  BY <1>17 DEF Persist, At, GoTo, broker, local, stream, reader, history,
     RowType, row, StageType, Stage, Status, Caught
<1>18. ASSUME NEW t \in Task, Usage(t) PROVE TypeOK'
  BY <1>18, EmitType DEF Usage, At, row, broker, local, reader, history,
     StreamType, stream, Caught, Stage
<1>19. ASSUME NEW t \in Task, CaughtTell(t) PROVE TypeOK'
  BY <1>19, EmitType DEF CaughtTell, At, row, broker, local, reader, history,
     StreamType, stream, LockType, StageType, Stage
<1>20. ASSUME NEW t \in Task, CaughtCommit(t) PROVE TypeOK'
  BY <1>20 DEF CaughtCommit, At, GoTo, broker, local, stream, reader, history,
     RowType, row, LockType, StageType, Stage, Status
<1>21. ASSUME NEW t \in Task, SetFailed(t) PROVE TypeOK'
  BY <1>21, SpendType DEF SetFailed, At, GoTo, broker, local, stream, reader,
     history, RowType, row, StageType, Stage, Status
<1>22. ASSUME NEW t \in Task, FailTell(t) PROVE TypeOK'
  BY <1>22, EmitType DEF FailTell, At, row, broker, local, reader, history,
     StreamType, stream, Stage
<1>23. ASSUME NEW t \in Task, Exit(t) PROVE TypeOK'
  BY <1>23, EndType DEF Exit, At, row, broker, stream, reader, history
<1>24. ASSUME NEW t \in Task, Deliver(t) PROVE TypeOK'
  BY <1>24 DEF Deliver, GoTo, row, local, stream, reader, history, BrokerType,
     broker, StageType, Stage, Early
<1>25. ASSUME NEW t \in Task, StageFails(t) PROVE TypeOK'
  BY <1>25, SpendType DEF StageFails, At, GoTo, Rollback, NoteEarly, row,
     broker, local, stream, reader, HistoryType, history, LockType, StageType,
     Stage
<1>26. ASSUME NEW t \in Task, DbFails(t) PROVE TypeOK'
  BY <1>26, SpendType DEF DbFails, At, GoTo, Rollback, NoteEarly, row, broker,
     local, stream, reader, HistoryType, history, LockType, StageType, Stage
<1>27. ASSUME NEW t \in Task, Crash(t) PROVE TypeOK'
  BY <1>27, SpendType, EndType DEF Crash, NoteKilled, row, stream, reader,
     BrokerType, broker, HistoryType, history
<1>28. ASSUME NEW t \in Task, WorkerLost(t) PROVE TypeOK'
  BY <1>28, SpendType, EndType DEF WorkerLost, NoteKilled, row, stream,
     reader, BrokerType, broker, HistoryType, history
<1>29. ASSUME NEW t \in Task, Redeliver(t) PROVE TypeOK'
  BY <1>29, SpendType DEF Redeliver, row, stream, reader, history, BrokerType,
     broker, LocalType, local, Status
<1>30. ASSUME NEW t \in Task, HardLimit(t) PROVE TypeOK'
  BY <1>30, SpendType, EndType DEF HardLimit, NoteKilled, row, broker, stream,
     reader, HistoryType, history
<1>31. ASSUME NEW t \in Task, SoftLimitEscapes(t) PROVE TypeOK'
  BY <1>31, SpendType DEF SoftLimitEscapes, NoteKilled, row, broker, stream,
     reader, LocalType, local, HistoryType, history, Status
<1>32. ASSUME NEW t \in Task, Thaw(t) PROVE TypeOK'
  BY <1>32 DEF Thaw, row, broker, stream, reader, history, LocalType, local,
     Status
<1>33. CASE VisibilityTimeout
  BY <1>33 DEF VisibilityTimeout, row, local, stream, reader, history,
     BrokerType, broker
<1>34. CASE Age \/ UNCHANGED vars
  BY <1>34 DEF Age, vars, row, broker, local, stream, reader, history
<1>35. CASE Reading
  BY <1>35, SpendType DEF Reading, Subscribe, ReadEvent, Reload, GiveUp,
     NextEvent, Larger, row, broker, local, stream, reader, history,
     ReaderType, StreamType
<1> QED
  BY <1>2, <1>3, <1>4, <1>5, <1>6, <1>7, <1>8, <1>9, <1>10, <1>11, <1>12,
     <1>13, <1>14, <1>15, <1>16, <1>17, <1>18, <1>19, <1>20, <1>21, <1>22,
     <1>23, <1>24, <1>25, <1>26, <1>27, <1>28, <1>29, <1>30, <1>31, <1>32,
     <1>33, <1>34, <1>35 DEF Next, Posting, Progress, Trouble

\* Each variable keeps its range, for any number of POSTs and executions.
THEOREM TypeCorrect == Spec => []TypeOK
BY TypeInit, TypeNext, PTL DEF Spec
-----------------------------------------------------------------------------
(* One enqueue.                                                            *)

\* Strengthens OneEnqueue: who is about to enqueue is alone, and is there only
\* once the row exists and before anything was enqueued.
OneSender ==
  /\ enqueued <= 1
  /\ status = "absent" => enqueued = 0 /\ \A p \in Post : ppc[p] # "enqueue"
  /\ \A p, q \in Post : ppc[p] = "enqueue" =>
       enqueued = 0 /\ (ppc[q] = "enqueue" => p = q)

\* Nothing but a POST touches the POSTs, and the row never goes.
LEMMA OthersPostNothing ==
  ASSUME TypeOK, [Next]_vars, \A p \in Post : ~Posting(p)
  PROVE  UNCHANGED <<ppc, enqueued>> /\ (status' = "absent" => status = "absent")
<1>1. CASE Reading \/ Age \/ VisibilityTimeout \/ UNCHANGED vars
  BY <1>1 DEF Reading, Subscribe, ReadEvent, Reload, GiveUp, Age,
     VisibilityTimeout, vars, row, history
<1>2. ASSUME NEW t \in Task, Deliver(t) \/ Progress(t)
      PROVE  /\ UNCHANGED <<ppc, enqueued>>
             /\ status' = "absent" => status = "absent"
  <2>1. CASE Deliver(t) \/ Load(t) \/ Expire(t) \/ Count(t) \/ Tell(t) \/ Open(t)
    BY <2>1 DEF Deliver, Load, Expire, Count, Tell, Open, row, history
  <2>2. CASE CommitRun(t) \/ Refuse(t) \/ ShortUsage(t) \/ ShortCommit(t)
    BY <2>2 DEF CommitRun, Refuse, ShortUsage, ShortCommit, row, history
  <2>3. CASE Work(t) \/ Stream(t) \/ Persist(t) \/ Usage(t)
    BY <2>3 DEF Work, Stream, Persist, Usage, row, history
  <2>4. CASE \/ CaughtTell(t) \/ CaughtCommit(t) \/ SetFailed(t) \/ FailTell(t)
             \/ Exit(t)
    BY <2>4 DEF CaughtTell, CaughtCommit, SetFailed, FailTell, Exit, row,
       history
  <2> QED
    BY <1>2, <2>1, <2>2, <2>3, <2>4 DEF Progress
<1>3. ASSUME NEW t \in Task, Trouble(t)
      PROVE  UNCHANGED <<ppc, enqueued, status>>
  BY <1>3 DEF Trouble, StageFails, DbFails, Crash, WorkerLost, Redeliver,
     HardLimit, SoftLimitEscapes, Thaw, row, history
<1> QED
  BY <1>1, <1>2, <1>3 DEF Next

LEMMA OneSenderNext == TypeOK /\ OneSender /\ [Next]_vars => OneSender'
<1> SUFFICES ASSUME TypeOK, OneSender, [Next]_vars PROVE OneSender'
  OBVIOUS
<1> USE DEF OneSender, TypeOK
<1>1. ASSUME NEW p \in Post, PostLookup(p) \/ PostAdmit(p) PROVE OneSender'
  BY <1>1 DEF PostLookup, PostAdmit, row, history
<1>2. ASSUME NEW p \in Post, PostCommit(p) PROVE OneSender'
  BY <1>2 DEF PostCommit, row, history
<1>3. ASSUME NEW p \in Post, PostEnqueue(p) PROVE OneSender'
  <2>1. /\ ppc[p] = "enqueue" /\ status' = status
        /\ \A q \in Post \ {p} : ppc[q] # "enqueue" /\ ppc'[q] = ppc[q]
        /\ ppc'[p] \in {"answered", "refused"}
        /\ enqueued' \in {enqueued, enqueued + 1}
    BY <1>3 DEF PostEnqueue, row
  <2>2. status # "absent" /\ enqueued = 0
    BY <2>1
  <2> QED
    BY <2>1, <2>2
<1>4. CASE \A p \in Post : ~Posting(p)
  BY <1>4, OthersPostNothing
<1> QED
  BY <1>1, <1>2, <1>3, <1>4 DEF Posting

\* However often a POST is retried, and wherever it dies, one message of the
\* request is enqueued at most: the unique index on client_request_id lets one
\* POST through.
THEOREM EnqueuedOnce == Spec => []OneEnqueue
<1>1. Init => OneSender
  BY DEF Init, OneSender
<1>2. OneSender => OneEnqueue
  BY DEF OneSender, OneEnqueue
<1> QED
  BY <1>1, <1>2, OneSenderNext, TypeCorrect, PTL DEF Spec
-----------------------------------------------------------------------------
(* The billing cap.                                                        *)

\* The stages in which an execution has written the row and not committed.
Holding == {"open", "scan", "shortcommit", "caughtcommit"}

\* Strengthens BilledCap: whoever counted and has not committed has the row
\* locked, and its attempt is the next one.  So no two executions commit the
\* same attempt, and every billed one is covered by a committed attempt.
Accounts ==
  /\ billed <= attempts /\ billed <= MaxAttempts
  /\ \A t \in Task :
       /\ pc[t] \in Holding => lock = t
       /\ pc[t] \in {"open", "scan"} => attempt[t] = attempts + 1

\* A step of one execution that leaves the counters alone.
Aside(t) ==
  /\ UNCHANGED <<attempts, billed>> /\ (lock' = lock \/ MayWrite(t))
  /\ \A u \in Task \ {t} : pc'[u] = pc[u] /\ attempt'[u] = attempt[u]
  /\ pc'[t] \in Holding =>
       \/ lock' = t /\ pc'[t] \notin {"open", "scan"}
       \/ /\ UNCHANGED <<lock, attempt>>
          /\ pc'[t] = pc[t] \/ (pc[t] = "open" /\ pc'[t] = "scan")

LEMMA AsideKeeps ==
  ASSUME TypeOK, Accounts, NEW t \in Task, Aside(t)
  PROVE  Accounts'
BY NoTaskAssumption DEF Accounts, Aside, MayWrite, TypeOK, Holding

LEMMA ProgressAside ==
  ASSUME TypeOK, Accounts, NEW t \in Task, Deliver(t) \/ Progress(t),
         ~Count(t), ~CommitRun(t), ~ShortCommit(t)
  PROVE  Aside(t)
<1> USE DEF Aside, TypeOK, At, GoTo, MayWrite, Holding
<1>1. CASE Load(t)
  <2>1. /\ pc' = [pc EXCEPT ![t] = pc'[t]]
        /\ pc'[t] \in {"exit", "expire", "count"}
    BY <1>1 DEF Load
  <2> QED
    BY <1>1, <2>1 DEF Load, row, history
<1>2. CASE Deliver(t) \/ Expire(t) \/ Open(t)
  BY <1>2 DEF Deliver, Expire, Open, row, local, history
<1>3. CASE Tell(t) \/ Stream(t) \/ Usage(t) \/ FailTell(t)
  BY <1>3 DEF Tell, Stream, Usage, FailTell, Emit, row, local, history
<1>4. CASE Refuse(t)
  BY <1>4 DEF Refuse, Emit, Rollback, row, local, history
<1>5. CASE ShortUsage(t) \/ CaughtTell(t)
  BY <1>5 DEF ShortUsage, CaughtTell, Emit, row, local, history
<1>6. CASE Work(t) \/ Persist(t) \/ SetFailed(t)
  BY <1>6 DEF Work, Persist, SetFailed, row, local, history
<1>7. CASE CaughtCommit(t)
  BY <1>7 DEF CaughtCommit, Accounts, local, history
<1>8. CASE Exit(t)
  BY <1>8 DEF Exit, End, Rollback, row, history
<1> QED
  BY <1>1, <1>2, <1>3, <1>4, <1>5, <1>6, <1>7, <1>8 DEF Progress

LEMMA TroubleAside ==
  ASSUME TypeOK, NEW t \in Task, Trouble(t)
  PROVE  Aside(t)
<1> USE DEF Aside, TypeOK, GoTo, MayWrite, Holding
<1>1. CASE StageFails(t) \/ DbFails(t)
  BY <1>1 DEF StageFails, DbFails, Rollback, Caught, row, local
<1>2. CASE Crash(t) \/ WorkerLost(t) \/ HardLimit(t)
  BY <1>2 DEF Crash, WorkerLost, HardLimit, End, Rollback, row
<1>3. CASE Redeliver(t) \/ SoftLimitEscapes(t) \/ Thaw(t)
  BY <1>3 DEF Redeliver, SoftLimitEscapes, Thaw, row, history
<1> QED
  BY <1>1, <1>2, <1>3 DEF Trouble

LEMMA AccountsNext == TypeOK /\ Accounts /\ [Next]_vars => Accounts'
<1> SUFFICES ASSUME TypeOK, Accounts, [Next]_vars PROVE Accounts'
  OBVIOUS
<1> USE NoTaskAssumption, AttemptsAssumption
<1>1. ASSUME NEW t \in Task, Count(t) PROVE Accounts'
  BY <1>1 DEF Count, Accounts, TypeOK, MayWrite, At, GoTo, Holding, row, history
<1>2. ASSUME NEW t \in Task, CommitRun(t) PROVE Accounts'
  BY <1>2 DEF CommitRun, Accounts, TypeOK, At, GoTo, Holding, Larger, local
<1>3. ASSUME NEW t \in Task, ShortCommit(t) PROVE Accounts'
  BY <1>3 DEF ShortCommit, Accounts, TypeOK, At, GoTo, Holding, Larger, local,
     history
<1>4. CASE \/ Reading \/ Age \/ VisibilityTimeout \/ UNCHANGED vars
           \/ \E p \in Post : Posting(p)
  BY <1>4 DEF Reading, Subscribe, ReadEvent, Reload, GiveUp, Age,
     VisibilityTimeout, Posting, PostLookup, PostAdmit, PostCommit,
     PostEnqueue, vars, row, local, history, Accounts
<1> QED
  BY <1>1, <1>2, <1>3, <1>4, ProgressAside, TroubleAside, AsideKeeps DEF Next

\* However a request is redelivered, killed, suspended or run beside itself, at
\* most CHAT_MAX_ATTEMPTS executions reach the provider: the increment keeps
\* the row locked until it is committed, so an attempt is lost only with the
\* execution that had it, before it was billed.
THEOREM BilledAtMost == Spec => []BilledCap
<1>1. Init => Accounts
  BY AttemptsAssumption DEF Init, Accounts, Holding
<1>2. Accounts => BilledCap
  BY DEF Accounts, BilledCap
<1> QED
  BY <1>1, <1>2, AccountsNext, TypeCorrect, PTL DEF Spec
-----------------------------------------------------------------------------
(* One execution at a time.                                                *)

Busy(t) == pc[t] # "idle"

\* Without redeliveries beside a live execution there is one message or one
\* execution, and it is not suspended.
Alone ==
  /\ detached = {} /\ frozen = {} /\ queue + unacked <= enqueued
  /\ \A t \in Task : Busy(t) =>
       /\ queue = 0 /\ unacked = 0 /\ enqueued = 1
       /\ \A u \in Task : Busy(u) => u = t
Solo == Calm => Alone

\* A fault of the kinds Calm excludes is one for good.
LEMMA Spent ==
  ASSUME TypeOK, NEW kind \in Kind, Spend(kind)
  PROVE  /\ Calm' => Calm /\ kind \notin {"beside", "freeze", "redis", "db"}
         /\ spent'["stage"] = 0 => spent["stage"] = 0 /\ kind # "stage"
<1> USE DEF Kind
<1>1. /\ spent \in [Kind -> Nat] /\ spent' = [spent EXCEPT ![kind] = @ + 1]
  BY DEF TypeOK, Spend
<1>2. \A k \in Kind : /\ spent[k] \in Nat
                      /\ spent'[k] = IF k = kind THEN spent[k] + 1 ELSE spent[k]
  BY <1>1
<1>3. \A k \in Kind : spent'[k] = 0 => spent[k] = 0 /\ k # kind
  BY <1>2
<1> QED
  BY <1>3 DEF Calm

\* An event is added, and the handler not entered.
LEMMA CalmEmit ==
  ASSUME TypeOK, Calm', NEW t \in Task, NEW next, NEW handler, NEW type,
         Emit(t, type, next, handler)
  PROVE  /\ log' = Append(log, [type |-> type, by |-> t]) /\ GoTo(t, next)
         /\ UNCHANGED spent
BY Spent DEF Emit, Kind

LEMMA CalmBefore ==
  ASSUME TypeOK, [Next]_vars
  PROVE  /\ Calm' => Calm
         /\ spent'["stage"] = 0 => spent["stage"] = 0
         /\ mishaps \subseteq mishaps'
<1> DEFINE Grows == \/ UNCHANGED spent
                    \/ \E k \in Kind : Spend(k)
<1>1. Grows => (Calm' => Calm) /\ (spent'["stage"] = 0 => spent["stage"] = 0)
  BY Spent DEF Calm
<1> USE DEF Kind
<1>2. CASE Reading \/ Age \/ VisibilityTimeout \/ UNCHANGED vars
  BY <1>2, <1>1 DEF Reading, Subscribe, ReadEvent, Reload, GiveUp, Age,
     VisibilityTimeout, vars, history
<1>3. ASSUME NEW p \in Post, Posting(p)
      PROVE  Grows /\ mishaps \subseteq mishaps'
  BY <1>3 DEF Posting, PostLookup, PostAdmit, PostCommit, PostEnqueue, history
<1>4. ASSUME NEW t \in Task, Deliver(t) \/ Progress(t)
      PROVE  Grows /\ mishaps \subseteq mishaps'
  <2>1. CASE Deliver(t) \/ Load(t) \/ Expire(t) \/ Count(t) \/ Open(t)
             \/ CommitRun(t) \/ ShortCommit(t) \/ Work(t) \/ Persist(t)
    BY <2>1 DEF Deliver, Load, Expire, Count, Open, CommitRun, ShortCommit,
       Work, Persist, history
  <2>2. CASE Tell(t) \/ Refuse(t) \/ ShortUsage(t) \/ Stream(t) \/ Usage(t)
    BY <2>2 DEF Tell, Refuse, ShortUsage, Stream, Usage, Emit, history
  <2>3. CASE CaughtTell(t) \/ CaughtCommit(t) \/ SetFailed(t) \/ FailTell(t)
             \/ Exit(t)
    BY <2>3 DEF CaughtTell, CaughtCommit, SetFailed, FailTell, Exit, Emit,
       history
  <2> QED
    BY <1>4, <2>1, <2>2, <2>3 DEF Progress
<1>5. ASSUME NEW t \in Task, Trouble(t)
      PROVE  Grows /\ mishaps \subseteq mishaps'
  BY <1>5 DEF Trouble, StageFails, DbFails, Crash, WorkerLost, Redeliver,
     HardLimit, SoftLimitEscapes, Thaw, NoteEarly, NoteKilled, history
<1> QED
  BY <1>1, <1>2, <1>3, <1>4, <1>5 DEF Next

\* A step of t that leaves the broker alone.
LEMMA SoloStep ==
  ASSUME TypeOK, Alone, NEW t \in Task, Busy(t),
         UNCHANGED <<detached, frozen, queue, unacked, enqueued>>,
         \A u \in Task \ {t} : pc'[u] = pc[u]
  PROVE  Alone'
BY DEF Alone, Busy

\* A step of one execution: the others stay where they are, and the broker sees
\* at most the acknowledgement.
LEMMA ProgressMoves ==
  ASSUME TypeOK, NEW t \in Task, Progress(t)
  PROVE  /\ Busy(t) /\ \A u \in Task \ {t} : pc'[u] = pc[u]
         /\ ~Exit(t) => UNCHANGED <<detached, frozen, queue, unacked, enqueued>>
<1>1. CASE Load(t) \/ Expire(t) \/ Count(t) \/ Open(t) \/ CommitRun(t)
           \/ ShortCommit(t) \/ Work(t) \/ Persist(t)
  BY <1>1 DEF Load, Expire, Count, Open, CommitRun, ShortCommit, Work, Persist,
     At, GoTo, Busy, broker, local, history, TypeOK
<1>2. CASE Tell(t) \/ Refuse(t) \/ ShortUsage(t) \/ Stream(t) \/ Usage(t)
  BY <1>2 DEF Tell, Refuse, ShortUsage, Stream, Usage, Emit, At, GoTo, Busy,
     broker, local, history, TypeOK
<1>3. CASE CaughtTell(t) \/ CaughtCommit(t) \/ SetFailed(t) \/ FailTell(t)
  BY <1>3 DEF CaughtTell, CaughtCommit, SetFailed, FailTell, Emit, At, GoTo,
     Busy, broker, local, history, TypeOK
<1>4. CASE Exit(t)
  BY <1>4 DEF Exit, End, At, GoTo, Busy, TypeOK
<1> QED
  BY <1>1, <1>2, <1>3, <1>4 DEF Progress

LEMMA SoloNext == TypeOK /\ OneSender /\ Solo /\ [Next]_vars => Solo'
<1> SUFFICES ASSUME TypeOK, OneSender, Alone, Calm', Calm, [Next]_vars
             PROVE  Alone'
  BY CalmBefore DEF Solo
<1>1. CASE Reading \/ Age \/ UNCHANGED vars
  BY <1>1 DEF Reading, Subscribe, ReadEvent, Reload, GiveUp, Age, vars,
     broker, local, history, Alone, Busy
<1>2. CASE VisibilityTimeout
  BY <1>2 DEF VisibilityTimeout, local, history, Alone, Busy, TypeOK
<1>3. ASSUME NEW p \in Post, Posting(p) PROVE Alone'
  <2>1. CASE PostLookup(p) \/ PostAdmit(p) \/ PostCommit(p)
    BY <2>1 DEF PostLookup, PostAdmit, PostCommit, broker, local, history,
       Alone, Busy
  <2>2. CASE PostEnqueue(p)
    BY <2>2 DEF PostEnqueue, local, Alone, Busy, OneSender, TypeOK
  <2> QED
    BY <1>3, <2>1, <2>2 DEF Posting
<1>4. ASSUME NEW t \in Task, Deliver(t) PROVE Alone'
  BY <1>4 DEF Deliver, GoTo, local, history, Alone, Busy, OneSender, TypeOK
<1>5. ASSUME NEW t \in Task, Progress(t), ~Exit(t) PROVE Alone'
  BY <1>5, ProgressMoves, SoloStep
<1>6. ASSUME NEW t \in Task, Exit(t) \/ HardLimit(t) PROVE Alone'
  BY <1>6 DEF Exit, HardLimit, At, End, GoTo, broker, history, Alone, Busy,
     TypeOK
<1>7. ASSUME NEW t \in Task, Crash(t) \/ WorkerLost(t) PROVE Alone'
  <2>1. Busy(t) /\ \A u \in Task : pc'[u] = "idle"
    BY <1>7 DEF Crash, WorkerLost, End, GoTo, Alone, Busy, TypeOK
  <2>2. /\ detached' = {} /\ frozen' = {} /\ UNCHANGED enqueued
        /\ queue' + unacked' = 1
    BY <1>7, <2>1 DEF Crash, WorkerLost, End, Alone
  <2> QED
    BY <2>1, <2>2 DEF Alone, Busy
<1>8. ASSUME NEW t \in Task, StageFails(t) \/ DbFails(t) PROVE Alone'
  <2>1. Busy(t)
    BY <1>8 DEF StageFails, DbFails, At, Busy, Short, Caught, Early
  <2> QED
    BY <1>8, <2>1, SoloStep DEF StageFails, DbFails, GoTo, broker, local,
       TypeOK
<1>9. ASSUME NEW t \in Task, Redeliver(t) \/ SoftLimitEscapes(t) \/ Thaw(t)
      PROVE  Alone'
  BY <1>9, Spent DEF Redeliver, SoftLimitEscapes, Thaw, Kind, Alone
<1> QED
  BY <1>1, <1>2, <1>3, <1>4, <1>5, <1>6, <1>7, <1>8, <1>9 DEF Next, Trouble
-----------------------------------------------------------------------------
(* What is completed stays completed.                                      *)

Settled == {"idle", "load", "exit", "usage"}
Handlers == {"caught", "caughtcommit", "failed", "failtell"}

\* Strengthens CompletedIsFinal: without a failure nobody is in a handler, and
\* over a completed row nobody is where it could be written.
Rests ==
  Calm =>
    /\ \A t \in Task : pc[t] = "usage" =>
         status = "completed" /\ message = "completed"
    /\ spent["stage"] = 0 => \A t \in Task :
         /\ pc[t] \notin Handlers
         /\ status = "completed" => pc[t] \in Settled

LEMMA RestsNext == TypeOK /\ Alone /\ Rests /\ [Next]_vars => Rests'
<1> SUFFICES ASSUME TypeOK, Alone, Rests, Calm, Calm', [Next]_vars,
                    spent'["stage"] = 0 => spent["stage"] = 0
             PROVE  Rests'
  BY CalmBefore DEF Rests
<1> USE DEF Rests, Settled, Handlers
<1>1. CASE Reading \/ Age \/ VisibilityTimeout \/ UNCHANGED vars
  BY <1>1 DEF Reading, Subscribe, ReadEvent, Reload, GiveUp, Age,
     VisibilityTimeout, vars, row
<1>2. ASSUME NEW p \in Post, Posting(p) PROVE Rests'
  BY <1>2 DEF Posting, PostLookup, PostAdmit, PostCommit, PostEnqueue, row
<1>3. ASSUME NEW t \in Task, Deliver(t) PROVE Rests'
  BY <1>3 DEF Deliver, GoTo, row, TypeOK
<1>4. ASSUME NEW t \in Task, Trouble(t) PROVE Rests'
  <2>1. CASE StageFails(t)
    BY <2>1, Spent DEF StageFails, GoTo, row, Kind, TypeOK
  <2>2. CASE DbFails(t)
    BY <2>2, Spent DEF DbFails, Kind
  <2>3. CASE Crash(t) \/ WorkerLost(t) \/ HardLimit(t)
    BY <2>3 DEF Crash, WorkerLost, HardLimit, End, GoTo, row, TypeOK
  <2>4. CASE Redeliver(t) \/ SoftLimitEscapes(t) \/ Thaw(t)
    BY <2>4 DEF Redeliver, SoftLimitEscapes, Thaw, row
  <2> QED
    BY <1>4, <2>1, <2>2, <2>3, <2>4 DEF Trouble
<1>5. ASSUME NEW t \in Task, Progress(t) PROVE Rests'
  <2>1. ASSUME Busy(t) PROVE \A u \in Task : u # t => pc[u] = "idle"
    BY <2>1 DEF Alone, Busy
  <2> USE DEF At, GoTo, TypeOK
  <2>2. CASE Load(t)
    <3>1. pc' = [pc EXCEPT ![t] = pc'[t]] /\ pc[t] = "load"
      BY <2>2 DEF Load
    <3>2. pc'[t] \in {"exit", "expire", "count"}
      BY <2>2 DEF Load
    <3>3. status = "completed" => pc'[t] = "exit"
      BY <2>2 DEF Load
    <3> QED
      BY <2>1, <2>2, <3>1, <3>2, <3>3 DEF Load, row, Busy
  <2>3. CASE Expire(t) \/ Count(t) \/ Open(t)
    BY <2>1, <2>3 DEF Expire, Count, Open, row, Busy
  <2>4. CASE CommitRun(t) \/ ShortCommit(t) \/ Work(t) \/ Persist(t)
    BY <2>1, <2>4 DEF CommitRun, ShortCommit, Work, Persist, row, Busy
  <2>5. CASE Tell(t) \/ Usage(t)
    <3>1. GoTo(t, "exit") /\ UNCHANGED <<row, spent>>
      BY <2>5, CalmEmit DEF Tell, Usage
    <3> QED
      BY <2>1, <2>5, <3>1 DEF Tell, Usage, row, Busy
  <2>6. CASE Refuse(t) \/ ShortUsage(t) \/ Stream(t)
    <3>1. /\ UNCHANGED <<row, spent>> /\ Busy(t) /\ pc[t] \notin Settled
          /\ \E s \in {"shortusage", "shortcommit", "persist"} : GoTo(t, s)
      BY <2>6, CalmEmit DEF Refuse, ShortUsage, Stream, Busy
    <3> QED
      BY <2>1, <3>1 DEF row, Busy
  <2>8. CASE CaughtTell(t) \/ CaughtCommit(t) \/ SetFailed(t) \/ FailTell(t)
    <3>1. /\ spent["stage"] # 0 /\ Busy(t) /\ spent' = spent
          /\ \E s \in {"caughtcommit", "exit", "failtell"} : GoTo(t, s)
      <4>1. CASE CaughtTell(t) \/ FailTell(t)
        BY <4>1, CalmEmit DEF CaughtTell, FailTell, Busy
      <4>2. CASE CaughtCommit(t) \/ SetFailed(t)
        BY <4>2, Spent DEF CaughtCommit, SetFailed, Busy, Kind
      <4> QED
        BY <2>8, <4>1, <4>2
    <3> QED
      BY <2>1, <3>1 DEF Busy
  <2>7. CASE Exit(t)
    BY <2>1, <2>7 DEF Exit, End, row, Busy
  <2> QED
    BY <1>5, <2>2, <2>3, <2>4, <2>5, <2>6, <2>7, <2>8 DEF Progress
<1> QED
  BY <1>1, <1>2, <1>3, <1>4, <1>5 DEF Next

\* A step that finds the row completed leaves it so and bills nobody.
LEMMA FinalStep ==
  ASSUME TypeOK, Rests, Calm, spent["stage"] = 0, status = "completed",
         [Next]_vars, Calm'
  PROVE  status' = "completed" /\ billed' = billed
<1> USE DEF Rests, Settled, Handlers
<1>1. CASE \/ Reading \/ Age \/ VisibilityTimeout \/ UNCHANGED vars
           \/ \E p \in Post : Posting(p)
  BY <1>1 DEF Reading, Subscribe, ReadEvent, Reload, GiveUp, Age,
     VisibilityTimeout, vars, row, history, Posting, PostLookup, PostAdmit,
     PostCommit, PostEnqueue
<1>2. ASSUME NEW t \in Task, Deliver(t) \/ Trouble(t)
      PROVE  status' = "completed" /\ billed' = billed
  BY <1>2 DEF Deliver, Trouble, StageFails, DbFails, Crash, WorkerLost,
     Redeliver, HardLimit, SoftLimitEscapes, Thaw, row, history
<1>3. ASSUME NEW t \in Task, Progress(t)
      PROVE  status' = "completed" /\ billed' = billed
  <2>1. pc[t] \in Settled
    BY DEF TypeOK
  <2>2. CASE Load(t) \/ Usage(t) \/ Exit(t)
    BY <2>2 DEF Load, Usage, Exit, row, history
  <2> QED
    BY <1>3, <2>1, <2>2 DEF Progress, Expire, Count, Tell, Open, CommitRun,
       Refuse, ShortUsage, ShortCommit, Work, Stream, Persist, CaughtTell,
       CaughtCommit, SetFailed, FailTell, At
<1> QED
  BY <1>1, <1>2, <1>3 DEF Next

\* Without a failing stage, a request whose answer was committed is neither
\* failed nor run again, whoever dies after the commit: the redelivery reads
\* completed and returns.
THEOREM CompletedStays == Spec => CompletedIsFinal
<1>1. Init => OneSender /\ Solo /\ Rests
  BY DEF Init, OneSender, Solo, Alone, Busy, Rests, Handlers, Settled
<1>2. Solo /\ Rests /\ TypeOK /\ [Next]_vars => Rests'
  BY RestsNext, CalmBefore DEF Solo, Rests
<1>3. TypeOK /\ Rests /\ [Next]_vars =>
        [status = "completed" /\ Calm' /\ spent'["stage"] = 0
           => status' = "completed" /\ billed' = billed]_vars
  BY FinalStep, CalmBefore
<1> QED
  BY <1>1, <1>2, <1>3, OneSenderNext, SoloNext, TypeCorrect, PTL
  DEF Spec, CompletedIsFinal
-----------------------------------------------------------------------------
(* What the reader is told.                                                *)

Written(type) == \E i \in 1 .. Len(log) : log[i].type = type
Orderly == Calm /\ "early" \notin mishaps

\* Strengthens ToldIsPersisted: once usage is in the stream the answer is
\* committed and nobody is at work, or its execution is about to commit.
Told ==
  /\ sub = "complete" => Written("usage")
  /\ Orderly /\ Written("usage") =>
       \/ \E t \in Task : pc[t] = "shortcommit"
       \/ /\ status = "completed" /\ message = "completed"
          /\ \A t \in Task : pc[t] \in {"idle", "load", "exit"}

\* What one more event changes.
LEMMA Logged ==
  ASSUME TypeOK, NEW event \in Event, log' = Append(log, event)
  PROVE  /\ log' \in Seq(Event) /\ Len(log') = Len(log) + 1
         /\ \A i \in 1 .. Len(log) : log'[i] = log[i]
         /\ log'[Len(log) + 1] = event
         /\ \A type : Written(type)' <=> Written(type) \/ event.type = type
<1>1. /\ log' \in Seq(Event) /\ Len(log') = Len(log) + 1
      /\ \A i \in 1 .. Len(log) : log'[i] = log[i]
      /\ log'[Len(log) + 1] = event
  BY AppendProperties DEF TypeOK
<1>2. Len(log) \in Nat
  BY DEF TypeOK
<1> QED
  BY <1>1, <1>2 DEF Written

\* Which steps of an execution write, and what, when Redis answers.
LEMMA CalmWrites ==
  ASSUME TypeOK, Calm', NEW t \in Task, Progress(t)
  PROVE  \/ UNCHANGED log
         \/ \E type \in {"delta", "usage", "error"} :
              /\ log' = Append(log, [type |-> type, by |-> t])
              /\ type = "delta" => Refuse(t) \/ Stream(t)
              /\ type = "usage" => ShortUsage(t) \/ Usage(t)
<1>1. CASE Load(t) \/ Expire(t) \/ Count(t) \/ Open(t) \/ CommitRun(t)
           \/ ShortCommit(t) \/ Work(t) \/ Persist(t) \/ CaughtCommit(t)
           \/ SetFailed(t) \/ Exit(t)
  BY <1>1 DEF Load, Expire, Count, Open, CommitRun, ShortCommit, Work, Persist,
     CaughtCommit, SetFailed, Exit, stream
<1>2. CASE Refuse(t) \/ Stream(t)
  BY <1>2, CalmEmit DEF Refuse, Stream
<1>3. CASE ShortUsage(t) \/ Usage(t)
  BY <1>3, CalmEmit DEF ShortUsage, Usage
<1>4. CASE Tell(t) \/ CaughtTell(t) \/ FailTell(t)
  BY <1>4, CalmEmit DEF Tell, CaughtTell, FailTell
<1> QED
  BY <1>1, <1>2, <1>3, <1>4 DEF Progress

\* Nobody but an execution touches the stream; POSTs and readers change nothing
\* an execution reads.
LEMMA Outside ==
  ASSUME TypeOK,
         \/ Reading \/ Age \/ VisibilityTimeout \/ UNCHANGED vars
         \/ \E p \in Post : Posting(p)
  PROVE  /\ UNCHANGED <<log, first, pc, attempt, attempts, mishaps>>
         /\ status # "absent" => UNCHANGED <<status, message>>
BY DEF Reading, Subscribe, ReadEvent, Reload, GiveUp, Age,
   VisibilityTimeout, vars, row, history, stream, local, Posting, PostLookup,
   PostAdmit, PostCommit, PostEnqueue

\* An execution that takes a step is the only one.
LEMMA Worker ==
  ASSUME TypeOK, Alone, NEW t \in Task, Progress(t)
  PROVE  /\ Busy(t)
         /\ \A u \in Task : u # t => pc[u] = "idle" /\ pc'[u] = "idle"
<1>1. Busy(t) /\ \A u \in Task \ {t} : pc'[u] = pc[u]
  BY ProgressMoves
<1> QED
  BY <1>1 DEF Alone, Busy

\* The log only grows.
LEMMA Kept ==
  ASSUME TypeOK, NEW t \in Task, Progress(t)
  PROVE  \A type : Written(type) => Written(type)'
<1>1. CASE UNCHANGED log
  BY <1>1 DEF Written
<1>2. ASSUME NEW type \in {"delta", "usage", "error"},
             log' = Append(log, [type |-> type, by |-> t])
      PROVE  \A other : Written(other) => Written(other)'
  <2>1. [type |-> type, by |-> t] \in Event
    BY DEF Event
  <2> QED
    BY <1>2, <2>1, Logged
<1>3. \/ UNCHANGED log
      \/ \E type \in {"delta", "usage", "error"} :
           log' = Append(log, [type |-> type, by |-> t])
  <2>1. CASE Load(t) \/ Expire(t) \/ Count(t) \/ Open(t) \/ CommitRun(t)
             \/ ShortCommit(t) \/ Work(t) \/ Persist(t) \/ CaughtCommit(t)
             \/ SetFailed(t) \/ Exit(t)
    BY <2>1 DEF Load, Expire, Count, Open, CommitRun, ShortCommit, Work,
       Persist, CaughtCommit, SetFailed, Exit, stream
  <2>2. CASE Tell(t) \/ Refuse(t) \/ ShortUsage(t) \/ Stream(t) \/ Usage(t)
             \/ CaughtTell(t) \/ FailTell(t)
    BY <2>2 DEF Tell, Refuse, ShortUsage, Stream, Usage, CaughtTell, FailTell,
       Emit
  <2> QED
    BY <2>1, <2>2 DEF Progress
<1> QED
  BY <1>1, <1>2, <1>3

LEMMA ToldNext ==
  TypeOK /\ Solo /\ Rests /\ Told /\ [Next]_vars => Told'
<1> SUFFICES ASSUME TypeOK, Solo, Rests, Told, [Next]_vars PROVE Told'
  OBVIOUS
<1>1. Orderly' => Orderly /\ Calm'
  BY CalmBefore DEF Orderly
<1>2. CASE \/ Reading \/ Age \/ VisibilityTimeout \/ UNCHANGED vars
           \/ \E p \in Post : Posting(p)
  <2>1. sub' = "complete" => Written("usage")
    <3>1. CASE ReadEvent
      <4>1. NextEvent \in 1 .. Len(log)
        BY <3>1 DEF ReadEvent, NextEvent, Larger, TypeOK
      <4> QED
        BY <3>1, <4>1 DEF ReadEvent, Written
    <3>2. CASE ~ReadEvent
      <4>1. sub' = "complete" => sub = "complete"
        BY <1>2, <3>2 DEF Reading, Subscribe, Reload, GiveUp, Age,
           VisibilityTimeout, vars, reader, Posting, PostLookup, PostAdmit,
           PostCommit, PostEnqueue
      <4> QED
        BY <4>1 DEF Told
    <3> QED
      BY <3>1, <3>2
  <2>2. Written("usage")' <=> Written("usage")
    BY <1>2, Outside DEF Written
  <2> QED
    BY <1>1, <1>2, <2>1, <2>2, Outside DEF Told
<1>3. ASSUME NEW t \in Task, Deliver(t) \/ Trouble(t) PROVE Told'
  <2>1. /\ UNCHANGED <<log, sub, status, message>>
    BY <1>3 DEF Deliver, Trouble, StageFails, DbFails, Crash, WorkerLost,
       Redeliver, HardLimit, SoftLimitEscapes, Thaw, row, stream, reader
  <2>2. Written("usage")' <=> Written("usage")
    BY <2>1 DEF Written
  <2>3. ASSUME Orderly', Written("usage")
        PROVE  \/ \E u \in Task : pc'[u] = "shortcommit"
               \/ /\ status = "completed" /\ message = "completed"
                  /\ \A u \in Task : pc'[u] \in {"idle", "load", "exit"}
    <3>1. CASE Deliver(t)
      BY <1>1, <2>3, <3>1 DEF Deliver, GoTo, Told, TypeOK
    <3>2. CASE StageFails(t)
      BY <1>1, <2>3, <3>2 DEF StageFails, NoteEarly, At, GoTo, Told, TypeOK,
         Orderly, Short, Caught, Solo, Alone, Busy
    <3>3. CASE DbFails(t)
      BY <1>1, <2>3, <3>3, Spent DEF DbFails, Kind
    <3>4. CASE Crash(t) \/ WorkerLost(t) \/ HardLimit(t)
      <4>1. pc[t] # "shortcommit"
        <5>1. NoteKilled(t)
          BY <3>4 DEF Crash, WorkerLost, HardLimit
        <5> QED
          BY <2>3, <5>1 DEF NoteKilled, Orderly, Short
      <4>2. pc' = [pc EXCEPT ![t] = "idle"]
        BY <3>4 DEF Crash, WorkerLost, HardLimit, End, GoTo
      <4> QED
        BY <1>1, <2>3, <4>1, <4>2 DEF Told, TypeOK
    <3>5. CASE Redeliver(t) \/ SoftLimitEscapes(t) \/ Thaw(t)
      <4>1. pc' = pc
        BY <3>5 DEF Redeliver, SoftLimitEscapes, Thaw
      <4> QED
        BY <1>1, <2>3, <4>1 DEF Told
    <3> QED
      BY <1>3, <3>1, <3>2, <3>3, <3>4, <3>5 DEF Trouble
  <2> QED
    BY <2>1, <2>2, <2>3 DEF Told
<1>4. ASSUME NEW t \in Task, Progress(t) PROVE Told'
  <2>1. sub' = sub
    BY <1>4 DEF Progress, Load, Expire, Count, Tell, Open, CommitRun, Refuse,
       ShortUsage, ShortCommit, Work, Stream, Persist, Usage, CaughtTell,
       CaughtCommit, SetFailed, FailTell, Exit, reader
  <2>2. ASSUME Orderly', Written("usage")'
        PROVE  \/ \E u \in Task : pc'[u] = "shortcommit"
               \/ /\ status' = "completed" /\ message' = "completed"
                  /\ \A u \in Task : pc'[u] \in {"idle", "load", "exit"}
    <3>1. /\ Busy(t) /\ \A u \in Task : u # t => pc[u] = "idle" /\ pc'[u] = "idle"
      BY <1>1, <1>4, <2>2, Worker DEF Orderly, Solo
    <3>2. CASE Written("usage")
      <4>1. pc[t] \in {"load", "exit", "shortcommit"}
        BY <1>1, <2>2, <3>1, <3>2 DEF Told, Busy
      <4>2. CASE Load(t)
        BY <1>1, <2>2, <3>1, <3>2, <4>2 DEF Load, At, GoTo, Told, TypeOK, row
      <4>3. CASE Exit(t)
        BY <1>1, <2>2, <3>1, <3>2, <4>3 DEF Exit, At, End, GoTo, Told, TypeOK,
           row
      <4>4. CASE ShortCommit(t)
        BY <3>1, <4>4 DEF ShortCommit, At, GoTo, TypeOK
      <4> QED
        BY <1>4, <4>1, <4>2, <4>3, <4>4 DEF Progress, Expire, Count, Tell,
           Open, CommitRun, Refuse, ShortUsage, Work, Stream, Persist, Usage,
           CaughtTell, CaughtCommit, SetFailed, FailTell, At
    <3>3. CASE ~Written("usage")
      <4>1. ShortUsage(t) \/ Usage(t)
        <5>1. CASE UNCHANGED log
          BY <2>2, <3>3, <5>1 DEF Written
        <5>2. ASSUME NEW type \in {"delta", "usage", "error"},
                     log' = Append(log, [type |-> type, by |-> t]),
                     type = "usage" => ShortUsage(t) \/ Usage(t)
              PROVE  ShortUsage(t) \/ Usage(t)
          <6>1. [type |-> type, by |-> t] \in Event
            BY DEF Event
          <6> QED
            BY <2>2, <3>3, <5>2, <6>1, Logged
        <5> QED
          BY <1>1, <1>4, <2>2, <5>1, <5>2, CalmWrites
      <4>2. CASE ShortUsage(t)
        <5>1. GoTo(t, "shortcommit")
          BY <1>1, <2>2, <4>2, CalmEmit DEF ShortUsage
        <5> QED
          BY <5>1 DEF GoTo, TypeOK
      <4>3. CASE Usage(t)
        <5>1. GoTo(t, "exit") /\ UNCHANGED <<status, message>>
          BY <1>1, <2>2, <4>3, CalmEmit DEF Usage, row
        <5>2. status = "completed" /\ message = "completed"
          BY <1>1, <2>2, <4>3 DEF Usage, At, Rests, Orderly
        <5> QED
          BY <3>1, <5>1, <5>2 DEF GoTo, TypeOK
      <4> QED
        BY <4>1, <4>2, <4>3
    <3> QED
      BY <3>2, <3>3
  <2>3. sub = "complete" => Written("usage")'
    <3>1. Written("usage") => Written("usage")'
      BY <1>4, Kept
    <3> QED
      BY <3>1 DEF Told
  <2> QED
    BY <2>1, <2>2, <2>3 DEF Told
<1> QED
  BY <1>2, <1>3, <1>4 DEF Next

\* Told the answer is persisted, a reader finds row and message completed or
\* about to be, whatever fails or dies and is delivered again on the way.
THEOREM ToldTruth == Spec => []ToldIsPersisted
<1>1. Init => OneSender /\ Solo /\ Rests /\ Told
  BY DEF Init, OneSender, Solo, Alone, Busy, Rests, Handlers, Settled, Told,
     Written
<1>2. Solo /\ Rests /\ TypeOK /\ [Next]_vars => Rests'
  BY RestsNext, CalmBefore DEF Solo, Rests
<1>3. Told => ToldIsPersisted
  BY DEF Told, ToldIsPersisted, Orderly
<1> QED
  BY <1>1, <1>2, <1>3, OneSenderNext, SoloNext, ToldNext, TypeCorrect, PTL
  DEF Spec
-----------------------------------------------------------------------------
(* One execution's answer in the stream.                                   *)

Before == {"scan", "route", "work", "stream"}
Committed == {"route", "work", "caught", "caughtcommit"} \cup Caught
Counted == {"open", "scan", "route"} \cup Short
Delta(i) == log[i].type = "delta"
Streamed == \E i \in first .. Len(log) : Delta(i)

\* The deltas of the stream are from one execution.
OneBy == \A i, j \in first .. Len(log) :
           Delta(i) /\ Delta(j) => log[i].by = log[j].by

\* Strengthens OneAnswerInStream: whoever may still write an answer finds none
\* in the stream, because an answer there means a committed attempt, and the
\* next execution clears the stream for that.
OneWriter ==
  Orderly =>
    /\ OneBy
    /\ Streamed => attempts >= 1 \/ \E t \in Task : pc[t] \in Short
    /\ \A t \in Task : /\ pc[t] \in Before => ~Streamed
                       /\ pc[t] \in Committed => attempts >= 1
                       /\ pc[t] \in Counted => attempt[t] >= 1

\* Other events are not part of an answer.
LEMMA SameDeltas ==
  ASSUME TypeOK, OneBy, first' = first,
         \/ log' = log
         \/ \E event \in Event : event.type # "delta" /\ log' = Append(log, event)
  PROVE  OneBy' /\ (Streamed' => Streamed)
<1>1. CASE log' = log
  BY <1>1 DEF OneBy, Streamed, Delta
<1>2. ASSUME NEW event \in Event, event.type # "delta", log' = Append(log, event)
      PROVE  OneBy' /\ (Streamed' => Streamed)
  <2>1. Len(log) \in Nat /\ first \in Nat \ {0}
    BY DEF TypeOK
  <2>2. /\ Len(log') = Len(log) + 1 /\ log'[Len(log) + 1].type # "delta"
        /\ \A i \in 1 .. Len(log) : log'[i] = log[i]
    BY <1>2, Logged
  <2>3. ASSUME NEW i \in first' .. Len(log'), Delta(i)'
        PROVE  i \in first .. Len(log) /\ log'[i] = log[i] /\ Delta(i)
    <3>1. i # Len(log) + 1
      BY <2>2, <2>3 DEF Delta
    <3>2. i \in first .. Len(log) + 1
      BY <2>2, <2>3
    <3>3. i \in first .. Len(log) /\ i \in 1 .. Len(log)
      BY <2>1, <3>1, <3>2
    <3> QED
      BY <2>2, <2>3, <3>3 DEF Delta
  <2> QED
    BY <2>3 DEF OneBy, Streamed
<1> QED
  BY <1>1, <1>2

\* A step of the only execution that adds nothing to the answer.
LEMMA OneWriterStep ==
  ASSUME TypeOK, OneWriter, Orderly, NEW t \in Task,
         \A u \in Task : u # t => pc[u] = "idle" /\ pc'[u] = "idle",
         OneBy', Streamed' => Streamed, attempts' \in Nat, attempts' >= attempts,
         pc[t] \in Short => attempts' >= 1 \/ pc'[t] \in Short,
         pc'[t] \in Before => pc[t] \in Before,
         pc'[t] \in Committed => attempts' >= 1,
         pc'[t] \in Counted => attempt'[t] >= 1
  PROVE  OneWriter'
<1>1. attempts \in Nat
  BY DEF TypeOK
<1>2. "idle" \notin Short \cup Before \cup Committed \cup Counted
  BY DEF Short, Before, Committed, Counted, Caught
<1> QED
  BY <1>1, <1>2 DEF OneWriter

LEMMA AttemptsGrow ==
  ASSUME TypeOK, NEW t \in Task, Progress(t)
  PROVE  attempts' \in Nat /\ attempts' >= attempts
<1> USE AttemptsAssumption DEF TypeOK
<1>1. CASE Count(t)
  BY <1>1 DEF Count, row
<1>2. CASE CommitRun(t) \/ ShortCommit(t)
  BY <1>2 DEF CommitRun, ShortCommit, Larger
<1>3. CASE ~Count(t) /\ ~CommitRun(t) /\ ~ShortCommit(t)
  BY <1>3 DEF Progress, Load, Expire, Tell, Open, Refuse, ShortUsage, Work,
     Stream, Persist, Usage, CaughtTell, CaughtCommit, SetFailed, FailTell,
     Exit, row
<1> QED
  BY <1>1, <1>2, <1>3

LEMMA OneWriterNext ==
  TypeOK /\ Solo /\ Accounts /\ OneWriter /\ [Next]_vars => OneWriter'
<1> SUFFICES ASSUME TypeOK, Alone, Accounts, OneWriter, [Next]_vars,
                    Orderly, Calm', "early" \notin mishaps'
             PROVE  OneWriter'
  BY CalmBefore DEF Orderly, OneWriter, Solo
<1>0. OneBy
  BY DEF OneWriter
<1> USE DEF Before, Committed, Counted, Short, Caught
<1>1. CASE \/ Reading \/ Age \/ VisibilityTimeout \/ UNCHANGED vars
           \/ \E p \in Post : Posting(p)
  <2>1. UNCHANGED <<log, first, pc, attempt, attempts>>
    BY <1>1, Outside
  <2> QED
    BY <2>1 DEF OneWriter, OneBy, Streamed, Delta, Orderly
<1>2. ASSUME NEW t \in Task, Deliver(t) PROVE OneWriter'
  <2>1. \A u \in Task : pc[u] = "idle"
    BY <1>2 DEF Deliver, Alone, Busy
  <2>2. /\ UNCHANGED <<log, first, attempts>> /\ pc'[t] = "load"
        /\ \A u \in Task : u # t => pc'[u] = pc[u]
        /\ attempts \in Nat
    BY <1>2 DEF Deliver, GoTo, stream, row, TypeOK
  <2> QED
    BY <1>0, <2>1, <2>2, SameDeltas, OneWriterStep
<1>3. ASSUME NEW t \in Task, Trouble(t) PROVE OneWriter'
  <2>1. Busy(t)
    BY <1>3 DEF Trouble, StageFails, DbFails, Crash, WorkerLost, Redeliver,
       HardLimit, SoftLimitEscapes, Thaw, At, Busy, Early, Alone
  <2>2. \A u \in Task : u # t => pc[u] = "idle"
    BY <2>1 DEF Alone, Busy
  <2>3. UNCHANGED <<log, first, attempts>>
    BY <1>3 DEF Trouble, StageFails, DbFails, Crash, WorkerLost, Redeliver,
       HardLimit, SoftLimitEscapes, Thaw, stream, row
  <2>4. CASE StageFails(t)
    <3>1. pc[t] \notin Short /\ UNCHANGED attempt
      BY <2>4 DEF StageFails, NoteEarly, local
    <3>2. pc[t] \in Caught => attempts >= 1
      BY DEF OneWriter
    <3>3. /\ \A u \in Task : u # t => pc'[u] = pc[u]
          /\ pc'[t] = IF pc[t] \in Caught THEN "caught" ELSE "failed"
          /\ attempts \in Nat
      BY <2>4 DEF StageFails, GoTo, TypeOK
    <3> QED
      BY <1>0, <2>2, <2>3, <3>1, <3>2, <3>3, SameDeltas, OneWriterStep
  <2>5. CASE DbFails(t)
    BY <2>5, Spent DEF DbFails, Kind
  <2>6. CASE Crash(t) \/ WorkerLost(t) \/ HardLimit(t)
    <3>1. pc[t] \notin Short
      <4>1. NoteKilled(t)
        BY <2>6 DEF Crash, WorkerLost, HardLimit
      <4> QED
        BY <4>1 DEF NoteKilled
    <3>2. pc'[t] = "idle" /\ \A u \in Task : u # t => pc'[u] = pc[u]
      BY <2>6 DEF Crash, WorkerLost, HardLimit, End, GoTo, TypeOK
    <3>3. attempts \in Nat
      BY DEF TypeOK
    <3> QED
      BY <1>0, <2>2, <2>3, <3>1, <3>2, <3>3, SameDeltas, OneWriterStep
  <2>7. CASE Redeliver(t) \/ SoftLimitEscapes(t) \/ Thaw(t)
    <3>1. UNCHANGED <<pc, attempt>>
      BY <2>7 DEF Redeliver, SoftLimitEscapes, Thaw
    <3> QED
      BY <2>3, <3>1 DEF OneWriter, OneBy, Streamed, Delta, Orderly
  <2> QED
    BY <1>3, <2>4, <2>5, <2>6, <2>7 DEF Trouble
<1>4. ASSUME NEW t \in Task, Progress(t) PROVE OneWriter'
  <2>1. \A u \in Task : u # t => pc[u] = "idle" /\ pc'[u] = "idle"
    BY <1>4, Worker
  <2>2. attempts' \in Nat /\ attempts' >= attempts
    BY <1>4, AttemptsGrow
  <2>3. CASE Load(t) \/ Expire(t) \/ Count(t)
    <3>1. CASE Load(t)
      <4>1. pc' = [pc EXCEPT ![t] = pc'[t]] /\ pc[t] = "load"
        BY <3>1 DEF Load, At, GoTo, TypeOK
      <4>2. pc'[t] \in {"exit", "expire", "count"} /\ UNCHANGED <<log, first>>
        BY <3>1 DEF Load, At, GoTo, stream, TypeOK
      <4> QED
        BY <1>0, <2>1, <2>2, <4>1, <4>2, SameDeltas, OneWriterStep
    <3>2. CASE Expire(t) \/ Count(t)
      <4>1. /\ UNCHANGED <<log, first>> /\ pc[t] \in {"expire", "count"}
            /\ pc'[t] \in {"tell", "open"}
            /\ pc'[t] = "open" => attempt'[t] >= 1
        BY <3>2 DEF Expire, Count, At, GoTo, stream, TypeOK
      <4> QED
        BY <1>0, <2>1, <2>2, <4>1, SameDeltas, OneWriterStep
    <3> QED
      BY <2>3, <3>1, <3>2
  <2>4. CASE Open(t)
    <3>1. /\ UNCHANGED <<log, attempt, attempts>> /\ pc[t] = "open"
          /\ pc'[t] = "scan"
      BY <2>4 DEF Open, At, GoTo, local, row, TypeOK
    <3>2. attempt[t] = attempts + 1 /\ attempt[t] >= 1
      BY <3>1 DEF Accounts, OneWriter, Orderly
    <3>3. ~Streamed'
      <4>1. CASE attempt[t] = 1
        <5>1. ~Streamed
          BY <2>1, <3>1, <3>2, <4>1 DEF OneWriter, TypeOK
        <5>2. first' = first
          BY <2>4, <4>1 DEF Open
        <5> QED
          BY <3>1, <5>1, <5>2 DEF Streamed, Delta
      <4>2. CASE attempt[t] # 1
        <5>1. first' = Len(log) + 1
          BY <2>4, <4>2, Spent DEF Open, Kind
        <5> QED
          BY <3>1, <5>1 DEF Streamed, TypeOK
      <4> QED
        BY <4>1, <4>2
    <3>4. OneBy'
      BY <3>3 DEF OneBy, Streamed
    <3> QED
      BY <2>1, <3>1, <3>2, <3>3, <3>4 DEF OneWriter
  <2>5. CASE Refuse(t) \/ Stream(t)
    <3>1. /\ log' = Append(log, [type |-> "delta", by |-> t])
          /\ pc'[t] = IF pc[t] = "stream" THEN "persist" ELSE "shortusage"
          /\ pc[t] \in {"scan", "route", "stream"} /\ UNCHANGED <<first, attempt, attempts>>
      BY <2>5, CalmEmit DEF Refuse, Stream, At, GoTo, local, row, TypeOK
    <3>2. ~Streamed /\ (pc[t] \in Committed => attempts >= 1)
          /\ (pc[t] \in Counted => attempt[t] >= 1)
      BY <3>1 DEF OneWriter
    <3>3. OneBy'
      <4>1. [type |-> "delta", by |-> t] \in Event
        BY DEF Event
      <4>2. Len(log) \in Nat /\ first \in Nat \ {0}
        BY DEF TypeOK
      <4>3. /\ Len(log') = Len(log) + 1
            /\ \A i \in 1 .. Len(log) : log'[i] = log[i]
        BY <3>1, <4>1, Logged
      <4>4. ASSUME NEW i \in first' .. Len(log'), Delta(i)'
            PROVE  i = Len(log')
        <5>1. SUFFICES ASSUME i # Len(log') PROVE FALSE
          OBVIOUS
        <5>2. i \in first .. Len(log) /\ i \in 1 .. Len(log)
          BY <3>1, <4>2, <4>3, <5>1
        <5> QED
          BY <3>2, <4>3, <4>4, <5>2 DEF Streamed, Delta
      <4> QED
        BY <4>4 DEF OneBy
    <3>4. \A u \in Task : u # t => pc[u] = "idle" /\ pc'[u] = "idle"
      BY <2>1
    <3>5. \/ pc'[t] = "shortusage" /\ attempt'[t] >= 1
          \/ pc'[t] = "persist" /\ attempts' >= 1
      BY <3>1, <3>2
    <3> QED
      BY <3>3, <3>4, <3>5 DEF OneWriter
  <2>6. CASE Tell(t) \/ ShortUsage(t) \/ Usage(t) \/ CaughtTell(t)
             \/ FailTell(t)
    <3>1. PICK type \in {"usage", "error"} :
            log' = Append(log, [type |-> type, by |-> t])
      BY <2>6, CalmEmit DEF Tell, ShortUsage, Usage, CaughtTell, FailTell
    <3>b. /\ ShortUsage(t) => pc[t] = "shortusage" /\ GoTo(t, "shortcommit")
          /\ CaughtTell(t) => pc[t] = "caught" /\ GoTo(t, "caughtcommit")
          /\ Tell(t) \/ Usage(t) \/ FailTell(t) =>
               pc[t] \in {"tell", "usage", "failtell"} /\ GoTo(t, "exit")
      BY CalmEmit DEF At, Tell, ShortUsage, Usage, CaughtTell, FailTell
    <3>2. [type |-> type, by |-> t] \in Event
      BY DEF Event
    <3>3. UNCHANGED <<first, attempt, attempts>> /\ attempts \in Nat
      BY <2>2, <2>6 DEF TypeOK, Tell, ShortUsage, Usage, CaughtTell, FailTell, local, row
    <3>a. OneBy' /\ (Streamed' => Streamed)
      BY <1>0, <3>1, <3>2, <3>3, SameDeltas
    <3>4. CASE ShortUsage(t)
      <4>1. pc[t] = "shortusage" /\ pc'[t] = "shortcommit"
        BY <3>b, <3>4 DEF GoTo, TypeOK
      <4>2. attempt[t] >= 1
        BY <4>1 DEF OneWriter
      <4> QED
        BY <2>1, <2>2, <3>3, <3>a, <4>1, <4>2, OneWriterStep
    <3>5. CASE CaughtTell(t)
      <4>1. pc[t] = "caught" /\ pc'[t] = "caughtcommit"
        BY <3>b, <3>5 DEF GoTo, TypeOK
      <4>2. attempts >= 1
        BY <4>1 DEF OneWriter
      <4> QED
        BY <2>1, <2>2, <3>3, <3>a, <4>1, <4>2, OneWriterStep
    <3>6. CASE Tell(t) \/ Usage(t) \/ FailTell(t)
      <4>1. pc[t] \in {"tell", "usage", "failtell"} /\ pc'[t] = "exit"
        BY <3>b, <3>6 DEF GoTo, TypeOK
      <4> QED
        BY <2>1, <2>2, <3>3, <3>a, <4>1, OneWriterStep
    <3> QED
      BY <2>6, <3>4, <3>5, <3>6
  <2>7. CASE CommitRun(t) \/ ShortCommit(t) \/ Work(t) \/ Persist(t)
    <3>1. UNCHANGED <<log, first, attempt>>
      BY <2>7 DEF CommitRun, ShortCommit, Work, Persist, stream, local
    <3>2. /\ pc[t] \in Committed => attempts >= 1
          /\ pc[t] \in Counted => attempt[t] >= 1
      BY DEF OneWriter
    <3>3. CASE CommitRun(t) \/ ShortCommit(t)
      <4>1. /\ \/ pc[t] = "scan" /\ pc'[t] = "route"
               \/ pc[t] = "shortcommit" /\ pc'[t] = "exit"
            /\ attempts' = Larger(attempts, attempt[t])
        BY <3>3 DEF CommitRun, ShortCommit, At, GoTo, TypeOK
      <4>2. attempts' >= 1
        BY <3>2, <4>1 DEF Larger, TypeOK
      <4> QED
        BY <1>0, <2>1, <2>2, <3>1, <3>2, <4>1, <4>2, SameDeltas, OneWriterStep
    <3>4. CASE Work(t) \/ Persist(t)
      <4>1. \/ pc[t] = "route" /\ pc'[t] = "work"
            \/ pc[t] = "work" /\ pc'[t] = "stream"
            \/ pc[t] = "persist" /\ pc'[t] = "usage"
        BY <3>4 DEF Work, Persist, At, GoTo, TypeOK
      <4>2. attempts >= 1 /\ attempts \in Nat
        BY <3>2, <4>1 DEF TypeOK
      <4> QED
        BY <1>0, <2>1, <2>2, <3>1, <4>1, <4>2, SameDeltas, OneWriterStep
    <3> QED
      BY <2>7, <3>3, <3>4
  <2>8. CASE CaughtCommit(t) \/ SetFailed(t) \/ Exit(t)
    <3>1. /\ UNCHANGED <<log, first>>
          /\ pc[t] \in {"caughtcommit", "failed", "exit"}
          /\ pc'[t] \in {"exit", "failtell", "idle"}
      BY <2>8 DEF CaughtCommit, SetFailed, Exit, End, At, GoTo, stream, TypeOK
    <3> QED
      BY <1>0, <2>1, <2>2, <3>1, SameDeltas, OneWriterStep
  <2> QED
    BY <1>4, <2>3, <2>4, <2>5, <2>6, <2>7, <2>8 DEF Progress
<1> QED
  BY <1>1, <1>2, <1>3, <1>4 DEF Next

\* What a reader can replay comes from one execution, however often the request
\* is delivered again after a failure or a death.
THEOREM OneAnswer == Spec => []OneAnswerInStream
<1>1. Init => OneSender /\ Accounts /\ Solo /\ OneWriter
  BY AttemptsAssumption DEF Init, OneSender, Accounts, Holding, Solo, Alone,
     Busy, OneWriter, OneBy, Streamed, Before, Committed, Counted, Short, Caught
<1>2. OneWriter => OneAnswerInStream
  BY DEF OneWriter, OneBy, Delta, Orderly, OneAnswerInStream
<1> QED
  BY <1>1, <1>2, OneSenderNext, AccountsNext, SoloNext, OneWriterNext,
     TypeCorrect, PTL DEF Spec
=============================================================================
