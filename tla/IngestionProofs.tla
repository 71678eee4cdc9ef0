--------------------------- MODULE IngestionProofs ---------------------------
(***************************************************************************)
(* Theorems about Ingestion, for any number of tasks and readers, any cap  *)
(* and any budget of faults: types and what the lease protects; what the   *)
(* documents row says; what the two indexes hold.                          *)
(***************************************************************************)
EXTENDS Ingestion, TLAPS

(* Lemmas on the helpers: what a budget, a queue level, a task's record    *)
(* look like after Spend, Enqueue, GoTo and End.                           *)

LEMMA Bump ==
  ASSUME NEW S, NEW f \in [S -> Nat], NEW x
  PROVE  [f EXCEPT ![x] = @ + 1] \in [S -> Nat]
<1>1. CASE x \in S
  <2>1. f[x] + 1 \in Nat
    BY <1>1
  <2> QED
    BY <2>1
<1>2. CASE x \notin S
  <2>1. [f EXCEPT ![x] = @ + 1] = f
    BY <1>2, Zenon
  <2> QED
    BY <2>1
<1> QED
  BY <1>1, <1>2

LEMMA SpendType ==
  ASSUME NEW kind, HistoryType, Spend(kind)
  PROVE  spent' \in [Kind -> Nat]
BY Bump DEF Spend, HistoryType

LEMMA EnqueueType ==
  ASSUME NEW k, QueueType, Enqueue(k)
  PROVE  QueueType'
BY Bump DEF Enqueue, QueueType

LEMMA EndType ==
  ASSUME TaskType, NEW t \in Task, End(t)
  PROVE  TaskType'
BY AttemptsAssumption, BoundAssumption DEF End, GoTo, TaskType, Stage

LEMMA Frames ==
  ASSUME TypeOK
  PROVE  /\ RowType /\ StoreType /\ RedisType /\ QueueType /\ TaskType
         /\ ApiType /\ HistoryType
         /\ UNCHANGED <<row, started>> => RowType'
         /\ UNCHANGED <<stores, threads>> => StoreType'
         /\ UNCHANGED redis => RedisType'
         /\ UNCHANGED queue => QueueType'
         /\ UNCHANGED <<pc, local>> => TaskType'
         /\ UNCHANGED api => ApiType'
         /\ UNCHANGED <<spent, mishaps>> => HistoryType'
BY DEF TypeOK, RowType, StoreType, RedisType, QueueType, TaskType, ApiType,
       HistoryType, row, stores, redis, local, api

(* Type correctness. *)

LEMMA TypeInit == Init => TypeOK
<1> SUFFICES ASSUME Init PROVE TypeOK
  OBVIOUS
<1> USE NoTaskAssumption, AttemptsAssumption, BoundAssumption DEF Init
<1>1. RowType
  <2>1. status \in Status /\ parsed \in BOOLEAN /\ blank \in BOOLEAN
    BY DEF Status
  <2> QED
    BY <2>1 DEF RowType
<1>2. StoreType
  BY DEF StoreType
<1>3. RedisType /\ QueueType
  BY DEF RedisType, QueueType
<1>4. TaskType
  BY DEF TaskType, Stage
<1>5. ApiType /\ HistoryType
  BY DEF ApiType, HistoryType
<1> QED
  BY <1>1, <1>2, <1>3, <1>4, <1>5 DEF TypeOK

LEMMA TypeNext == TypeOK /\ [Next]_vars => TypeOK'
<1> SUFFICES ASSUME TypeOK, [Next]_vars PROVE TypeOK'
  OBVIOUS
<1> USE NoTaskAssumption, AttemptsAssumption, BoundAssumption DEF TypeOK
<1>1. CASE UploadCreate
  BY <1>1, Frames DEF UploadCreate, stores, redis, local, history, RowType,
      ApiType, Status
<1>2. CASE UploadStore
  BY <1>2, Frames DEF UploadStore, row, redis, local, history, StoreType,
      ApiType, Object, Call
<1>3. CASE UploadStoreFails
  BY <1>3, Frames, SpendType DEF UploadStoreFails, stores, redis, local,
      RowType, ApiType, HistoryType, Status
<1>4. CASE UploadEnqueue
  BY <1>4, Frames, EnqueueType DEF UploadEnqueue, row, stores, redis, local,
      history, QueueType, ApiType
<1>5. CASE UploadLost
  BY <1>5, Frames, SpendType DEF UploadLost, row, stores, redis, local, api,
      ApiType, HistoryType
<1>6. CASE PurgeStart
  BY <1>6, Frames, SpendType DEF PurgeStart, row, stores, redis, local,
      ApiType, HistoryType
<1>7. CASE PurgeObjects
  BY <1>7, Frames, SpendType DEF PurgeObjects, row, redis, local, StoreType,
      ApiType, HistoryType, Object, Call
<1>8. CASE PurgeRows
  <2>1. RowType'
    <3>1. status' \in Status /\ parsed' \in BOOLEAN /\ blank' \in BOOLEAN
      BY <1>8, Frames DEF PurgeRows, RowType, Status
    <3>2. attempts' \in 0 .. MaxAttempts + 1 /\ started' \in Nat
      BY <1>8 DEF PurgeRows
    <3> QED
      BY <3>1, <3>2 DEF RowType
  <2>2. StoreType'
    BY <1>8, Frames DEF PurgeRows, StoreType
  <2> QED
    BY <1>8, <2>1, <2>2, Frames DEF PurgeRows, redis, local, ApiType
<1>9. CASE PurgeCrash
  BY <1>9, Frames, SpendType DEF PurgeCrash, row, stores, redis, local, api,
      ApiType, HistoryType
<1>10. CASE LeaseExpires
  BY <1>10, Frames DEF LeaseExpires, row, stores, local, api, history,
      RedisType
<1>11. CASE LeaseLapses
  BY <1>11, Frames, SpendType DEF LeaseLapses, row, stores, local, api,
      RedisType, HistoryType
<1>12. CASE MarkerExpires
  BY <1>12, Frames, SpendType DEF MarkerExpires, row, stores, local, api,
      RedisType, HistoryType
<1>13. ASSUME NEW t \in Task, Deliver(t) PROVE TypeOK'
  <2>1. PICK k \in 0 .. MaxRetries :
          /\ queue[k] > 0 /\ queue' = [queue EXCEPT ![k] = @ - 1]
          /\ tries' = [tries EXCEPT ![t] = k]
    BY <1>13 DEF Deliver
  <2>2. QueueType'
    BY <2>1, Frames DEF QueueType
  <2>3. TaskType'
    BY <1>13, <2>1, Frames DEF Deliver, GoTo, TaskType, Stage
  <2> QED
    BY <1>13, <2>2, <2>3, Frames DEF Deliver, row, stores, redis, api, history
<1>14. ASSUME NEW t \in Task, Fetch(t) PROVE TypeOK'
  <2> DEFINE s == CASE status = "absent" -> "retry"
                    [] status = "ready" -> "release"
                    [] OTHER -> "claim"
  <2>1. s \in Stage /\ GoTo(t, s)
    <3>1. s \in {"retry", "release", "claim"}
      OBVIOUS
    <3> HIDE DEF s
    <3>2. s \in Stage
      BY <3>1 DEF Stage
    <3> QED
      BY <1>14, <3>2 DEF Fetch, s
  <2> HIDE DEF s
  <2>2. TaskType'
    BY <1>14, <2>1, Frames DEF Fetch, GoTo, TaskType, RowType
  <2> QED
    BY <1>14, <2>2, Frames DEF Fetch, row, stores, redis, api, history
<1>15. ASSUME NEW t \in Task, Claim(t) PROVE TypeOK'
  <2>1. pc' \in [Task -> Stage]
    <3>1. GoTo(t, "unmark") \/ GoTo(t, "release")
      BY <1>15 DEF Claim
    <3> QED
      BY <3>1, Frames DEF GoTo, TaskType, Stage, Owning
  <2>2. held' \in [Task -> BOOLEAN]
    BY <1>15, Frames DEF Claim, TaskType
  <2>3. TaskType'
    BY <1>15, <2>1, <2>2, Frames DEF Claim, TaskType
  <2>4. RedisType' /\ HistoryType'
    BY <1>15, Frames DEF Claim, NoteOverlap, RedisType, HistoryType
  <2> QED
    BY <1>15, <2>3, <2>4, Frames DEF Claim, row, stores, api
<1>16. ASSUME NEW t \in Task, Unmark(t) PROVE TypeOK'
  BY <1>16, Frames, SpendType DEF Unmark, At, GoTo, row, stores, redis, local,
      api, RedisType, TaskType, HistoryType, Stage, Owning
<1>17. ASSUME NEW t \in Task, Count(t) PROVE TypeOK'
  BY <1>17, Frames DEF Count, At, GoTo, stores, redis, api, RowType, TaskType,
      Status, Stage, Owning
<1>18. ASSUME NEW t \in Task, Resume(t) PROVE TypeOK'
  BY <1>18, Frames DEF Resume, At, GoTo, row, stores, redis, local, api,
      history, TaskType, Stage, Owning
<1>19. ASSUME NEW t \in Task, Parse(t) PROVE TypeOK'
  BY <1>19, Frames, SpendType DEF Parse, At, GoTo, row, stores, redis, local,
      api, TaskType, HistoryType, Stage, Owning
<1>20. ASSUME NEW t \in Task, ParseNoPdf(t) PROVE TypeOK'
  BY <1>20, Frames DEF ParseNoPdf, At, GoTo, row, stores, redis, local, api,
      history, TaskType, Stage, Owning
<1>21. ASSUME NEW t \in Task, Save(t) PROVE TypeOK'
  BY <1>21, Frames DEF Save, At, GoTo, SaveMetadata, UploadArtifact, redis,
      local, api, history, RowType, StoreType, TaskType, Status, Object, Call,
      Stage, Owning
<1>22. ASSUME NEW t \in Task, FinishEmpty(t) PROVE TypeOK'
  BY <1>22, Frames DEF FinishEmpty, At, GoTo, SetStatus, stores, redis, local,
      api, history, RowType, TaskType, Status, Stage, Owning
<1>23. ASSUME NEW t \in Task, Persist(t) PROVE TypeOK'
  BY <1>23, Frames DEF Persist, At, GoTo, row, redis, local, api, history,
      StoreType, TaskType, Object, Call, Stage, Owning
<1>24. ASSUME NEW t \in Task, StartPurge(t) PROVE TypeOK'
  BY <1>24, Frames DEF StartPurge, At, GoTo, Calls, row, stores, redis, local,
      api, history, StoreType, TaskType, Object, Call, Stage, Owning
<1>25. ASSUME NEW t \in Task, StartIndex(t) PROVE TypeOK'
  BY <1>25, Frames DEF StartIndex, At, CallsOf, GoTo, Calls, row, stores,
      redis, local, api, history, StoreType, TaskType, Object, Call, Stage,
      Owning
<1>26. ASSUME NEW t \in Task, IndexDone(t) PROVE TypeOK'
  BY <1>26, Frames DEF IndexDone, At, CallsOf, GoTo, row, stores, redis,
      local, api, history, TaskType, Stage, Owning
<1>27. ASSUME NEW t \in Task, Finalize(t) PROVE TypeOK'
  BY <1>27, Frames DEF Finalize, At, GoTo, SetStatus, stores, redis, local,
      api, history, RowType, TaskType, Status, Stage, Owning
<1>28. ASSUME NEW t \in Task, SetFailed(t) PROVE TypeOK'
  BY <1>28, Frames, SpendType DEF SetFailed, At, GoTo, SetStatus, stores,
      redis, local, api, RowType, TaskType, HistoryType, Status, Stage, Owning
<1>29. ASSUME NEW t \in Task, Release(t) PROVE TypeOK'
  BY <1>29, Frames, SpendType, EndType DEF Release, At, ReleaseLease, row,
      stores, api, RedisType, TaskType, HistoryType, Stage, Owning
<1>30. ASSUME NEW t \in Task, Retry(t) PROVE TypeOK'
  BY <1>30, Frames, SpendType, EnqueueType, EndType DEF Retry, At,
      ReleaseLease, row, stores, api, RedisType, QueueType, TaskType,
      HistoryType, Stage, Owning
<1>31. ASSUME NEW t \in Task, StandDown(t) PROVE TypeOK'
  BY <1>31, Frames DEF StandDown, At, GoTo, row, stores, redis, api, history,
      TaskType, Stage, Owning
<1>32. ASSUME NEW t \in Task, ClaimUnleased(t) PROVE TypeOK'
  BY <1>32, Frames, SpendType DEF ClaimUnleased, At, GoTo, row, stores, redis,
      local, api, RedisType, TaskType, HistoryType, Stage, Owning
<1>33. ASSUME NEW t \in Task, SaveFails(t) PROVE TypeOK'
  BY <1>33, Frames, SpendType DEF SaveFails, At, GoTo, SaveMetadata,
      UploadArtifact, redis, local, api, RowType, StoreType, TaskType,
      HistoryType, Status, Object, Call, Stage, Owning
<1>34. ASSUME NEW t \in Task, StageFails(t) PROVE TypeOK'
  BY <1>34, Frames, SpendType DEF StageFails, At, GoTo, row, stores, redis,
      local, api, TaskType, HistoryType, Stage, Owning
<1>35. ASSUME NEW t \in Task, StageRaisesLookup(t) PROVE TypeOK'
  BY <1>35, Frames, SpendType DEF StageRaisesLookup, At, GoTo, row, stores,
      redis, local, api, TaskType, HistoryType, Stage, Owning
<1>36. ASSUME NEW t \in Task, DbFails(t) PROVE TypeOK'
  BY <1>36, Frames, SpendType DEF DbFails, At, GoTo, row, stores, redis,
      local, api, TaskType, HistoryType, Stage, Owning
<1>37. ASSUME NEW t \in Task, Crash(t) PROVE TypeOK'
  BY <1>37, Frames, SpendType, EnqueueType, EndType DEF Crash, CallsOf, row,
      stores, redis, api, StoreType, QueueType, TaskType, HistoryType, Object,
      Call, Stage, Owning
<1>38. ASSUME NEW t \in Task, HardLimit(t) PROVE TypeOK'
  BY <1>38, Frames, SpendType, EndType DEF HardLimit, CallsOf, row, stores,
      redis, api, StoreType, TaskType, HistoryType, Object, Call, Stage,
      Owning
<1>39. ASSUME NEW t \in Task, SoftLimitCaught(t) PROVE TypeOK'
  BY <1>39, Frames, SpendType DEF SoftLimitCaught, At, GoTo, row, stores,
      redis, local, api, TaskType, HistoryType, Stage, Owning
<1>40. ASSUME NEW t \in Task, SoftLimitEscapes(t) PROVE TypeOK'
  BY <1>40, Frames, SpendType DEF SoftLimitEscapes, At, row, stores, redis,
      api, TaskType, HistoryType, Stage, Owning
<1>41. ASSUME NEW t \in Task, Thaw(t) PROVE TypeOK'
  BY <1>41, Frames DEF Thaw, row, stores, redis, api, history, TaskType,
      Stage, Owning
<1>42. ASSUME NEW c \in threads, CallLands(c) PROVE TypeOK'
  BY <1>42, Frames DEF CallLands, NoteLate, Awaited, row, redis, local, api,
      StoreType, HistoryType, Object, Call
<1>43. ASSUME NEW c \in threads, CallFails(c) PROVE TypeOK'
  BY <1>43, Frames, SpendType DEF CallFails, NoteLate, Awaited, GoTo, row,
      redis, local, api, StoreType, TaskType, HistoryType, Object, Call,
      Stage, Owning
<1>44. ASSUME NEW r \in Reader, ReadRow(r) PROVE TypeOK'
  BY <1>44, Frames DEF ReadRow, row, stores, redis, local, history, ApiType
<1>45. ASSUME NEW r \in Reader, CheckLease(r) PROVE TypeOK'
  BY <1>45, Frames, SpendType DEF CheckLease, row, stores, redis, local,
      ApiType, HistoryType
<1>46. ASSUME NEW r \in Reader, Mark(r) PROVE TypeOK'
  BY <1>46, Frames, SpendType DEF Mark, row, stores, redis, local, RedisType,
      ApiType, HistoryType
<1>47. ASSUME NEW r \in Reader, ReapEnqueue(r) PROVE TypeOK'
  BY <1>47, Frames, SpendType, EnqueueType DEF ReapEnqueue, row, stores,
      local, RedisType, QueueType, ApiType, HistoryType
<1>48. ASSUME NEW x \in Index, PurgeIndex(x) PROVE TypeOK'
  BY <1>48, Frames DEF PurgeIndex, row, redis, local, StoreType, ApiType,
      HistoryType, Object, Call
<1>49. ASSUME NEW x \in Index, PurgeIndexFails(x) PROVE TypeOK'
  BY <1>49, Frames, SpendType DEF PurgeIndexFails, row, stores, redis, local,
      ApiType, HistoryType
<1>50. ASSUME NEW t \in Task, HandlerCancelled(t) PROVE TypeOK'
  BY <1>50, Frames, EnqueueType, EndType DEF HandlerCancelled, CallsOf, row,
      stores, redis, api, history, StoreType, QueueType, Object, Call
<1>51. CASE UNCHANGED vars
  BY <1>51, Frames DEF vars, row, stores, redis, local, api, history
<1>q. QED
  BY <1>1, <1>2, <1>3, <1>4, <1>5, <1>6, <1>7, <1>8, <1>9, <1>10, <1>11,
     <1>12, <1>13, <1>14, <1>15, <1>16, <1>17, <1>18, <1>19, <1>20, <1>21,
     <1>22, <1>23, <1>24, <1>25, <1>26, <1>27, <1>28, <1>29, <1>30, <1>31,
     <1>32, <1>33, <1>34, <1>35, <1>36, <1>37, <1>38, <1>39, <1>40, <1>41,
     <1>42, <1>43, <1>44, <1>45, <1>46, <1>47, <1>48, <1>49, <1>50, <1>51
  DEF Next, Upload, Progress, Trouble, Read, Purge

\* Every reachable state is well typed: no handler writes a status, a stage or
\* a counter outside its range (the parse_status column and the pipeline's
\* local state in _run_pipeline).
THEOREM TypeCorrect == Spec => []TypeOK
<1>1. Init => TypeOK
  BY TypeInit
<1>2. TypeOK /\ [Next]_vars => TypeOK'
  BY TypeNext
<1> QED
  BY <1>1, <1>2, PTL DEF Spec

-----------------------------------------------------------------------------
(***************************************************************************)
(* The lease protects the document: at most one task is between claim and  *)
(* release (SoleOwner), nobody deletes or overwrites another's lease       *)
(* (OthersLeaseUntouched), and the row says processing while a counted     *)
(* task works on it (OwnerSeesProcessing).                                 *)
(*                                                                         *)
(* SoleOwner is not inductive: that two tasks are not both owners now says *)
(* nothing of a claim that succeeds next.  The strengthening is OwnersHold *)
(* - whoever is past the claim still has the key in Redis - and a claim    *)
(* only succeeds while there is no key.                                    *)
(***************************************************************************)

Mine(t) == held[t] /\ lease = t

OwnersHold ==
  "breach" \notin mishaps => \A t \in Task : pc[t] \in Owning => Mine(t)

\* A task moves without touching any lease, and not past the claim.
Moves(t) ==
  /\ \A u \in Task \ {t} : pc'[u] = pc[u]
  /\ pc'[t] \in Owning => pc[t] \in Owning
  /\ UNCHANGED <<held, lease>> /\ mishaps \subseteq mishaps'

\* No task moves and no lease changes.
Quiet == UNCHANGED <<pc, held, lease>> /\ mishaps \subseteq mishaps'

LEMMA OutsideIsQuiet ==
  ASSUME Upload \/ Purge \/ MarkerExpires \/ \E r \in Reader : Read(r)
  PROVE  Quiet
BY DEF Quiet, Upload, UploadCreate, UploadStore, UploadStoreFails,
       UploadEnqueue, UploadLost, Purge, PurgeStart, PurgeIndex,
       PurgeIndexFails, PurgeObjects, PurgeRows, PurgeCrash, MarkerExpires,
       Read, ReadRow, CheckLease, Mark, ReapEnqueue, redis, local, history

LEMMA ProgressMoves ==
  ASSUME TypeOK, NEW t \in Task, Progress(t),
         ~Claim(t), ~StandDown(t), ~Release(t), ~Retry(t)
  PROVE  Moves(t)
<1> USE DEF TypeOK, TaskType, Moves, Owning, At, GoTo
<1>1. CASE Fetch(t)
  <2>1. /\ pc' = [pc EXCEPT ![t] = pc'[t]]
        /\ pc'[t] \in {"retry", "release", "claim"}
    BY <1>1 DEF Fetch
  <2> QED
    BY <1>1, <2>1 DEF Fetch, redis, history
<1>2. CASE Unmark(t)
  BY <1>2 DEF Unmark, local
<1>3. CASE Count(t)
  BY <1>3 DEF Count, redis
<1>4. CASE Resume(t) \/ Parse(t) \/ ParseNoPdf(t)
  BY <1>4 DEF Resume, Parse, ParseNoPdf, redis, local, history
<1>5. CASE Save(t) \/ FinishEmpty(t) \/ Persist(t)
  BY <1>5 DEF Save, FinishEmpty, Persist, redis, local, history
<1>6. CASE StartPurge(t) \/ StartIndex(t) \/ IndexDone(t)
  BY <1>6 DEF StartPurge, StartIndex, IndexDone, redis, local, history
<1>7. CASE Finalize(t) \/ SetFailed(t)
  BY <1>7 DEF Finalize, SetFailed, redis, local, history
<1> QED
  BY <1>1, <1>2, <1>3, <1>4, <1>5, <1>6, <1>7 DEF Progress

LEMMA TroubleMoves ==
  ASSUME TypeOK, NEW t \in Task, Trouble(t),
         ~ClaimUnleased(t), ~HandlerCancelled(t), ~Crash(t), ~HardLimit(t)
  PROVE  Moves(t)
<1> USE DEF TypeOK, TaskType, Moves, Owning, At, GoTo, redis, local
<1>1. CASE SaveFails(t) \/ StageFails(t) \/ StageRaisesLookup(t) \/ DbFails(t)
  BY <1>1 DEF SaveFails, StageFails, StageRaisesLookup, DbFails
<1>2. CASE SoftLimitCaught(t) \/ SoftLimitEscapes(t) \/ Thaw(t)
  BY <1>2 DEF SoftLimitCaught, SoftLimitEscapes, Thaw, history
<1> QED
  BY <1>1, <1>2 DEF Trouble

LEMMA DeliverMoves ==
  ASSUME TypeOK, NEW t \in Task, Deliver(t)
  PROVE  Moves(t)
BY DEF TypeOK, TaskType, Moves, Deliver, Owning, GoTo, redis, history

LEMMA CallMoves ==
  ASSUME TypeOK, NEW c \in threads, CallLands(c) \/ CallFails(c)
  PROVE  c.task \in Task /\ Moves(c.task)
BY DEF TypeOK, TaskType, StoreType, Call, Moves, CallLands, CallFails,
       NoteLate, Awaited, GoTo, Owning, redis, local

\* What a task that leaves does to its own record and to the lease.
Leaves(t) ==
  /\ \A u \in Task \ {t} : pc'[u] = pc[u] /\ held'[u] = held[u]
  /\ pc'[t] \notin Owning \cup {"handler"}
  /\ lease' = lease \/ (Mine(t) /\ lease' = NoTask)
  /\ mishaps' = mishaps

LEMMA EndingLeaves ==
  ASSUME TypeOK, NEW t \in Task,
         \/ Release(t) \/ Retry(t) \/ StandDown(t)
         \/ HandlerCancelled(t) \/ Crash(t) \/ HardLimit(t)
  PROVE  Leaves(t)
<1> USE DEF TypeOK, TaskType, Leaves, End, GoTo, Owning
<1>1. CASE Release(t) \/ Retry(t)
  BY <1>1 DEF Release, Retry, ReleaseLease, Mine
<1>2. CASE HandlerCancelled(t) \/ Crash(t) \/ HardLimit(t)
  BY <1>2 DEF HandlerCancelled, Crash, HardLimit, redis, history
<1>3. CASE StandDown(t)
  BY <1>3 DEF StandDown, redis, history
<1> QED
  BY <1>1, <1>2, <1>3

LEMMA OwnersHoldNext == TypeOK /\ OwnersHold /\ [Next]_vars => OwnersHold'
<1> SUFFICES ASSUME TypeOK, OwnersHold, [Next]_vars, "breach" \notin mishaps',
                    NEW s \in Task, pc'[s] \in Owning
             PROVE  Mine(s)'
  BY DEF OwnersHold
<1> USE DEF OwnersHold, Mine
<1>1. ASSUME NEW t \in Task, Moves(t) PROVE Mine(s)'
  BY <1>1 DEF Moves
<1>2. CASE Quiet
  BY <1>2 DEF Quiet
<1>3. ASSUME NEW t \in Task, Leaves(t) PROVE Mine(s)'
  BY <1>3, NoTaskAssumption DEF Leaves
<1>4. ASSUME NEW t \in Task, Claim(t) PROVE Mine(s)'
  BY <1>4, NoTaskAssumption
  DEF Claim, At, GoTo, NoteOverlap, Owning, TypeOK, TaskType
<1>5. CASE (\E t \in Task : ClaimUnleased(t)) \/ LeaseLapses
  BY <1>5 DEF ClaimUnleased, LeaseLapses
<1>6. CASE LeaseExpires
  BY <1>6 DEF LeaseExpires, local, history, Owning
<1>7. CASE UNCHANGED vars
  BY <1>7 DEF vars, redis, local, history
<1> QED
  BY <1>1, <1>2, <1>3, <1>4, <1>5, <1>6, <1>7, OutsideIsQuiet, ProgressMoves,
     TroubleMoves, DeliverMoves, CallMoves, EndingLeaves
  DEF Next, Progress, Trouble

\* While no live task lost its key, and none claimed with Redis down, two
\* tasks never run the pipeline of one document together.
THEOREM OneOwner == Spec => []SoleOwner
<1>1. Init => OwnersHold
  BY DEF Init, OwnersHold, Owning
<1>2. OwnersHold => SoleOwner
  BY DEF OwnersHold, SoleOwner, Mine
<1> QED
  BY <1>1, <1>2, OwnersHoldNext, TypeCorrect, PTL DEF Spec

\* The lease key only disappears: it expires while no task moves, or the task
\* it belongs to deletes it as it ends.  SET NX and the compare-and-delete
\* script never touch the key of somebody else.
THEOREM LeaseUntouched == Spec => OthersLeaseUntouched
<1> DEFINE Kept == lease # NoTask /\ lease' # lease =>
      /\ lease' = NoTask
      /\ \/ pc' = pc
         \/ pc[lease] \in {"release", "retry"} /\ pc'[lease] = "idle"
<1>1. TypeOK /\ [Next]_vars => [Kept]_vars
  <2> SUFFICES ASSUME TypeOK, [Next]_vars, lease # NoTask, lease' # lease
               PROVE  /\ lease' = NoTask
                      /\ \/ pc' = pc
                         \/ /\ pc[lease] \in {"release", "retry"}
                            /\ pc'[lease] = "idle"
    OBVIOUS
  <2>1. ASSUME NEW t \in Task, Moves(t) PROVE FALSE
    BY <2>1 DEF Moves
  <2>2. CASE Quiet
    BY <2>2 DEF Quiet
  <2>3. ASSUME NEW t \in Task, Claim(t) \/ ClaimUnleased(t) PROVE FALSE
    BY <2>3 DEF Claim, ClaimUnleased
  <2>4. ASSUME NEW t \in Task,
               \/ HandlerCancelled(t) \/ Crash(t) \/ HardLimit(t)
               \/ StandDown(t)
        PROVE  FALSE
    BY <2>4 DEF HandlerCancelled, Crash, HardLimit, StandDown, redis
  <2>5. ASSUME NEW t \in Task, Release(t) \/ Retry(t)
        PROVE  lease' = NoTask /\ t = lease /\ pc'[t] = "idle"
                /\ pc[t] \in {"release", "retry"}
    BY <2>5 DEF Release, Retry, ReleaseLease, At, End, GoTo, TypeOK, TaskType
  <2>6. CASE LeaseExpires \/ LeaseLapses
    BY <2>6 DEF LeaseExpires, LeaseLapses
  <2>7. CASE UNCHANGED vars
    BY <2>7 DEF vars, redis
  <2> QED
    BY <2>1, <2>2, <2>3, <2>4, <2>5, <2>6, <2>7, OutsideIsQuiet,
       ProgressMoves, TroubleMoves, DeliverMoves, CallMoves
    DEF Next, Progress, Trouble
<1> QED
  BY <1>1, TypeCorrect, PTL DEF Spec, OthersLeaseUntouched
-----------------------------------------------------------------------------
(***************************************************************************)
(* What the documents row says: its attempts are capped (AttemptCap), it   *)
(* says processing while a task works (OwnerSeesProcessing), and its       *)
(* history is that of DocumentLifecycle (ImplementsLifecycle).             *)
(***************************************************************************)

(***************************************************************************)
(* INGEST_MAX_ATTEMPTS holds against every way a document is delivered     *)
(* again (AttemptCap).  The argument needs no lease: the attempt is        *)
(* counted and compared in the transaction that also writes the status.    *)
(*                                                                         *)
(* Counted relates what the row counts to what the tasks were told; the    *)
(* attempt a task takes is above every attempt in use, unless a delete has *)
(* taken the counter away, and then the row is gone for good (NothingYet:  *)
(* a row is only created where nothing has run).                           *)
(***************************************************************************)

NothingYet ==
  upc = "new" =>
    /\ status = "absent" /\ attempts = 0 /\ started = 0
    /\ \A k \in 0 .. MaxRetries : queue[k] = 0
    /\ \A t \in Task : pc[t] = "idle" /\ attempt[t] = 0
    /\ \A r \in Reader : rpc[r] = "idle"

Counted ==
  /\ started <= attempts /\ started <= MaxAttempts
  /\ status # "absent" => \A t \in Task : attempt[t] <= attempts
  /\ \A s, t \in Task : attempt[s] # 0 /\ attempt[s] = attempt[t] => s = t

\* Only the upload request moves its own program counter.
LEMMA UploadAlone ==
  ASSUME [Next]_vars, ~Upload
  PROVE  upc' = upc
<1>1. ASSUME NEW t \in Task, Deliver(t) \/ Progress(t) \/ Trouble(t)
      PROVE  upc' = upc
  <2>1. CASE Deliver(t) \/ Trouble(t)
    BY <2>1 DEF Deliver, Trouble, ClaimUnleased, SaveFails, StageFails,
       StageRaisesLookup, DbFails, HandlerCancelled, Crash, HardLimit, SoftLimitCaught,
       SoftLimitEscapes, Thaw, api
  <2>2. CASE Progress(t)
    BY <2>2 DEF Progress, Fetch, Claim, Unmark, Count, Resume, Parse,
       ParseNoPdf, Save, FinishEmpty, Persist, StartPurge, StartIndex,
       IndexDone, Finalize, SetFailed, Release, Retry, StandDown, api
  <2> QED
    BY <1>1, <2>1, <2>2
<1>2. CASE LeaseExpires \/ LeaseLapses \/ MarkerExpires
  BY <1>2 DEF LeaseExpires, LeaseLapses, MarkerExpires, api
<1>3. ASSUME NEW c \in threads, CallLands(c) \/ CallFails(c) PROVE upc' = upc
  BY <1>3 DEF CallLands, CallFails, api
<1>4. ASSUME NEW r \in Reader, Read(r) PROVE upc' = upc
  BY <1>4 DEF Read, ReadRow, CheckLease, Mark, ReapEnqueue
<1>5. CASE Purge
  BY <1>5 DEF Purge, PurgeStart, PurgeObjects, PurgeRows, PurgeCrash,
     PurgeIndex, PurgeIndexFails
<1>6. CASE UNCHANGED vars
  BY <1>6 DEF vars, api
<1> QED
  BY <1>1, <1>2, <1>3, <1>4, <1>5, <1>6 DEF Next

LEMMA NothingYetNext == TypeOK /\ NothingYet /\ [Next]_vars => NothingYet'
<1> SUFFICES ASSUME TypeOK, NothingYet, [Next]_vars, upc' = "new"
             PROVE  NothingYet'
  BY DEF NothingYet
<1> USE DEF NothingYet
<1>1. ~Upload
  BY DEF Upload, UploadCreate, UploadStore, UploadStoreFails,
     UploadEnqueue, UploadLost
<1>2. upc = "new"
  BY <1>1, UploadAlone
<1>3. ASSUME NEW t \in Task,
             Deliver(t) \/ Progress(t) \/ (Trouble(t) /\ ~Thaw(t))
      PROVE  FALSE
  <2>1. pc[t] = "idle" /\ \A k \in 0 .. MaxRetries : ~(queue[k] > 0)
    BY <1>2
  <2>2. ~Deliver(t)
    BY <2>1 DEF Deliver
  <2>3. ~Progress(t)
    BY <2>1 DEF Progress, Fetch, Claim, Unmark, Count, Resume, Parse,
       ParseNoPdf, Save, FinishEmpty, Persist, StartPurge, StartIndex,
       IndexDone, Finalize, SetFailed, Release, Retry, StandDown, At, Owning
  <2>4. ~(Trouble(t) /\ ~Thaw(t))
    BY <2>1 DEF Trouble, ClaimUnleased, SaveFails, StageFails,
       StageRaisesLookup, DbFails, HandlerCancelled, Crash, HardLimit, SoftLimitCaught,
       SoftLimitEscapes, At, Owning, Working
  <2> QED
    BY <1>3, <2>2, <2>3, <2>4
<1>4. ASSUME NEW t \in Task, Thaw(t) PROVE NothingYet'
  BY <1>4 DEF Thaw, row, api, history
<1>5. ASSUME NEW r \in Reader, Read(r) PROVE FALSE
  BY <1>5, <1>2 DEF Read, ReadRow, CheckLease, Mark, ReapEnqueue
<1>6. ASSUME NEW c \in threads, CallLands(c) \/ CallFails(c) PROVE NothingYet'
  <2>1. ~Awaited(c)
    BY <1>2 DEF Awaited, TypeOK, StoreType, Call
  <2> QED
    BY <1>6, <2>1 DEF CallLands, CallFails, row, local, api
<1>7. CASE LeaseExpires \/ LeaseLapses \/ MarkerExpires
  BY <1>7 DEF LeaseExpires, LeaseLapses, MarkerExpires, row, local, api,
     history
<1>8. CASE Purge
  BY <1>8 DEF Purge, PurgeStart, PurgeObjects, PurgeRows, PurgeCrash,
     PurgeIndex, PurgeIndexFails, row, local
<1>9. CASE UNCHANGED vars
  BY <1>9 DEF vars, row, local, api, history
<1> QED
  BY <1>1, <1>2, <1>3, <1>4, <1>5, <1>6, <1>7, <1>8, <1>9 DEF Next

\* The counters stand still and no row appears; a task may forget its attempt.
Still ==
  /\ UNCHANGED <<attempts, started>> /\ (status' # "absent" => status # "absent")
  /\ \A t \in Task : attempt'[t] \in {attempt[t], 0}

\* Only the upload, the count and the delete touch the counters.
LEMMA CountersStill ==
  ASSUME TypeOK, [Next]_vars, ~UploadCreate, ~PurgeRows,
         \A t \in Task : ~Count(t)
  PROVE  Still
<1> USE DEF Still
<1>1. CASE Upload
  BY <1>1 DEF Upload, UploadStore, UploadStoreFails, UploadEnqueue,
     UploadLost, row, local, history
<1>2. CASE Purge
  BY <1>2 DEF Purge, PurgeStart, PurgeObjects, PurgeCrash, PurgeIndex,
     PurgeIndexFails, row, local
<1>3. ASSUME NEW t \in Task, Deliver(t) \/ Progress(t) PROVE Still
  <2>1. CASE Deliver(t) \/ Fetch(t) \/ Claim(t) \/ Unmark(t) \/ StandDown(t)
    BY <2>1 DEF Deliver, Fetch, Claim, Unmark, StandDown, row, local, history
  <2>2. CASE Resume(t) \/ Parse(t) \/ ParseNoPdf(t) \/ Save(t) \/ Persist(t)
    BY <2>2 DEF Resume, Parse, ParseNoPdf, Save, Persist, row, local, history
  <2>3. CASE StartPurge(t) \/ StartIndex(t) \/ IndexDone(t)
    BY <2>3 DEF StartPurge, StartIndex, IndexDone, row, local, history
  <2>4. CASE FinishEmpty(t) \/ Finalize(t) \/ SetFailed(t)
    BY <2>4 DEF FinishEmpty, Finalize, SetFailed, SetStatus, local, history
  <2>5. CASE Release(t) \/ Retry(t)
    BY <2>5 DEF Release, Retry, End, TypeOK, TaskType, row
  <2> QED
    BY <1>3, <2>1, <2>2, <2>3, <2>4, <2>5 DEF Progress
<1>4. ASSUME NEW t \in Task, Trouble(t) PROVE Still
  <2>1. CASE HandlerCancelled(t) \/ Crash(t) \/ HardLimit(t)
    BY <2>1 DEF HandlerCancelled, Crash, HardLimit, End, TypeOK, TaskType,
       row, history
  <2>2. CASE ~HandlerCancelled(t) /\ ~Crash(t) /\ ~HardLimit(t)
    BY <1>4, <2>2 DEF Trouble, ClaimUnleased, SaveFails, StageFails,
       StageRaisesLookup, DbFails, SoftLimitCaught, SoftLimitEscapes, Thaw,
       row, local, history
  <2> QED
    BY <2>1, <2>2
<1>5. ASSUME NEW c \in threads, CallLands(c) \/ CallFails(c) PROVE Still
  BY <1>5 DEF CallLands, CallFails, row, local
<1>6. ASSUME NEW r \in Reader, Read(r) PROVE Still
  BY <1>6 DEF Read, ReadRow, CheckLease, Mark, ReapEnqueue, row, local,
     history
<1>7. CASE LeaseExpires \/ LeaseLapses \/ MarkerExpires
  BY <1>7 DEF LeaseExpires, LeaseLapses, MarkerExpires, row, local, history
<1>8. CASE UNCHANGED vars
  BY <1>8 DEF vars, row, local, history
<1> QED
  BY <1>1, <1>2, <1>3, <1>4, <1>5, <1>6, <1>7, <1>8 DEF Next

LEMMA CountedNext ==
  TypeOK /\ NothingYet /\ Counted /\ [Next]_vars => Counted'
<1> SUFFICES ASSUME TypeOK, NothingYet, Counted, [Next]_vars PROVE Counted'
  OBVIOUS
<1> USE AttemptsAssumption DEF TypeOK, RowType, TaskType, Counted
<1>1. CASE Still
  BY <1>1 DEF Still
<1>2. CASE UploadCreate
  BY <1>2 DEF UploadCreate, NothingYet, local, history
<1>3. CASE PurgeRows
  BY <1>3 DEF PurgeRows, local
<1>4. ASSUME NEW t \in Task, Count(t) PROVE Counted'
  <2>1. CASE attempt' = attempt
    BY <1>4, <2>1 DEF Count
  <2>2. CASE attempt' # attempt
    <3>1. /\ status # "absent" /\ attempts < MaxAttempts
          /\ attempts' = attempts + 1 /\ started' = started + 1
          /\ attempt' = [attempt EXCEPT ![t] = attempts + 1]
      BY <1>4, <2>2 DEF Count
    <3>2. \A s \in Task : attempt[s] \in Nat /\ attempt[s] <= attempts
      BY <3>1
    <3>3. \A s \in Task : attempt'[s] = IF s = t THEN attempts + 1 ELSE attempt[s]
      BY <3>1
    <3> QED
      BY <3>1, <3>2, <3>3
  <2> QED
    BY <2>1, <2>2
<1> QED
  BY <1>1, <1>2, <1>3, <1>4, CountersStill

\* However a document is redelivered, reaped, retried or run without a lease,
\* at most INGEST_MAX_ATTEMPTS tasks run its pipeline, no two of them as the
\* same attempt: the counter in Postgres is the one thing no fault resets.
THEOREM AttemptsCapped == Spec => []AttemptCap
<1>1. Init => NothingYet /\ Counted
  BY AttemptsAssumption DEF Init, NothingYet, Counted
<1>2. Counted => AttemptCap
  BY DEF Counted, AttemptCap
<1> QED
  BY <1>1, <1>2, NothingYetNext, CountedNext, TypeCorrect, PTL DEF Spec

-----------------------------------------------------------------------------
(***************************************************************************)
(* What the row says while a task works (OwnerSeesProcessing).  Whoever    *)
(* writes a status still owns the document: the pipeline because it does   *)
(* not get past the claim otherwise (OwnersHold), the exception handler    *)
(* because it is entered from the pipeline (HandlersHold), except for a    *)
(* database error before the claim, which the property leaves out.         *)
(***************************************************************************)

HandlersHold ==
  "breach" \notin mishaps /\ spent["db"] = 0 =>
    \A t \in Task : pc[t] = "handler" => Mine(t)

LEMMA SpendGrows ==
  ASSUME TypeOK, NEW kind, Spend(kind), spent'["db"] = 0
  PROVE  spent["db"] = 0 /\ kind # "db"
<1>1. "db" \in Kind /\ spent["db"] \in Nat
  BY DEF Kind, TypeOK, HistoryType
<1> QED
  BY <1>1 DEF Spend, TypeOK, HistoryType

\* What is spent on database errors stays spent.
LEMMA DbSpentGrows ==
  ASSUME TypeOK, [Next]_vars, spent'["db"] = 0
  PROVE  spent["db"] = 0
<1>1. spent' = spent \/ \E kind : Spend(kind)
  BY DEF Next, Upload, UploadCreate, UploadStore, UploadStoreFails,
     UploadEnqueue, UploadLost, Progress, Trouble, Deliver, Fetch, Claim,
     Unmark, Count, Resume, Parse, ParseNoPdf, Save, FinishEmpty, Persist,
     StartPurge, StartIndex, IndexDone, Finalize, SetFailed, Release, Retry,
     StandDown, ReleaseLease, ClaimUnleased, SaveFails, StageFails,
     StageRaisesLookup, DbFails, HandlerCancelled, Crash, HardLimit, SoftLimitCaught,
     SoftLimitEscapes, Thaw, LeaseExpires, LeaseLapses, MarkerExpires, Read,
     ReadRow, CheckLease, Mark, ReapEnqueue, Purge, PurgeStart, PurgeObjects,
     PurgeRows, PurgeCrash, PurgeIndex, PurgeIndexFails, CallLands,
     CallFails, vars, history
<1> QED
  BY <1>1, SpendGrows

\* A step that writes a status over an existing row, and who takes it.
Writes(t) == Count(t) \/ FinishEmpty(t) \/ Finalize(t) \/ SetFailed(t)

\* The stages in which a task may write a status over processing: the counted
\* pipeline, and the exception handler, which is entered from it.
Writing == Working \cup {"handler"}

\* Any other step leaves the status or takes the row away, and starts no work.
Bystands ==
  /\ status' \in {status, "absent"}
  /\ \A s \in Task : pc'[s] \in Writing => pc[s] \in Writing

LEMMA BystandersBystand ==
  ASSUME TypeOK, [Next]_vars, spent'["db"] = 0, ~UploadCreate,
         \A t \in Task : ~Writes(t)
  PROVE  Bystands
<1> USE DEF Bystands, TypeOK, TaskType, Writing, Working, Owning, GoTo, At
<1>1. CASE Upload
  BY <1>1 DEF Upload, UploadStore, UploadStoreFails, UploadEnqueue,
     UploadLost, row
<1>2. CASE Purge
  BY <1>2 DEF Purge, PurgeStart, PurgeObjects, PurgeRows, PurgeCrash,
     PurgeIndex, PurgeIndexFails, row
<1>3. ASSUME NEW t \in Task, Deliver(t) \/ Progress(t) PROVE Bystands
  <2>1. CASE Fetch(t)
    <3>1. /\ pc' = [pc EXCEPT ![t] = pc'[t]]
          /\ pc'[t] \in {"retry", "release", "claim"} /\ status' = status
      BY <2>1 DEF Fetch, row
    <3> QED
      BY <3>1
  <2>2. CASE Deliver(t) \/ Claim(t) \/ Unmark(t) \/ StandDown(t)
    BY <2>2 DEF Deliver, Claim, Unmark, StandDown, row
  <2>3. CASE Resume(t) \/ Parse(t) \/ ParseNoPdf(t) \/ Save(t) \/ Persist(t)
    BY <2>3 DEF Resume, Parse, ParseNoPdf, Save, Persist, row
  <2>4. CASE StartPurge(t) \/ StartIndex(t) \/ IndexDone(t)
    BY <2>4 DEF StartPurge, StartIndex, IndexDone, row
  <2>5. CASE Release(t) \/ Retry(t)
    BY <2>5 DEF Release, Retry, End, row
  <2> QED
    BY <1>3, <2>1, <2>2, <2>3, <2>4, <2>5 DEF Progress, Writes
<1>4. ASSUME NEW t \in Task, Trouble(t) PROVE Bystands
  <2>1. CASE HandlerCancelled(t) \/ Crash(t) \/ HardLimit(t)
    BY <2>1 DEF HandlerCancelled, Crash, HardLimit, End, row
  <2>2. CASE DbFails(t)
    BY <2>2, SpendGrows DEF DbFails
  <2>3. CASE ClaimUnleased(t) \/ SaveFails(t) \/ StageFails(t)
    BY <2>3 DEF ClaimUnleased, SaveFails, StageFails, row
  <2>4. CASE StageRaisesLookup(t) \/ SoftLimitCaught(t)
    BY <2>4 DEF StageRaisesLookup, SoftLimitCaught, row
  <2>5. CASE SoftLimitEscapes(t) \/ Thaw(t)
    BY <2>5 DEF SoftLimitEscapes, Thaw, row
  <2> QED
    BY <1>4, <2>1, <2>2, <2>3, <2>4, <2>5 DEF Trouble
<1>5. ASSUME NEW c \in threads, CallLands(c) \/ CallFails(c) PROVE Bystands
  BY <1>5 DEF CallLands, CallFails, Awaited, StoreType, Call, row
<1>6. ASSUME NEW r \in Reader, Read(r) PROVE Bystands
  BY <1>6 DEF Read, ReadRow, CheckLease, Mark, ReapEnqueue, row
<1>7. CASE LeaseExpires \/ LeaseLapses \/ MarkerExpires
  BY <1>7 DEF LeaseExpires, LeaseLapses, MarkerExpires, row
<1>8. CASE UNCHANGED vars
  BY <1>8 DEF vars, row
<1> QED
  BY <1>1, <1>2, <1>3, <1>4, <1>5, <1>6, <1>7, <1>8 DEF Next

\* Whoever writes a status moves alone, from the pipeline or the handler, and
\* not into the handler unless the pipeline was left for it.
LEMMA WriterMoves ==
  ASSUME TypeOK, NEW t \in Task, Writes(t)
  PROVE  /\ Moves(t) /\ pc[t] \in Owning \cup {"handler"}
         /\ pc'[t] = "handler" => pc[t] \in Owning
         /\ pc'[t] \in Writing => status' \in {"processing", "absent"}
<1> USE DEF Moves, At, GoTo, Writing, Working, Owning, TypeOK, TaskType
<1>1. CASE Count(t)
  BY <1>1 DEF Count, redis
<1>2. CASE FinishEmpty(t) \/ Finalize(t) \/ SetFailed(t)
  BY <1>2 DEF FinishEmpty, Finalize, SetFailed, redis, local, history
<1> QED
  BY <1>1, <1>2 DEF Writes

LEMMA MishapsStay ==
  ASSUME TypeOK, [Next]_vars, "breach" \notin mishaps'
  PROVE  "breach" \notin mishaps
BY OutsideIsQuiet, ProgressMoves, TroubleMoves, DeliverMoves, CallMoves,
   EndingLeaves
DEF Next, Progress, Trouble, Moves, Quiet, Leaves, Claim, NoteOverlap,
    ClaimUnleased, LeaseExpires, LeaseLapses, vars, history

LEMMA HandlersHoldNext ==
  TypeOK /\ OwnersHold /\ HandlersHold /\ [Next]_vars => HandlersHold'
<1> SUFFICES ASSUME TypeOK, OwnersHold, HandlersHold, [Next]_vars,
                    "breach" \notin mishaps', spent'["db"] = 0,
                    NEW s \in Task, pc'[s] = "handler"
             PROVE  Mine(s)'
  BY DEF HandlersHold
<1> USE DEF Mine
<1>1. Mine(s)
  <2>1. pc[s] \in Owning \cup {"handler"}
    <3>1. CASE Bystands
      BY <3>1 DEF Bystands, Writing, Working
    <3>2. CASE UploadCreate
      BY <3>2 DEF UploadCreate
    <3>3. ASSUME NEW t \in Task, Writes(t) PROVE pc[s] \in Owning \cup {"handler"}
      BY <3>3, WriterMoves DEF Moves
    <3> QED
      BY <3>1, <3>2, <3>3, BystandersBystand
  <2> QED
    BY <2>1, MishapsStay, DbSpentGrows DEF OwnersHold, HandlersHold
<1>2. ASSUME NEW t \in Task, Moves(t) PROVE Mine(s)'
  BY <1>1, <1>2 DEF Moves
<1>3. CASE Quiet
  BY <1>1, <1>3 DEF Quiet
<1>4. ASSUME NEW t \in Task, Leaves(t) PROVE Mine(s)'
  BY <1>1, <1>4, NoTaskAssumption DEF Leaves
<1>5. ASSUME NEW t \in Task, Claim(t) PROVE Mine(s)'
  BY <1>1, <1>5, NoTaskAssumption DEF Claim
<1>6. CASE (\E t \in Task : ClaimUnleased(t)) \/ LeaseLapses
  BY <1>6 DEF ClaimUnleased, LeaseLapses
<1>7. CASE LeaseExpires
  BY <1>1, <1>7 DEF LeaseExpires, local
<1>8. CASE UNCHANGED vars
  BY <1>1, <1>8 DEF vars, redis, local
<1> QED
  BY <1>2, <1>3, <1>4, <1>5, <1>6, <1>7, <1>8, OutsideIsQuiet, ProgressMoves,
     TroubleMoves, DeliverMoves, CallMoves, EndingLeaves
  DEF Next, Progress, Trouble

\* The inductive form of OwnerSeesProcessing: it covers the handler too.
RowSays ==
  "breach" \notin mishaps /\ spent["db"] = 0 /\ status # "absent" =>
    \A t \in Task : pc[t] \in Writing => status = "processing"

LEMMA RowSaysNext ==
  /\ TypeOK /\ NothingYet /\ OwnersHold /\ HandlersHold /\ RowSays
  /\ [Next]_vars
  => RowSays'
<1> SUFFICES ASSUME TypeOK, NothingYet, OwnersHold, HandlersHold, RowSays,
                    [Next]_vars, "breach" \notin mishaps', spent'["db"] = 0,
                    status' # "absent", NEW s \in Task, pc'[s] \in Writing
             PROVE  status' = "processing"
  BY DEF RowSays, Writing, Working, Owning
<1>1. "breach" \notin mishaps /\ spent["db"] = 0
  BY MishapsStay, DbSpentGrows
<1>2. CASE Bystands
  BY <1>1, <1>2 DEF Bystands, RowSays
<1>3. CASE UploadCreate
  BY <1>3 DEF UploadCreate, NothingYet, Writing, Working, Owning
<1>4. ASSUME NEW t \in Task, Writes(t) PROVE status' = "processing"
  <2>1. CASE s = t
    BY <1>4, <2>1, WriterMoves
  <2>2. CASE s # t
    <3>1. Mine(t)
      BY <1>1, <1>4, WriterMoves DEF OwnersHold, HandlersHold
    <3>2. pc[s] \in Owning \cup {"handler"}
      BY <1>4, <2>2, WriterMoves DEF Moves, Writing, Working
    <3> QED
      BY <1>1, <2>2, <3>1, <3>2 DEF OwnersHold, HandlersHold, Mine
  <2> QED
    BY <2>1, <2>2
<1> QED
  BY <1>2, <1>3, <1>4, BystandersBystand

LEMMA RowAlwaysSays == Spec => [](RowSays /\ NothingYet)
<1>1. Init => NothingYet /\ OwnersHold /\ HandlersHold /\ RowSays
  BY DEF Init, NothingYet, OwnersHold, HandlersHold, RowSays, Writing,
     Working, Owning
<1> QED
  BY <1>1, NothingYetNext, OwnersHoldNext, HandlersHoldNext, RowSaysNext,
     TypeCorrect, PTL DEF Spec

\* While a task that counted its attempt is in the pipeline its row says
\* processing, as long as no live task lost its key and no transaction failed:
\* neither a refused delivery nor an earlier owner writes under it.
THEOREM RowFollowsOwner == Spec => []OwnerSeesProcessing
<1>1. RowSays => OwnerSeesProcessing
  BY DEF RowSays, OwnerSeesProcessing, Writing
<1> QED
  BY <1>1, RowAlwaysSays, PTL

-----------------------------------------------------------------------------
(***************************************************************************)
(* The documents row behaves as DocumentLifecycle (ImplementsLifecycle).   *)
(* Four steps write a status over an existing row; each is a step of the   *)
(* life cycle because of what IngestionStatus knows of its writer.  The    *)
(* upload and its withdrawal are, because nothing runs before the message  *)
(* is enqueued (NotEnqueued); all other steps leave the row or delete it.  *)
(***************************************************************************)

NotEnqueued ==
  upc \in {"created", "stored"} =>
    /\ status \in {"absent", "pending"} /\ attempts = 0
    /\ \A k \in 0 .. MaxRetries : queue[k] = 0
    /\ \A t \in Task : pc[t] = "idle"
    /\ \A r \in Reader : rpc[r] = "idle"

LEMMA NotEnqueuedNext ==
  TypeOK /\ NothingYet /\ NotEnqueued /\ [Next]_vars => NotEnqueued'
<1> SUFFICES ASSUME TypeOK, NothingYet, NotEnqueued, [Next]_vars,
                    upc' \in {"created", "stored"}
             PROVE  NotEnqueued'
  BY DEF NotEnqueued
<1>1. CASE UploadCreate
  BY <1>1 DEF UploadCreate, NothingYet, NotEnqueued
<1>2. CASE Upload /\ ~UploadCreate
  BY <1>2 DEF Upload, UploadStore, UploadStoreFails, UploadEnqueue,
     UploadLost, NotEnqueued, row
<1>3. CASE ~Upload
  <2> USE DEF NotEnqueued
  <2>1. upc \in {"created", "stored"}
    BY <1>3, UploadAlone
  <2>2. ASSUME NEW t \in Task,
               Deliver(t) \/ Progress(t) \/ (Trouble(t) /\ ~Thaw(t))
        PROVE  FALSE
    <3>1. pc[t] = "idle" /\ \A k \in 0 .. MaxRetries : ~(queue[k] > 0)
      BY <2>1
    <3>2. ~Deliver(t)
      BY <3>1 DEF Deliver
    <3>3. ~Progress(t)
      BY <3>1 DEF Progress, Fetch, Claim, Unmark, Count, Resume, Parse,
         ParseNoPdf, Save, FinishEmpty, Persist, StartPurge, StartIndex,
         IndexDone, Finalize, SetFailed, Release, Retry, StandDown, At, Owning
    <3>4. ~(Trouble(t) /\ ~Thaw(t))
      BY <3>1 DEF Trouble, ClaimUnleased, SaveFails, StageFails,
         StageRaisesLookup, DbFails, HandlerCancelled, Crash, HardLimit,
         SoftLimitCaught, SoftLimitEscapes, At, Owning, Working
    <3> QED
      BY <2>2, <3>2, <3>3, <3>4
  <2>3. ASSUME NEW t \in Task, Thaw(t) PROVE NotEnqueued'
    BY <2>1, <2>3 DEF Thaw, row, api
  <2>4. ASSUME NEW r \in Reader, Read(r) PROVE FALSE
    BY <2>1, <2>4 DEF Read, ReadRow, CheckLease, Mark, ReapEnqueue
  <2>5. ASSUME NEW c \in threads, CallLands(c) \/ CallFails(c)
        PROVE  NotEnqueued'
    <3>1. ~Awaited(c)
      BY <2>1 DEF Awaited, TypeOK, StoreType, Call
    <3> QED
      BY <2>1, <2>5, <3>1 DEF CallLands, CallFails, row, api
  <2>6. CASE LeaseExpires \/ LeaseLapses \/ MarkerExpires
    BY <2>1, <2>6 DEF LeaseExpires, LeaseLapses, MarkerExpires, row, api
  <2>7. CASE Purge
    BY <2>1, <2>7 DEF Purge, PurgeStart, PurgeObjects, PurgeRows, PurgeCrash,
       PurgeIndex, PurgeIndexFails, row
  <2>8. CASE UNCHANGED vars
    BY <2>1, <2>8 DEF vars, row, api
  <2> QED
    BY <1>3, <2>2, <2>3, <2>4, <2>5, <2>6, <2>7, <2>8 DEF Next
<1> QED
  BY <1>1, <1>2, <1>3

\* Where every other step leaves the row: as it was, or deleted.
LEMMA OthersLeaveRow ==
  ASSUME TypeOK, [Next]_vars, ~UploadCreate, ~UploadStoreFails,
         \A t \in Task : ~Writes(t)
  PROVE  \/ UNCHANGED <<status, attempts>>
         \/ status' = "absent" /\ attempts' = 0
<1>1. CASE Upload \/ Purge
  BY <1>1 DEF Upload, UploadStore, UploadEnqueue, UploadLost, Purge,
     PurgeStart, PurgeObjects, PurgeRows, PurgeCrash, PurgeIndex,
     PurgeIndexFails, row
<1>2. ASSUME NEW t \in Task, Deliver(t) \/ Progress(t)
      PROVE  UNCHANGED <<status, attempts>>
  BY <1>2 DEF Writes, Progress, Deliver, Fetch, Claim, Unmark, Resume, Parse,
     ParseNoPdf, Save, Persist, StartPurge, StartIndex, IndexDone, Release,
     Retry, StandDown, row
<1>3. ASSUME NEW t \in Task, Trouble(t) PROVE UNCHANGED <<status, attempts>>
  BY <1>3 DEF Trouble, ClaimUnleased, SaveFails, StageFails,
     StageRaisesLookup, DbFails, HandlerCancelled, Crash, HardLimit,
     SoftLimitCaught, SoftLimitEscapes, Thaw, row
<1>4. ASSUME NEW c \in threads, CallLands(c) \/ CallFails(c)
      PROVE  UNCHANGED <<status, attempts>>
  BY <1>4 DEF CallLands, CallFails, row
<1>5. ASSUME NEW r \in Reader, Read(r) PROVE UNCHANGED <<status, attempts>>
  BY <1>5 DEF Read, ReadRow, CheckLease, Mark, ReapEnqueue, row
<1>6. CASE LeaseExpires \/ LeaseLapses \/ MarkerExpires
  BY <1>6 DEF LeaseExpires, LeaseLapses, MarkerExpires, row
<1>7. CASE UNCHANGED vars
  BY <1>7 DEF vars, row
<1> QED
  BY <1>1, <1>2, <1>3, <1>4, <1>5, <1>6, <1>7 DEF Next

Kept == "breach" \notin mishaps /\ spent["db"] = 0

\* Each step of the pipeline, its faults and its readers is one of the row's
\* life cycle, or leaves the row alone.
LEMMA StepRefines ==
  ASSUME TypeOK, NothingYet, NotEnqueued, RowSays, [Next]_vars
  PROVE  Lifecycle!Next
<1> USE DEF Lifecycle!Next
<1>1. Kept' => Kept
  BY MishapsStay, DbSpentGrows DEF Kept
<1>2. CASE UploadCreate
  <2>1. Lifecycle!Create
    BY <1>2 DEF UploadCreate, NothingYet, Lifecycle!Create
  <2> QED
    BY <1>1, <2>1 DEF Kept
<1>3. CASE UploadStoreFails
  <2>1. Lifecycle!Withdraw \/ Lifecycle!Stay
    BY <1>3 DEF UploadStoreFails, NotEnqueued, Lifecycle!Withdraw,
       Lifecycle!Stay
  <2> QED
    BY <1>1, <2>1 DEF Kept
<1>4. ASSUME NEW t \in Task, Count(t) PROVE Lifecycle!Next
  <2>1. Lifecycle!Claim \/ Lifecycle!Exhaust \/ Lifecycle!Stay
    BY <1>4 DEF Count, Lifecycle!Claim, Lifecycle!Exhaust, Lifecycle!Stay
  <2> QED
    BY <1>1, <2>1 DEF Kept
<1>5. ASSUME NEW t \in Task, FinishEmpty(t) \/ Finalize(t) \/ SetFailed(t)
      PROVE  Lifecycle!Next
  <2>1. \/ UNCHANGED <<status, attempts>>
        \/ /\ status # "absent" /\ status' \in {"ready", "failed"}
           /\ attempts' = attempts
    BY <1>5 DEF FinishEmpty, Finalize, SetFailed, SetStatus
  <2>2. pc[t] \in Writing
    BY <1>5 DEF FinishEmpty, Finalize, SetFailed, At, Writing, Working, Owning
  <2>3. status = "absent" \/ status = "processing" \/ ~Kept'
    BY <1>1, <2>2 DEF RowSays, Kept
  <2>4. Lifecycle!Settle \/ Lifecycle!Stay
    BY <2>1, <2>3 DEF Lifecycle!Settle, Lifecycle!Stay, Kept
  <2> QED
    BY <1>1, <2>4 DEF Kept
<1>6. CASE /\ ~UploadCreate /\ ~UploadStoreFails
           /\ \A t \in Task : ~Writes(t)
  <2>1. Lifecycle!Stay \/ Lifecycle!Delete
    BY <1>6, OthersLeaveRow DEF Lifecycle!Stay, Lifecycle!Delete
  <2> QED
    BY <1>1, <2>1 DEF Kept
<1> QED
  BY <1>2, <1>3, <1>4, <1>5, <1>6 DEF Writes

\* The pipeline, with all its deliveries, faults, reaps and deletes,
\* implements the life cycle of a document row: attempts are capped, and while
\* leases are kept and transactions succeed a terminal status is only written
\* over processing.
THEOREM Implements == Spec => ImplementsLifecycle
<1>1. Init => Lifecycle!Init /\ NotEnqueued
  BY DEF Init, Lifecycle!Init, NotEnqueued, Kind
<1>2. TypeOK /\ NothingYet /\ NotEnqueued /\ RowSays /\ [Next]_vars
        => [Lifecycle!Next]_<<status, attempts,
                              "breach" \notin mishaps /\ spent["db"] = 0>>
  BY StepRefines
<1> QED
  BY <1>1, <1>2, NotEnqueuedNext, RowAlwaysSays, TypeCorrect, PTL
  DEF Spec, ImplementsLifecycle, Lifecycle!Spec
-----------------------------------------------------------------------------
(***************************************************************************)
(* What the two indexes hold: exactly the answerable chunks of a ready     *)
(* document (ReadyIsSearchable), nothing of a deleted one                  *)
(* (DeletedLeavesNothing).                                                 *)
(*                                                                         *)
(* Three invariants carry the argument.  CallsFit: the index calls of a    *)
(* task are those it awaits, or it has stopped waiting.  Indexed: what a   *)
(* task has done to the indexes so far can be read off its stage; a first  *)
(* attempt may skip the purge, because before it there is nothing to       *)
(* purge.  Deleted: from the first call of an undisturbed delete, nobody   *)
(* works on the document, and nothing comes back once its row is gone.     *)
(***************************************************************************)

Past == {"handler", "release", "retry", "idle"}
Early == {"fetch", "claim", "unmark", "count"}
Reading == {"parse", "save", "chunk"}
Writers == {"embed", "purge", "index", "finalize"}

LEMMA Stages ==
  /\ Stage = Past \cup Early \cup Reading \cup Writers
  /\ Working = Reading \cup Writers /\ Owning = {"unmark", "count"} \cup Working
BY DEF Stage, Past, Early, Reading, Writers, Working, Owning

Empty == \A x \in Index : index[x] = {}
Deletion(t, x) == [task |-> t, op |-> "delete", on |-> x]
Upsert(t, x) == [task |-> t, op |-> "upsert", on |-> x]

\* Nothing is stored in the indexes before a task is enqueued.
Unborn ==
  /\ upc # "done" => chunks = NoTask /\ Empty /\ threads = {}
  /\ upc = "new" => dpc = "idle" /\ pending = {}

CallsFit == \A c \in threads : Awaited(c) \/ pc[c.task] \in Past
AttemptKnown == \A t \in Task : pc[t] \in Working => attempt[t] # 0
BlankIsEmpty ==
  blank => Empty /\ threads = {} /\ \A t \in Task : pc[t] \notin Writers
Fit == CallsFit /\ AttemptKnown /\ BlankIsEmpty

\* What a task has done to the indexes by the time it is in a stage.
Done(t) ==
  /\ attempt[t] = 1 /\ pc[t] \in Reading \cup {"embed", "purge"} =>
       threads = {} /\ Empty
  /\ pc[t] \in Writers => chunks = t
  /\ pc[t] = "purge" =>
       \A x \in Index : index[x] = {} \/ Deletion(t, x) \in threads
  /\ pc[t] = "index" =>
       \A x \in Index : index[x] = IF Upsert(t, x) \in threads THEN {} ELSE {t}
  /\ pc[t] = "finalize" => \A x \in Index : index[x] = {t}

\* The document is there, and no call landed late nor delete failed.
Stands ==
  mishaps \subseteq {"overlap"} /\ dpc = "idle" /\ status # "absent"

Indexed ==
  Stands =>
    /\ pending = {}
    /\ attempts = 0 => threads = {} /\ Empty
    /\ status = "ready" => /\ \A t \in Task : pc[t] \notin Working
                           /\ ~blank => \A x \in Index : index[x] = {chunks}
    /\ \A t \in Task : Done(t)

Deleted ==
  mishaps = {} =>
    /\ dpc \in {"idle", "rows"} => pending = {}
    /\ dpc # "idle" => /\ threads = {} /\ \A t \in Task : pc[t] \notin Owning
                       /\ \A x \in Index \ pending : index[x] = {}
    /\ status = "absent" => /\ chunks = NoTask /\ Empty /\ threads = {}
                            /\ \A t \in Task : pc[t] \notin Working
-----------------------------------------------------------------------------
(* Steps that leave the indexes alone.                                     *)

\* A task stays where its calls are, or has none, or stops waiting for them.
Stays(s) ==
  \/ pc'[s] \in Past
  \/ pc'[s] \in Early /\ CallsOf(s) = {}
  \/ /\ pc'[s] \in Working /\ attempt'[s] = attempt[s]
     /\ \A c \in CallsOf(s) : c \in threads'
     /\ pc'[s] = pc[s] \/ {pc[s], pc'[s]} \subseteq Reading

Steady ==
  /\ UNCHANGED <<chunks, index, attempts, blank, dpc, pending>>
  /\ threads' \subseteq threads /\ mishaps \subseteq mishaps'
  /\ status' = "ready" => status = "ready"
  /\ status' = "absent" <=> status = "absent"
  /\ \A s \in Task : Stays(s)
  /\ mishaps' = {} /\ dpc # "idle" =>
       \A s \in Task : pc'[s] \in Owning => pc[s] \in Owning

\* The steps that do not.
Indexing(t) ==
  \/ Count(t) \/ FinishEmpty(t) \/ Persist(t) \/ StartPurge(t)
  \/ StartIndex(t) \/ IndexDone(t) \/ Finalize(t)

\* A step of t alone.
LEMMA OnlyMoves ==
  ASSUME TypeOK, CallsFit, NEW t \in Task, NEW stage, GoTo(t, stage),
         \A s \in Task \ {t} : attempt'[s] = attempt[s],
         \A c \in threads : c.task # t => c \in threads',
         Stays(t)
  PROVE  \A s \in Task : Stays(s)
<1> SUFFICES ASSUME NEW s \in Task, s # t PROVE Stays(s)
  OBVIOUS
<1>1. pc'[s] = pc[s] /\ pc[s] \in Stage /\ attempt'[s] = attempt[s]
  BY DEF GoTo, TypeOK, TaskType
<1>2. pc[s] \in Early \cup Reading => CallsOf(s) = {}
  BY DEF CallsFit, Awaited, CallsOf, Early, Reading, Past
<1>3. \A c \in CallsOf(s) : c \in threads'
  BY DEF CallsOf
<1> QED
  BY <1>1, <1>2, <1>3, Stages DEF Stays

LEMMA NoCallsBefore ==
  ASSUME CallsFit, NEW t, pc[t] \in Early \cup Reading \cup {"embed"}
  PROVE  CallsOf(t) = {}
BY DEF CallsFit, Awaited, CallsOf, Early, Reading, Past

LEMMA ProgressSteady ==
  ASSUME TypeOK, CallsFit, NEW t \in Task, Progress(t), ~Indexing(t)
  PROVE  Steady
<1> USE DEF At, Past, Early, Reading, Stays
<1>1. CASE Fetch(t)
  <2>1. pc'[t] \in {"retry", "release", "claim"} /\ GoTo(t, pc'[t])
    BY <1>1 DEF Fetch, GoTo, TypeOK, TaskType
  <2>2. Stays(t)
    BY <1>1, <2>1, NoCallsBefore DEF Fetch
  <2> QED
    BY <1>1, <2>1, <2>2, OnlyMoves
    DEF Fetch, Steady, row, stores, api, history, GoTo, Owning, TypeOK, TaskType
<1>2. CASE Claim(t)
  <2>1. pc'[t] \in {"release", "unmark"} /\ GoTo(t, pc'[t])
    BY <1>2 DEF Claim, GoTo, TypeOK, TaskType
  <2>2. Stays(t)
    BY <1>2, <2>1, NoCallsBefore DEF Claim
  <2>3. mishaps' = {} /\ dpc # "idle" => pc'[t] = "release"
    BY <1>2 DEF Claim, NoteOverlap, GoTo, TypeOK, TaskType
  <2>4. mishaps \subseteq mishaps'
    BY <1>2 DEF Claim, NoteOverlap
  <2> QED
    BY <1>2, <2>1, <2>2, <2>3, <2>4, OnlyMoves
    DEF Claim, Steady, row, stores, api, GoTo, Owning, TypeOK, TaskType
<1>3. CASE Unmark(t)
  <2>1. pc'[t] = "count" /\ GoTo(t, pc'[t]) /\ pc[t] = "unmark"
    BY <1>3 DEF Unmark, GoTo, TypeOK, TaskType
  <2>2. Stays(t)
    BY <2>1, NoCallsBefore
  <2> QED
    BY <1>3, <2>1, <2>2, OnlyMoves
    DEF Unmark, Steady, row, stores, local, api, GoTo, Owning, TypeOK, TaskType
<1>4. CASE Resume(t) \/ Parse(t) \/ ParseNoPdf(t) \/ Save(t)
  <2>1. /\ pc'[t] \in {"chunk", "save", "handler"} /\ GoTo(t, pc'[t])
        /\ pc[t] \in Reading
    BY <1>4 DEF Resume, Parse, ParseNoPdf, Save, GoTo, TypeOK, TaskType
  <2>2. /\ UNCHANGED <<chunks, index, attempts, blank, dpc, pending, threads,
                       mishaps, status, attempt>>
    BY <1>4 DEF Resume, Parse, ParseNoPdf, Save, row, stores, local, api,
       history
  <2>3. Stays(t)
    BY <2>1, <2>2, NoCallsBefore, Stages
  <2> QED
    BY <2>1, <2>2, <2>3, OnlyMoves
    DEF Steady, GoTo, Owning, TypeOK, TaskType
<1>5. CASE SetFailed(t) \/ Release(t) \/ Retry(t) \/ StandDown(t)
  <2>1. pc'[t] \in {"release", "idle"} /\ GoTo(t, pc'[t])
    BY <1>5 DEF SetFailed, Release, Retry, StandDown, End, GoTo, TypeOK,
       TaskType
  <2>2. /\ UNCHANGED <<chunks, index, attempts, blank, dpc, pending, threads,
                       mishaps>>
        /\ \A s \in Task \ {t} : attempt'[s] = attempt[s]
    BY <1>5 DEF SetFailed, Release, Retry, StandDown, End, row, stores, local,
       api, history, TypeOK, TaskType
  <2>3. /\ status' = "ready" => status = "ready"
        /\ status' = "absent" <=> status = "absent"
    BY <1>5 DEF SetFailed, SetStatus, Release, Retry, StandDown, row
  <2> QED
    BY <2>1, <2>2, <2>3, OnlyMoves DEF Steady, GoTo, Owning, TypeOK, TaskType
<1> QED
  BY <1>1, <1>2, <1>3, <1>4, <1>5 DEF Progress, Indexing

LEMMA TroubleSteady ==
  ASSUME TypeOK, CallsFit, NEW t \in Task, Trouble(t)
  PROVE  Steady
<1> USE DEF At, Past, Early, Reading, Stays
<1>1. CASE ClaimUnleased(t)
  <2>1. pc'[t] = "unmark" /\ GoTo(t, pc'[t])
    BY <1>1 DEF ClaimUnleased, GoTo, TypeOK, TaskType
  <2>2. Stays(t)
    BY <1>1, <2>1, NoCallsBefore DEF ClaimUnleased
  <2> QED
    BY <1>1, <2>1, <2>2, OnlyMoves
    DEF ClaimUnleased, Steady, row, stores, local, api
<1>2. CASE SaveFails(t) \/ StageFails(t) \/ StageRaisesLookup(t) \/ DbFails(t)
             \/ SoftLimitCaught(t)
  <2>1. pc'[t] \in {"handler", "retry"} /\ GoTo(t, pc'[t])
    BY <1>2 DEF SaveFails, StageFails, StageRaisesLookup, DbFails,
       SoftLimitCaught, GoTo, TypeOK, TaskType
  <2>2. UNCHANGED <<chunks, index, attempts, blank, dpc, pending, threads,
                    mishaps, status, attempt>>
    BY <1>2 DEF SaveFails, StageFails, StageRaisesLookup, DbFails,
       SoftLimitCaught, row, stores, local, api
  <2> QED
    BY <2>1, <2>2, OnlyMoves DEF Steady, GoTo, Owning, TypeOK, TaskType
<1>3. CASE HandlerCancelled(t) \/ Crash(t) \/ HardLimit(t)
  <2>1. pc'[t] = "idle" /\ GoTo(t, pc'[t])
    BY <1>3 DEF HandlerCancelled, Crash, HardLimit, End, GoTo, TypeOK, TaskType
  <2>2. /\ UNCHANGED <<chunks, index, attempts, blank, dpc, pending, mishaps,
                       status>>
        /\ threads' \subseteq threads
        /\ \A c \in threads : c.task # t => c \in threads'
        /\ \A s \in Task \ {t} : attempt'[s] = attempt[s]
    BY <1>3 DEF HandlerCancelled, Crash, HardLimit, End, row, stores, api,
       history, CallsOf, TypeOK, TaskType
  <2> QED
    BY <2>1, <2>2, OnlyMoves DEF Steady, GoTo, Owning, TypeOK, TaskType
<1>4. CASE SoftLimitEscapes(t) \/ Thaw(t)
  <2>1. UNCHANGED <<chunks, index, attempts, blank, dpc, pending, threads,
                    mishaps, status, attempt, pc>>
    BY <1>4 DEF SoftLimitEscapes, Thaw, row, stores, api, history
  <2>2. \A s \in Task : pc[s] \in Stage
    BY DEF TypeOK, TaskType
  <2>3. \A s \in Task : Stays(s)
    BY <2>1, <2>2, NoCallsBefore, Stages DEF CallsOf
  <2> QED
    BY <2>1, <2>3 DEF Steady
<1> QED
  BY <1>1, <1>2, <1>3, <1>4 DEF Trouble

LEMMA OtherSteady ==
  ASSUME TypeOK, CallsFit, [Next]_vars, ~Purge, ~UploadCreate,
         ~UploadStoreFails, \A t \in Task : ~Indexing(t),
         \A c \in threads : ~CallLands(c) /\ ~CallFails(c)
  PROVE  Steady
<1>1. ASSUME UNCHANGED <<chunks, index, attempts, blank, dpc, pending, threads,
                         status, attempt, pc>>, mishaps \subseteq mishaps'
      PROVE  Steady
  <2>1. \A s \in Task : pc[s] \in Stage
    BY DEF TypeOK, TaskType
  <2>2. \A s \in Task : Stays(s)
    BY <1>1, <2>1, NoCallsBefore, Stages DEF CallsOf, Stays
  <2> QED
    BY <1>1, <2>2 DEF Steady
<1>2. CASE Upload
  BY <1>1, <1>2 DEF Upload, UploadStore, UploadEnqueue, UploadLost, row,
     stores, local, history
<1>3. CASE LeaseExpires \/ LeaseLapses \/ MarkerExpires
  BY <1>1, <1>3 DEF LeaseExpires, LeaseLapses, MarkerExpires, row, stores,
     local, api, history
<1>4. ASSUME NEW r \in Reader, Read(r) PROVE Steady
  BY <1>1, <1>4 DEF Read, ReadRow, CheckLease, Mark, ReapEnqueue, row, stores,
     local, history
<1>5. CASE UNCHANGED vars
  BY <1>1, <1>5 DEF vars, row, stores, local, api, history
<1>6. ASSUME NEW t \in Task, Deliver(t) PROVE Steady
  <2>1. pc'[t] = "fetch" /\ GoTo(t, pc'[t]) /\ CallsOf(t) = {}
    BY <1>6 DEF Deliver, Fresh, GoTo, TypeOK, TaskType
  <2>2. Stays(t)
    BY <2>1 DEF Stays, Early
  <2> QED
    BY <1>6, <2>1, <2>2, OnlyMoves
    DEF Deliver, Steady, row, stores, api, history, GoTo, Owning, TypeOK,
        TaskType
<1> QED
  BY <1>2, <1>3, <1>4, <1>5, <1>6, ProgressSteady, TroubleSteady DEF Next

-----------------------------------------------------------------------------
(* The indexes and the tasks.                                              *)

\* Whoever takes an indexing step moves alone.
LEMMA IndexingMoves ==
  ASSUME TypeOK, NEW t \in Task, Indexing(t)
  PROVE  /\ \A s \in Task \ {t} : pc'[s] = pc[s] /\ attempt'[s] = attempt[s]
         /\ UNCHANGED <<index, blank, dpc, pending, mishaps>>
         /\ pc[t] \in Owning
BY DEF Indexing, Count, FinishEmpty, Persist, StartPurge, StartIndex,
       IndexDone, Finalize, At, GoTo, Owning, TypeOK, TaskType, row, stores,
       local, api, history

LEMMA CallsFitNext ==
  TypeOK /\ NothingYet /\ Unborn /\ CallsFit /\ [Next]_vars => CallsFit'
<1> SUFFICES ASSUME TypeOK, NothingYet, Unborn, CallsFit, [Next]_vars
             PROVE  CallsFit'
  OBVIOUS
<1>0. \A c \in threads : c \in Call /\ c.task \in Task /\ c \in CallsOf(c.task)
  BY DEF TypeOK, StoreType, Call, CallsOf
<1>1. CASE Steady
  <2> SUFFICES ASSUME NEW c \in threads' PROVE (Awaited(c) \/ pc[c.task] \in Past)'
    BY DEF CallsFit
  <2>1. c \in threads /\ Stays(c.task) /\ c \in CallsOf(c.task)
    BY <1>0, <1>1 DEF Steady
  <2>2. pc'[c.task] \in Past \/ pc'[c.task] = pc[c.task]
    BY <2>1, NoCallsBefore DEF Stays
  <2> QED
    BY <2>1, <2>2 DEF CallsFit, Awaited
<1>2. CASE UploadCreate
  BY <1>2 DEF UploadCreate, Unborn, CallsFit
<1>3. CASE UploadStoreFails \/ Purge
  <2>1. UNCHANGED <<threads, pc>>
    BY <1>3 DEF UploadStoreFails, Purge, PurgeStart, PurgeObjects, PurgeRows,
       PurgeCrash, PurgeIndex, PurgeIndexFails
  <2> QED
    BY <2>1 DEF CallsFit, Awaited
<1>4. ASSUME NEW t \in Task, Indexing(t) PROVE CallsFit'
  <2> SUFFICES ASSUME NEW c \in threads' PROVE (Awaited(c) \/ pc[c.task] \in Past)'
    BY DEF CallsFit
  <2>1. CASE c.task # t
    <3>1. c \in threads
      BY <1>4, <2>1 DEF Indexing, Count, FinishEmpty, Persist, StartPurge,
         StartIndex, IndexDone, Finalize, Calls
    <3> QED
      BY <1>0, <1>4, <2>1, <3>1, IndexingMoves DEF CallsFit, Awaited
  <2>2. CASE c.task = t
    <3>1. CASE StartPurge(t)
      <4>1. c \in Calls(t, "delete")
        BY <2>2, <3>1, NoCallsBefore DEF StartPurge, At, CallsOf
      <4>2. c.op = "delete" /\ pc'[t] = "purge"
        BY <3>1, <4>1 DEF Calls, StartPurge, GoTo, TypeOK, TaskType
      <4> QED
        BY <2>2, <4>2 DEF Awaited
    <3>2. CASE StartIndex(t)
      <4>1. c \in Calls(t, "upsert")
        BY <2>2, <3>2 DEF StartIndex, CallsOf
      <4>2. c.op = "upsert" /\ pc'[t] = "index"
        BY <3>2, <4>1 DEF Calls, StartIndex, GoTo, TypeOK, TaskType
      <4> QED
        BY <2>2, <4>2 DEF Awaited
    <3>3. CASE IndexDone(t) \/ Count(t) \/ Persist(t)
      BY <2>2, <3>3, NoCallsBefore DEF IndexDone, Count, Persist, At, CallsOf,
         Early, Reading
    <3>4. CASE FinishEmpty(t) \/ Finalize(t)
      BY <2>2, <3>4 DEF FinishEmpty, Finalize, GoTo, Past, TypeOK, TaskType
    <3> QED
      BY <1>4, <3>1, <3>2, <3>3, <3>4 DEF Indexing
  <2> QED
    BY <2>1, <2>2
<1>5. ASSUME NEW c \in threads, CallLands(c) \/ CallFails(c) PROVE CallsFit'
  <2>1. /\ threads' \subseteq threads
        /\ \A s \in Task : pc'[s] \in {pc[s], "handler"}
    BY <1>5 DEF CallLands, CallFails, GoTo, TypeOK, TaskType
  <2> QED
    BY <1>0, <2>1 DEF CallsFit, Awaited, Past
<1> QED
  BY <1>1, <1>2, <1>3, <1>4, <1>5, OtherSteady

LEMMA AttemptKnownNext ==
  TypeOK /\ NothingYet /\ CallsFit /\ AttemptKnown /\ [Next]_vars => AttemptKnown'
<1> SUFFICES ASSUME TypeOK, NothingYet, CallsFit, AttemptKnown, [Next]_vars
             PROVE  AttemptKnown'
  OBVIOUS
<1> USE DEF AttemptKnown
<1>1. CASE Steady
  BY <1>1, Stages DEF Steady, Stays, Past, Early, Reading, Writers
<1>2. CASE UploadCreate \/ UploadStoreFails \/ Purge
  BY <1>2 DEF UploadCreate, UploadStoreFails, Purge, PurgeStart, PurgeObjects,
     PurgeRows, PurgeCrash, PurgeIndex, PurgeIndexFails, local
<1>3. ASSUME NEW t \in Task, Indexing(t) PROVE AttemptKnown'
  <2>1. CASE Count(t)
    BY <1>3, <2>1, IndexingMoves DEF Count, At, GoTo, Working, Owning, TypeOK,
       TaskType, RowType
  <2>2. CASE ~Count(t)
    BY <1>3, <2>2 DEF Indexing, FinishEmpty, Persist, StartPurge, StartIndex,
       IndexDone, Finalize, At, GoTo, Working, Owning, TypeOK, TaskType, local
  <2> QED
    BY <2>1, <2>2
<1>4. ASSUME NEW c \in threads, CallLands(c) \/ CallFails(c)
      PROVE  AttemptKnown'
  BY <1>4 DEF CallLands, CallFails, GoTo, TypeOK, TaskType, local, Working,
     Owning
<1> QED
  BY <1>1, <1>2, <1>3, <1>4, OtherSteady

LEMMA BlankIsEmptyNext ==
  /\ TypeOK /\ NothingYet /\ Unborn /\ CallsFit /\ BlankIsEmpty /\ [Next]_vars
  => BlankIsEmpty'
<1> SUFFICES ASSUME TypeOK, NothingYet, Unborn, CallsFit, BlankIsEmpty,
                    [Next]_vars, blank'
             PROVE  BlankIsEmpty'
  BY DEF BlankIsEmpty
<1> USE DEF BlankIsEmpty, Empty
<1>1. CASE Steady
  <2>1. \A s \in Task : pc'[s] \notin Writers
    BY <1>1, Stages DEF Steady, Stays, Past, Early, Reading, Writers
  <2> QED
    BY <1>1, <2>1 DEF Steady
<1>2. CASE UploadCreate
  BY <1>2 DEF UploadCreate, NothingYet, Unborn, Writers, stores
<1>3. CASE UploadStoreFails \/ Purge
  <2>1. UNCHANGED <<threads, pc, blank>>
    BY <1>3 DEF UploadStoreFails, Purge, PurgeStart, PurgeObjects, PurgeRows,
       PurgeCrash, PurgeIndex, PurgeIndexFails, row
  <2>2. index' = index \/ \E x \in Index : index' = [index EXCEPT ![x] = {}]
    BY <1>3 DEF UploadStoreFails, Purge, PurgeStart, PurgeObjects, PurgeRows,
       PurgeCrash, PurgeIndex, PurgeIndexFails, stores
  <2> QED
    BY <2>1, <2>2 DEF TypeOK, StoreType
<1>4. ASSUME NEW t \in Task, Indexing(t) PROVE BlankIsEmpty'
  <2>1. blank /\ UNCHANGED index /\ pc[t] \notin Writers
    BY <1>4, IndexingMoves
  <2>2. Count(t) \/ FinishEmpty(t)
    BY <1>4, <2>1 DEF Indexing, Persist, StartPurge, StartIndex, IndexDone,
       Finalize, At, Writers
  <2>3. threads' = threads /\ pc'[t] \in {"handler", "parse", "release"}
    BY <2>2 DEF Count, FinishEmpty, GoTo, TypeOK, TaskType
  <2> QED
    BY <1>4, <2>1, <2>3, IndexingMoves DEF Writers
<1>5. ASSUME NEW c \in threads, CallLands(c) \/ CallFails(c) PROVE FALSE
  BY <1>5 DEF CallLands, CallFails, row
<1> QED
  BY <1>1, <1>2, <1>3, <1>4, <1>5, OtherSteady

LEMMA UnbornNext ==
  /\ TypeOK /\ NothingYet /\ NotEnqueued /\ Unborn /\ CallsFit /\ [Next]_vars
  => Unborn'
<1> SUFFICES ASSUME TypeOK, NothingYet, NotEnqueued, Unborn, CallsFit,
                    [Next]_vars, upc' # "done"
             PROVE  Unborn'
  BY DEF Unborn
<1>1. upc # "done" /\ (upc' = "new" => upc = "new")
  BY UploadAlone DEF Upload, UploadCreate, UploadStore, UploadStoreFails,
     UploadEnqueue, UploadLost
<1>2. /\ chunks = NoTask /\ Empty /\ threads = {}
      /\ \A t \in Task : pc[t] = "idle"
      /\ upc' = "new" => status = "absent" /\ dpc = "idle" /\ pending = {}
  BY <1>1 DEF Unborn, NothingYet, NotEnqueued, TypeOK, ApiType
<1> USE DEF Unborn, Empty
<1>3. CASE Steady
  BY <1>2, <1>3 DEF Steady
<1>4. CASE UploadCreate \/ UploadStoreFails
  BY <1>2, <1>4 DEF UploadCreate, UploadStoreFails, stores
<1>5. CASE Purge
  <2>1. /\ chunks' \in {chunks, NoTask} /\ UNCHANGED threads
        /\ index' = index \/ \E x \in Index : index' = [index EXCEPT ![x] = {}]
    BY <1>5 DEF Purge, PurgeStart, PurgeObjects, PurgeRows, PurgeCrash,
       PurgeIndex, PurgeIndexFails, stores
  <2>2. Empty'
    BY <1>2, <2>1 DEF TypeOK, StoreType
  <2>3. upc' # "new"
    BY <1>2, <1>5 DEF Purge, PurgeStart, PurgeObjects, PurgeRows, PurgeCrash,
       PurgeIndex, PurgeIndexFails
  <2> QED
    BY <1>2, <2>1, <2>2, <2>3
<1>6. ASSUME NEW t \in Task, Indexing(t) PROVE FALSE
  BY <1>2, <1>6, IndexingMoves DEF Owning
<1> QED
  BY <1>2, <1>3, <1>4, <1>5, <1>6, OtherSteady

\* A step that ends outside a delete of an existing document began there, but
\* for the one that creates it.
LEMMA StandsBefore ==
  ASSUME TypeOK, CallsFit, [Next]_vars, Stands', ~UploadCreate
  PROVE  Stands /\ (pending = {} => pending' = {})
<1> USE DEF Stands
<1>1. CASE Steady
  BY <1>1 DEF Steady
<1>2. CASE UploadStoreFails
  BY <1>2 DEF UploadStoreFails
<1>3. CASE Purge
  BY <1>3 DEF Purge, PurgeStart, PurgeObjects, PurgeRows, PurgeCrash,
     PurgeIndex, PurgeIndexFails, row
<1>4. ASSUME NEW t \in Task, Indexing(t)
      PROVE  Stands /\ UNCHANGED pending
  BY <1>4, IndexingMoves DEF Indexing, Count, FinishEmpty, Persist,
     StartPurge, StartIndex, IndexDone, Finalize, SetStatus, row
<1>5. ASSUME NEW c \in threads, CallLands(c) \/ CallFails(c)
      PROVE  Stands /\ UNCHANGED pending
  BY <1>5 DEF CallLands, CallFails, NoteLate, row, api
<1> QED
  BY <1>1, <1>2, <1>3, <1>4, <1>5, OtherSteady

LEMMA SteadyIndexed ==
  ASSUME TypeOK, CallsFit, Indexed, Stands, Steady, pending' = {}
  PROVE  Indexed'
<1> USE DEF Indexed, Empty
<1>1. \A t \in Task : Done(t)'
  <2> SUFFICES ASSUME NEW t \in Task PROVE Done(t)'
    OBVIOUS
  <2>1. /\ Stays(t) /\ Done(t) /\ threads' \subseteq threads
        /\ UNCHANGED <<index, chunks>>
    BY DEF Steady
  <2>2. CASE pc'[t] \in Past \cup Early
    BY <2>2 DEF Done, Past, Early, Reading, Writers
  <2>3. CASE /\ pc'[t] \in Working /\ attempt'[t] = attempt[t]
             /\ \A c \in CallsOf(t) : c \in threads'
             /\ pc'[t] = pc[t]
    <3>1. \A x \in Index : /\ Deletion(t, x) \in threads => Deletion(t, x) \in threads'
                           /\ Upsert(t, x) \in threads <=> Upsert(t, x) \in threads'
      BY <2>1, <2>3 DEF CallsOf, Deletion, Upsert
    <3> QED
      BY <2>1, <2>3, <3>1 DEF Done
  <2>4. CASE /\ pc'[t] \in Working /\ attempt'[t] = attempt[t]
             /\ {pc[t], pc'[t]} \subseteq Reading
    BY <2>1, <2>4 DEF Done, Reading, Writers
  <2> QED
    BY <2>1, <2>2, <2>3, <2>4 DEF Stays
<1>2. \A t \in Task : pc'[t] \in Working => pc[t] \in Working
  BY Stages DEF Steady, Stays, Past, Early, Reading, Writers
<1> QED
  BY <1>1, <1>2 DEF Steady

LEMMA IndexedNext ==
  /\ TypeOK /\ NothingYet /\ Unborn /\ Fit /\ Counted /\ SoleOwner /\ Indexed
  /\ [Next]_vars
  => Indexed'
<1> SUFFICES ASSUME TypeOK, NothingYet, Unborn, Fit, Counted, SoleOwner,
                    Indexed, [Next]_vars, Stands'
             PROVE  Indexed'
  BY DEF Indexed
<1> USE DEF Empty
<1>1. CASE UploadCreate
  <2>1. /\ Empty /\ threads = {} /\ \A t \in Task : pc[t] = "idle"
        /\ UNCHANGED <<index, threads, pc>>
        /\ status' = "pending" /\ pending' = {}
    BY <1>1 DEF UploadCreate, Unborn, NothingYet, stores
  <2> QED
    BY <2>1 DEF Indexed, Done, Reading, Writers
<1>2. CASE ~UploadCreate
  <2>1. /\ Stands /\ pending = {} /\ pending' = {}
        /\ attempts = 0 => threads = {} /\ Empty
        /\ status = "ready" => /\ \A t \in Task : pc[t] \notin Working
                               /\ ~blank => \A x \in Index : index[x] = {chunks}
        /\ \A t \in Task : Done(t)
    BY <1>2, StandsBefore DEF Fit, Indexed
  <2>2. \A s, t \in Task : pc[s] \in Owning /\ pc[t] \in Owning => s = t
    BY <2>1 DEF Stands, SoleOwner
  <2>3. /\ attempts \in Nat /\ status # "absent" /\ status' # "absent"
        /\ \A t \in Task : attempt[t] \in Nat /\ attempt[t] <= attempts
    BY <2>1 DEF Stands, Counted, TypeOK, RowType, TaskType
  <2>4. CASE Steady
    BY <2>1, <2>4, SteadyIndexed DEF Fit
  <2>5. CASE UploadStoreFails \/ Purge
    BY <2>1, <2>5 DEF Stands, UploadStoreFails, Purge, PurgeStart,
       PurgeObjects, PurgeRows, PurgeCrash, PurgeIndex, PurgeIndexFails
  <2>6. ASSUME NEW t \in Task, Indexing(t) PROVE Indexed'
    <3>1. /\ \A s \in Task \ {t} : /\ pc'[s] = pc[s] /\ attempt'[s] = attempt[s]
                                   /\ pc[s] \notin Owning
          /\ UNCHANGED <<index, blank>>
      BY <2>2, <2>6, IndexingMoves
    <3>2. \A s \in Task \ {t} : Done(s)'
      BY <3>1 DEF Done, Owning, Reading, Writers
    <3>3. CASE Count(t)
      <4>1. UNCHANGED <<threads, chunks>> /\ status' # "ready" /\ attempts' # 0
        BY <2>3, <3>3, AttemptsAssumption DEF Count, stores
      <4>2. Done(t)'
        <5>1. \/ pc'[t] = "release"
              \/ pc'[t] = "parse" /\ attempt'[t] = attempts + 1
          BY <2>3, <3>3 DEF Count, GoTo, TypeOK, TaskType
        <5> QED
          BY <2>1, <2>3, <3>1, <4>1, <5>1 DEF Done, Reading, Writers
      <4> QED
        BY <2>1, <3>2, <4>1, <4>2 DEF Indexed
    <3>4. CASE FinishEmpty(t) \/ Finalize(t)
      <4>1. /\ UNCHANGED <<threads, chunks, attempts>> /\ pc'[t] = "release"
            /\ blank \/ pc[t] = "finalize"
        BY <3>4 DEF FinishEmpty, Finalize, At, GoTo, stores, TypeOK, TaskType
      <4>2. ~blank => \A x \in Index : index[x] = {chunks}
        BY <2>1, <4>1 DEF Done, Writers
      <4>3. \A s \in Task : Done(s)' /\ pc'[s] \notin Working
        BY <3>1, <3>2, <4>1 DEF Done, Owning, Working, Reading, Writers
      <4> QED
        BY <2>1, <3>1, <4>1, <4>2, <4>3 DEF Indexed
    <3>5. CASE Persist(t) \/ StartPurge(t) \/ StartIndex(t) \/ IndexDone(t)
      <4>1. pc[t] \in Working /\ status' = status /\ attempts' = attempts
        BY <3>5 DEF Persist, StartPurge, StartIndex, IndexDone, At, Working,
           Owning, row
      <4>2. status # "ready" /\ attempt[t] # 0 /\ attempts # 0
        BY <2>1, <2>3, <4>1 DEF Fit, AttemptKnown
      <4>3. attempt'[t] = attempt[t]
        BY <3>5 DEF Persist, StartPurge, StartIndex, IndexDone, local
      <4>4. Done(t)'
        <5>1. CASE Persist(t)
          <6>1. /\ pc[t] = "chunk" /\ pc'[t] = "embed" /\ chunks' = t
                /\ UNCHANGED threads
            BY <2>3, <5>1 DEF Persist, At, GoTo, TypeOK, TaskType
          <6> QED
            BY <2>1, <3>1, <4>3, <6>1 DEF Done, Reading, Writers
        <5>2. CASE StartPurge(t)
          <6>1. pc[t] = "embed" /\ pc'[t] = "purge" /\ chunks' = chunks
            BY <5>2 DEF StartPurge, At, GoTo, stores, TypeOK, TaskType
          <6>2. CASE attempt[t] > 1
            <7>1. \A x \in Index : Deletion(t, x) \in threads'
              BY <5>2, <6>2 DEF StartPurge, Calls, Deletion
            <7>2. chunks = t
              BY <2>1, <6>1 DEF Done, Writers
            <7>3. attempt[t] \in Nat
              BY <2>3
            <7>4. attempt'[t] # 1
              BY <4>3, <6>2, <7>3
            <7> QED
              BY <6>1, <7>1, <7>2, <7>4 DEF Done, Writers
          <6>3. CASE ~(attempt[t] > 1)
            <7>1. attempt[t] = 1 /\ threads' = threads
              BY <2>3, <4>2, <5>2, <6>3 DEF StartPurge
            <7> QED
              BY <2>1, <3>1, <4>3, <6>1, <7>1 DEF Done, Writers
          <6> QED
            BY <6>2, <6>3
        <5>3. CASE StartIndex(t)
          <6>1. /\ pc[t] = "purge" /\ pc'[t] = "index" /\ chunks' = chunks
                /\ \A x \in Index : /\ Deletion(t, x) \notin threads
                                    /\ Upsert(t, x) \in threads'
            BY <5>3 DEF StartIndex, At, GoTo, stores, CallsOf, Calls, Deletion,
               Upsert, TypeOK, TaskType
          <6> QED
            BY <2>1, <3>1, <6>1 DEF Done, Reading, Writers
        <5>4. CASE IndexDone(t)
          <6>1. /\ pc[t] = "index" /\ pc'[t] = "finalize" /\ chunks' = chunks
                /\ \A x \in Index : Upsert(t, x) \notin threads
            BY <5>4 DEF IndexDone, At, GoTo, stores, CallsOf, Upsert, TypeOK,
               TaskType
          <6> QED
            BY <2>1, <3>1, <6>1 DEF Done, Reading, Writers
        <5> QED
          BY <3>5, <5>1, <5>2, <5>3, <5>4
      <4> QED
        BY <2>1, <3>2, <4>1, <4>2, <4>4 DEF Indexed
    <3> QED
      BY <2>6, <3>3, <3>4, <3>5 DEF Indexing
  <2>7. ASSUME NEW c \in threads, CallLands(c) \/ CallFails(c) PROVE Indexed'
    <3> DEFINE t == c.task
    <3>1. /\ c \in Call /\ t \in Task /\ c.op \in {"delete", "upsert"}
          /\ c.on \in Index /\ c = [task |-> t, op |-> c.op, on |-> c.on]
      BY DEF TypeOK, StoreType, Call
    <3>2. Awaited(c)
      BY <2>7 DEF CallLands, CallFails, NoteLate, Stands
    <3>3. /\ UNCHANGED <<status, attempts, blank, chunks, attempt>>
          /\ threads' = threads \ {c}
          /\ \A s \in Task \ {t} : pc'[s] = pc[s]
      BY <2>7, <3>1 DEF CallLands, CallFails, GoTo, row, local, TypeOK, TaskType
    <3>4. /\ pc[t] = IF c.op = "delete" THEN "purge" ELSE "index"
          /\ pc[t] \in Working
      BY <3>2 DEF Awaited, Working, Owning
    <3>5. status # "ready" /\ attempts # 0
      BY <2>1, <3>1, <3>4
    <3>6. \A s \in Task \ {t} : Done(s)'
      BY <2>2, <3>1, <3>3, <3>4 DEF Done, Owning, Working, Reading, Writers
    <3>7. Done(t)'
      <4>1. CASE CallFails(c)
        <5>1. pc'[t] = "handler"
          BY <3>1, <3>2, <4>1 DEF CallFails, GoTo, TypeOK, TaskType
        <5> QED
          BY <5>1 DEF Done, Reading, Writers
      <4>2. CASE CallLands(c) /\ c.op = "delete"
        <5>1. /\ pc[t] = "purge" /\ pc'[t] = "purge"
              /\ \A x \in Index : index'[x] = IF x = c.on THEN {} ELSE index[x]
          BY <3>1, <3>4, <4>2 DEF CallLands, TypeOK, StoreType
        <5>2. \A x \in Index : x # c.on /\ Deletion(t, x) \in threads
                                 => Deletion(t, x) \in threads'
          BY <3>3 DEF Deletion
        <5> QED
          BY <2>1, <3>1, <3>3, <5>1, <5>2 DEF Done, Writers
      <4>3. CASE CallLands(c) /\ c.op = "upsert"
        <5>1. /\ pc[t] = "index" /\ pc'[t] = "index" /\ c = Upsert(t, c.on)
              /\ \A x \in Index : index'[x] = IF x = c.on THEN index[x] \cup {t}
                                                          ELSE index[x]
          BY <3>1, <3>4, <4>3 DEF CallLands, Upsert, TypeOK, StoreType
        <5>2. \A x \in Index : /\ Done(t) => index[x] = IF Upsert(t, x) \in threads THEN {} ELSE {t}
                               /\ Upsert(t, x) \in threads' <=> Upsert(t, x) \in threads /\ x # c.on
          BY <3>3, <5>1 DEF Upsert, Done
        <5>3. \A x \in Index : index'[x] = IF Upsert(t, x) \in threads' THEN {} ELSE {t}
          BY <2>1, <3>1, <5>1, <5>2
        <5> QED
          BY <2>1, <3>1, <3>3, <5>1, <5>3 DEF Done, Reading, Writers
      <4> QED
        BY <2>7, <3>1, <4>1, <4>2, <4>3
    <3> QED
      BY <2>1, <3>3, <3>5, <3>6, <3>7 DEF Indexed
  <2> QED
    BY <1>2, <2>4, <2>5, <2>6, <2>7, OtherSteady DEF Fit
<1> QED
  BY <1>1, <1>2

-----------------------------------------------------------------------------
(* The indexes and the delete.                                             *)

LEMMA MishapsGrow ==
  ASSUME TypeOK, CallsFit, [Next]_vars
  PROVE  mishaps \subseteq mishaps'
<1>1. CASE UploadCreate \/ UploadStoreFails \/ Purge
  BY <1>1 DEF UploadCreate, UploadStoreFails, Purge, PurgeStart, PurgeObjects,
     PurgeRows, PurgeCrash, PurgeIndex, PurgeIndexFails, history
<1>2. ASSUME NEW c \in threads, CallLands(c) \/ CallFails(c)
      PROVE  mishaps \subseteq mishaps'
  BY <1>2 DEF CallLands, CallFails, NoteLate
<1> QED
  BY <1>1, <1>2, IndexingMoves, OtherSteady DEF Steady

LEMMA DeletedNext ==
  /\ TypeOK /\ NothingYet /\ NotEnqueued /\ Unborn /\ CallsFit /\ Deleted
  /\ [Next]_vars
  => Deleted'
<1> SUFFICES ASSUME TypeOK, NothingYet, NotEnqueued, Unborn, CallsFit,
                    Deleted, [Next]_vars, mishaps' = {}
             PROVE  Deleted'
  BY DEF Deleted
<1> USE DEF Empty
<1>0. /\ dpc \in {"idle", "rows"} => pending = {}
      /\ dpc # "idle" => /\ threads = {} /\ \A t \in Task : pc[t] \notin Owning
                         /\ \A x \in Index \ pending : index[x] = {}
      /\ status = "absent" => /\ chunks = NoTask /\ Empty /\ threads = {}
                              /\ \A t \in Task : pc[t] \notin Working
  BY MishapsGrow DEF Deleted
<1>1. CASE Steady
  <2>1. \A t \in Task : pc'[t] \in Working => pc[t] \in Working
    BY <1>1, Stages DEF Steady, Stays, Past, Early, Reading, Writers
  <2> QED
    BY <1>0, <1>1, <2>1 DEF Steady, Deleted
<1>2. CASE UploadCreate
  <2>1. dpc' = "idle" /\ pending' = {} /\ status' = "pending"
    BY <1>2 DEF UploadCreate, Unborn
  <2> QED
    BY <2>1 DEF Deleted
<1>3. CASE UploadStoreFails
  <2>1. /\ chunks = NoTask /\ Empty /\ threads = {}
        /\ \A t \in Task : pc[t] = "idle"
    BY <1>3 DEF UploadStoreFails, Unborn, NotEnqueued
  <2>2. UNCHANGED <<chunks, index, threads, pc, dpc, pending>>
    BY <1>3 DEF UploadStoreFails, stores
  <2> QED
    BY <1>0, <2>1, <2>2 DEF Deleted, Working, Owning
<1>4. CASE Purge
  <2>1. UNCHANGED <<threads, pc>>
    BY <1>4 DEF Purge, PurgeStart, PurgeObjects, PurgeRows, PurgeCrash,
       PurgeIndex, PurgeIndexFails
  <2>2. ~PurgeCrash /\ \A x \in Index : ~PurgeIndexFails(x)
    BY DEF PurgeCrash, PurgeIndexFails
  <2>3. CASE PurgeStart
    <3>1. threads = {} /\ \A t \in Task : pc[t] \notin Owning
      BY <2>3 DEF PurgeStart
    <3> QED
      BY <2>1, <2>3, <3>1 DEF Deleted, PurgeStart, row
  <2>4. ASSUME NEW x \in Index, PurgeIndex(x) PROVE Deleted'
    <3>1. /\ dpc = "indexes" /\ dpc' = "indexes" /\ pending' = pending \ {x}
          /\ UNCHANGED <<status, chunks>>
      BY <2>4 DEF PurgeIndex, row
    <3>2. \A y \in Index : index'[y] = IF y = x THEN {} ELSE index[y]
      BY <2>4 DEF PurgeIndex, TypeOK, StoreType
    <3> QED
      BY <1>0, <2>1, <3>1, <3>2 DEF Deleted
  <2>5. CASE PurgeObjects
    BY <1>0, <2>1, <2>5 DEF PurgeObjects, Deleted, row
  <2>6. CASE PurgeRows
    BY <1>0, <2>1, <2>6 DEF PurgeRows, Deleted, Working
  <2> QED
    BY <1>4, <2>2, <2>3, <2>4, <2>5, <2>6 DEF Purge
<1>5. ASSUME NEW t \in Task, Indexing(t) PROVE Deleted'
  <2>1. dpc = "idle" /\ dpc' = "idle" /\ pending' = {}
    BY <1>0, <1>5, IndexingMoves
  <2>2. SUFFICES ASSUME status' = "absent"
                 PROVE  /\ chunks' = NoTask /\ Empty' /\ threads' = {}
                        /\ \A s \in Task : pc'[s] \notin Working
    BY <2>1 DEF Deleted
  <2>3. status = "absent"
    BY <1>5, <2>2 DEF Indexing, Count, FinishEmpty, Persist, StartPurge,
       StartIndex, IndexDone, Finalize, SetStatus, row
  <2>4. Count(t)
    BY <1>0, <1>5, <2>3 DEF Indexing, FinishEmpty, Persist, StartPurge,
       StartIndex, IndexDone, Finalize, At, Working, Owning
  <2>5. pc'[t] = "handler" /\ UNCHANGED <<chunks, index, threads>>
    BY <2>3, <2>4 DEF Count, GoTo, stores, TypeOK, TaskType
  <2> QED
    BY <1>0, <1>5, <2>3, <2>5, IndexingMoves DEF Working, Owning
<1>6. ASSUME NEW c \in threads, CallLands(c) \/ CallFails(c) PROVE Deleted'
  <2>1. UNCHANGED <<dpc, pending, status>>
    BY <1>6 DEF CallLands, CallFails, api, row
  <2> QED
    BY <1>0, <2>1 DEF Deleted
<1> QED
  BY <1>1, <1>2, <1>3, <1>4, <1>5, <1>6, OtherSteady

LEMMA IndexesFollow == Spec => [](Indexed /\ Fit /\ Deleted)
<1>1. Init => /\ NothingYet /\ NotEnqueued /\ Unborn /\ Fit /\ Counted /\ Indexed
              /\ Deleted /\ OwnersHold
  <2> SUFFICES ASSUME Init
               PROVE  /\ NothingYet /\ NotEnqueued /\ Unborn /\ Fit /\ Counted
                      /\ Indexed /\ Deleted /\ OwnersHold
    OBVIOUS
  <2>1. /\ Empty /\ threads = {} /\ chunks = NoTask /\ mishaps = {}
        /\ status = "absent" /\ dpc = "idle" /\ pending = {} /\ ~blank
        /\ \A t \in Task : pc[t] = "idle"
    BY DEF Init, Empty
  <2>2. NothingYet /\ NotEnqueued /\ Counted
    BY AttemptsAssumption DEF Init, NothingYet, NotEnqueued, Counted
  <2>3. Unborn /\ Fit /\ OwnersHold
    BY <2>1 DEF Unborn, Fit, CallsFit, AttemptKnown, BlankIsEmpty, OwnersHold,
       Working, Owning
  <2>4. Indexed /\ Deleted
    BY <2>1 DEF Indexed, Stands, Deleted, Working, Owning
  <2> QED
    BY <2>2, <2>3, <2>4
<1>2. OwnersHold => SoleOwner
  BY DEF OwnersHold, SoleOwner, Mine
<1>3. Fit <=> CallsFit /\ AttemptKnown /\ BlankIsEmpty
  BY DEF Fit
<1> QED
  BY <1>1, <1>2, <1>3, NothingYetNext, NotEnqueuedNext, UnbornNext,
     CallsFitNext, AttemptKnownNext, BlankIsEmptyNext, CountedNext,
     OwnersHoldNext, IndexedNext, DeletedNext, TypeCorrect, PTL DEF Spec

\* A ready document is retrievable: each index holds the chunks Postgres can
\* hydrate and no others, whichever attempts crashed, failed or were retried,
\* unless an index call landed after its task had stopped waiting for it, two
\* tasks owned the document at once, or a delete failed half way.
THEOREM ReadySearchable == Spec => []ReadyIsSearchable
<1>1. Indexed /\ Fit => ReadyIsSearchable
  BY DEF Indexed, Stands, ReadyIsSearchable, Fit, BlankIsEmpty, Empty
<1> QED
  BY <1>1, IndexesFollow, PTL

\* A delete that no task overlaps and no fault interrupts leaves nothing: no
\* index entry, no chunk, and no task brings one back.
THEOREM DeletedForGood == Spec => []DeletedLeavesNothing
<1>1. TypeOK /\ Deleted => DeletedLeavesNothing
  <2> SUFFICES ASSUME TypeOK, Deleted, status = "absent",
                      mishaps \cap {"overlap", "purge", "breach", "late"} = {}
               PROVE  chunks = NoTask /\ \A x \in Index : index[x] = {}
    BY DEF DeletedLeavesNothing
  <2>1. mishaps = {}
    BY DEF TypeOK, HistoryType
  <2> QED
    BY <2>1 DEF Deleted, Empty
<1> QED
  BY <1>1, IndexesFollow, TypeCorrect, PTL
=============================================================================
