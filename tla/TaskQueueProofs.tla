--------------------------- MODULE TaskQueueProofs ---------------------------
(***************************************************************************)
(* What the task queue promises of types, flood waits, outcomes,           *)
(* cancellations, runs and restarts, proved for any number of tasks,       *)
(* clients, batches, attempts, retries and crashes.                        *)
(***************************************************************************)
EXTENDS TaskQueue, TLAPS

\* A worker that is not idle holds a task, and it has decided on a status
\* before it comes to write one.
HoldsTask ==
    /\ worker.pc # "idle" => worker.cur \in TaskId
    /\ worker.pc \in {"recheck", "finishing"} => worker.to # "none"

Typed == TypeOK /\ HoldsTask

-----------------------------------------------------------------------------
(* What the operators the actions are built from do to the variables.       *)

LEMMA WriteTyped ==
    ASSUME Typed, NEW t \in TaskId, NEW s \in Status, NEW n \in NextRun, NEW r \in Nat,
           Write(t, s, n, r)
    PROVE  tasks' \in [TaskId -> Row] /\ lateBatches' \in [TaskId -> Nat]
  BY DEF Typed, TypeOK, Write, UpdateStatus, Row

LEMMA DeleteTyped ==
    ASSUME Typed, NEW t \in TaskId
    PROVE  DeleteRow(t) \in [TaskId -> Row]
  BY DEF Typed, TypeOK, DeleteRow, Row, NoRow

LEMMA RetriesTyped == ASSUME Typed, NEW t \in TaskId PROVE tasks[t].retries \in Nat
  BY DEF Typed, TypeOK, Row

\* The worker's fields have their types; when it leaves a task it is idle.
WorkerTyped == worker \in WorkerState /\ HoldsTask

LEMMA ReleaseTyped == ASSUME Typed, Release PROVE WorkerTyped'
<1>1. worker' = [pc |-> "idle", batch |-> worker.batch, cur |-> NoTask, left |-> 0,
                 attempt |-> 0, to |-> "none"]
  BY DEF Typed, TypeOK, Release, WorkerState
<1>2. 0 \in 0..Batches /\ 0 \in 0..MaxTries /\ worker.batch \in SUBSET TaskId
  BY TaskQueueAssumption DEF Typed, TypeOK, WorkerState
<1>3. QED
  BY <1>1, <1>2 DEF WorkerState, WorkerPc, HoldsTask, WorkerTyped

LEMMA BatchTyped ==
    ASSUME Typed, NEW b \in SUBSET TaskId, worker' = [worker EXCEPT !.batch = b]
    PROVE  WorkerTyped'
  BY DEF Typed, TypeOK, WorkerState, HoldsTask, WorkerTyped

LEMMA FailedTyped ==
    ASSUME Typed, worker.pc # "idle", Failed PROVE WorkerTyped'
  BY DEF Typed, TypeOK, Failed, WorkerState, WorkerPc, HoldsTask, WorkerTyped

LEMMA NextAttemptTyped ==
    ASSUME Typed, worker.pc # "idle", NextAttempt PROVE WorkerTyped'
<1>1. CASE worker.attempt \in 1..(MaxTries - 1)
  <2>1. worker' = [worker EXCEPT !.pc = "checking", !.attempt = @ + 1, !.left = Batches]
    BY <1>1 DEF NextAttempt
  <2>2. worker.attempt + 1 \in 0..MaxTries /\ Batches \in 0..Batches
    BY <1>1, TaskQueueAssumption
  <2>3. QED
    BY <2>1, <2>2 DEF Typed, TypeOK, WorkerState, WorkerPc, HoldsTask, WorkerTyped
<1>2. CASE worker.attempt \notin 1..(MaxTries - 1)
  BY <1>2, FailedTyped DEF NextAttempt
<1>3. QED
  BY <1>1, <1>2

\* Changes of the worker's program counter and target alone keep its type.
LEMMA MoveTyped ==
    ASSUME Typed, worker.pc # "idle",
           \/ \E pc \in WorkerPc :
                 /\ worker' = [worker EXCEPT !.pc = pc]
                 /\ pc \in {"recheck", "finishing"} => worker.to # "none"
           \/ \E pc \in WorkerPc, to \in {"succeeded", "failed", "canceled"} :
                 worker' = [worker EXCEPT !.pc = pc, !.to = to]
    PROVE  WorkerTyped'
  BY DEF Typed, TypeOK, WorkerState, HoldsTask, WorkerTyped

LEMMA AfterFloodTyped ==
    ASSUME Typed, worker.pc # "idle", AfterFlood PROVE WorkerTyped'
  BY FailedTyped, NextAttemptTyped DEF AfterFlood

-----------------------------------------------------------------------------
LEMMA TypedInit == Init => Typed
  BY TaskQueueAssumption
  DEF Init, Typed, TypeOK, HoldsTask, Row, NextRun, Status, NoRow, WorkerState, WorkerPc,
      IdleWorker, SyncerPc, Idle

LEMMA TypedStep == Typed /\ [Next]_vars => Typed'
<1> SUFFICES ASSUME Typed, [Next]_vars PROVE Typed'
  OBVIOUS
<1> USE TaskQueueAssumption
<1> USE DEF Typed, TypeOK
<1>1. ASSUME NEW t \in TaskId, Enqueue(t) PROVE Typed'
  BY <1>1 DEF Enqueue, Insert, HoldsTask, Row, NextRun, Status, NoRow, WorkerState,
      WorkerPc, SyncerPc, process, history
<1>2. ASSUME NEW t \in TaskId, EnqueueGap(t) PROVE Typed'
  <2>1. tasks' \in [TaskId -> Row]
    BY <1>2 DEF EnqueueGap, Insert, Row, Status, NoRow, NextRun
  <2>2. QED
    BY <1>2, <2>1 DEF EnqueueGap, Insert, HoldsTask, process
<1>3. ASSUME NEW t \in TaskId, CreateMetadataSync(t) PROVE Typed'
  BY <1>3 DEF CreateMetadataSync, Insert, HoldsTask, Row, NextRun, Status, NoRow,
      WorkerState, WorkerPc, SyncerPc, process, history
<1>4. ASSUME NEW t \in TaskId, SyncerStart(t) PROVE Typed'
  BY <1>4 DEF SyncerStart, Write, UpdateStatus, Exists, HoldsTask, Row, NextRun,
      Status, NoRow, WorkerState, WorkerPc, SyncerPc, process, history
<1>5. ASSUME NEW t \in TaskId, SyncerReturn(t) PROVE Typed'
  BY <1>5 DEF SyncerReturn, HoldsTask, Row, NextRun, Status, NoRow, WorkerState,
      WorkerPc, SyncerPc, process, history
<1>6. ASSUME NEW t \in TaskId, SyncerFinish(t) PROVE Typed'
  BY <1>6 DEF SyncerFinish, Write, UpdateStatus, Exists, HoldsTask, Row, NextRun,
      Status, NoRow, WorkerState, WorkerPc, SyncerPc, process, history
<1>7. ASSUME NEW t \in TaskId, TimePasses(t) PROVE Typed'
  BY <1>7 DEF TimePasses, HoldsTask, Row, NextRun, Status, NoRow, WorkerState,
      WorkerPc, SyncerPc, process, history
<1>8. ASSUME NEW t \in TaskId, DeleteOldTask(t) PROVE Typed'
  BY <1>8 DEF DeleteOldTask, DeleteRow, Exists, Retained, HoldsTask, Row, NextRun,
      Status, NoRow, WorkerState, WorkerPc, SyncerPc, process, history
<1>9. ASSUME ListQueued PROVE Typed'
  <2>1. PICK b \in SUBSET TaskId : worker' = [worker EXCEPT !.batch = b]
    BY <1>9 DEF ListQueued, Queued
  <2>2. WorkerTyped'
    BY <1>9, <2>1, BatchTyped
  <2>3. QED
    BY <1>9, <2>2 DEF ListQueued, process, history, WorkerTyped
<1>10. ASSUME StartCheck PROVE Typed'
  <2>1. PICK t \in worker.batch :
           \/ worker' = [worker EXCEPT !.pc = "starting", !.cur = t, !.batch = @ \ {t}]
           \/ worker' = [worker EXCEPT !.batch = @ \ {t}]
    BY <1>10 DEF StartCheck
  <2>2. t \in TaskId /\ worker.batch \ {t} \in SUBSET TaskId
    BY DEF WorkerState
  <2>3. CASE worker' = [worker EXCEPT !.pc = "starting", !.cur = t, !.batch = @ \ {t}]
    <3>1. WorkerTyped'
      BY <2>2, <2>3 DEF WorkerState, WorkerPc, HoldsTask, WorkerTyped
    <3>2. QED
      BY <1>10, <3>1 DEF StartCheck, process, history, WorkerTyped
  <2>4. CASE worker' = [worker EXCEPT !.batch = @ \ {t}]
    <3>1. WorkerTyped'
      BY <2>2, <2>4, BatchTyped
    <3>2. QED
      BY <1>10, <3>1 DEF StartCheck, process, history, WorkerTyped
  <2>5. QED
    BY <2>1, <2>3, <2>4
<1>11. ASSUME StartWrite PROVE Typed'
  <2>1. worker.cur \in TaskId
    BY <1>11 DEF StartWrite, HoldsTask
  <2>2. tasks' \in [TaskId -> Row] /\ lateBatches' \in [TaskId -> Nat]
    BY <1>11, <2>1, WriteTyped, RetriesTyped DEF StartWrite, Status, NextRun
  <2>3. BatchesOf(KindOf[worker.cur]) \in 0..Batches
    BY DEF BatchesOf
  <2>4. FirstAttempt(KindOf[worker.cur]) \in 0..MaxTries
    BY DEF FirstAttempt
  <2>5. WorkerTyped'
    <3>1. CASE Release
      BY <3>1, ReleaseTyped
    <3>2. CASE worker' = [worker EXCEPT !.pc = "checking", !.left = BatchesOf(KindOf[worker.cur]),
                                        !.attempt = FirstAttempt(KindOf[worker.cur])]
      BY <3>2, <2>1, <2>3, <2>4 DEF WorkerState, WorkerPc, HoldsTask, WorkerTyped
    <3>3. CASE worker' = [worker EXCEPT !.pc = "recheck", !.to = "failed"]
      BY <3>3, <2>1 DEF WorkerState, WorkerPc, HoldsTask, WorkerTyped
    <3>4. QED
      BY <1>11, <3>1, <3>2, <3>3 DEF StartWrite
  <2>6. QED
    BY <1>11, <2>1, <2>2, <2>5 DEF StartWrite, process, WorkerTyped
<1>12. ASSUME HandlerCheck PROVE Typed'
  <2>1. worker.pc # "idle"
    BY <1>12 DEF HandlerCheck
  <2>2. WorkerTyped'
    <3>1. CASE worker' = [worker EXCEPT !.attempt = 1]
      BY <2>1, <3>1 DEF WorkerState, HoldsTask, WorkerTyped
    <3>2. CASE NextAttempt
      BY <2>1, <3>2, NextAttemptTyped
    <3>3. QED
      BY <1>12, <2>1, <3>1, <3>2, MoveTyped DEF HandlerCheck, WorkerPc
  <2>3. QED
    BY <1>12, <2>2 DEF HandlerCheck, process, history, WorkerTyped
<1>13. ASSUME AccountNotReady PROVE Typed'
  <2>1. WorkerTyped'
    BY <1>13, FailedTyped, MoveTyped DEF AccountNotReady, WorkerPc, HoldsTask
  <2>2. QED
    BY <1>13, <2>1 DEF AccountNotReady, process, history, WorkerTyped
<1>14. ASSUME FetchBatch PROVE Typed'
  <2>1. worker.cur \in TaskId /\ worker.pc # "idle"
    BY <1>14 DEF FetchBatch, HoldsTask
  <2>2. lateBatches' \in [TaskId -> Nat]
    BY <1>14, <2>1 DEF FetchBatch
  <2>3. WorkerTyped'
    <3>1. CASE worker' = [worker EXCEPT !.pc = "checking", !.left = @ - 1]
      <4>1. worker.left - 1 \in 0..Batches
        BY <1>14 DEF FetchBatch, WorkerState
      <4>2. QED
        BY <2>1, <3>1, <4>1 DEF WorkerState, WorkerPc, HoldsTask, WorkerTyped
    <3>2. QED
      BY <1>14, <2>1, <3>1, NextAttemptTyped DEF FetchBatch
  <2>4. QED
    BY <1>14, <2>2, <2>3 DEF FetchBatch, process, WorkerTyped
<1>15. ASSUME FetchEnd PROVE Typed'
  <2>1. worker.cur \in TaskId /\ worker.pc # "idle"
    BY <1>15 DEF FetchEnd, HoldsTask
  <2>2. WorkerTyped'
    BY <1>15, <2>1, FailedTyped, MoveTyped DEF FetchEnd, WorkerPc
  <2>3. QED
    BY <1>15, <2>1, <2>2 DEF FetchEnd, process, WorkerTyped
<1>16. ASSUME FetchError PROVE Typed'
  <2>1. WorkerTyped'
    BY <1>16, FailedTyped, NextAttemptTyped, MoveTyped DEF FetchError, WorkerPc,
        HoldsTask
  <2>2. QED
    BY <1>16, <2>1 DEF FetchError, process, history, WorkerTyped
<1>17. ASSUME FloodCheck PROVE Typed'
  <2>1. WorkerTyped'
    BY <1>17, AfterFloodTyped, MoveTyped DEF FloodCheck, WorkerPc, HoldsTask
  <2>2. QED
    BY <1>17, <2>1 DEF FloodCheck, process, history, WorkerTyped
<1>18. ASSUME FloodWrite PROVE Typed'
  <2>1. worker.cur \in TaskId
    BY <1>18 DEF FloodWrite, HoldsTask
  <2>2. tasks' \in [TaskId -> Row] /\ lateBatches' \in [TaskId -> Nat]
    BY <1>18, <2>1, WriteTyped, RetriesTyped DEF FloodWrite, Status, NextRun
  <2>3. WorkerTyped'
    BY <1>18, AfterFloodTyped DEF FloodWrite
  <2>4. QED
    BY <1>18, <2>2, <2>3 DEF FloodWrite, process, WorkerTyped
<1>19. ASSUME HandlerReturned PROVE Typed'
  <2>1. WorkerTyped'
    BY <1>19, ReleaseTyped, MoveTyped DEF HandlerReturned, WorkerPc, HoldsTask
  <2>2. QED
    BY <1>19, <2>1 DEF HandlerReturned, process, history, WorkerTyped
<1>20. ASSUME FinishCheck PROVE Typed'
  <2>1. WorkerTyped'
    BY <1>20, ReleaseTyped, MoveTyped DEF FinishCheck, WorkerPc, HoldsTask
  <2>2. QED
    BY <1>20, <2>1 DEF FinishCheck, process, history, WorkerTyped
<1>21. ASSUME FinishWrite PROVE Typed'
  <2>1. worker.cur \in TaskId
    BY <1>21 DEF FinishWrite, HoldsTask
  <2>2. worker.to \in Status
    BY <1>21 DEF FinishWrite, HoldsTask, WorkerState, Status
  <2>3. tasks' \in [TaskId -> Row] /\ lateBatches' \in [TaskId -> Nat]
    BY <1>21, <2>1, <2>2, WriteTyped, RetriesTyped DEF FinishWrite, NextRun
  <2>4. WorkerTyped'
    BY <1>21, ReleaseTyped DEF FinishWrite
  <2>5. QED
    BY <1>21, <2>3, <2>4 DEF FinishWrite, process, WorkerTyped
<1>22. ASSUME NEW c \in Client, NEW op \in ApiOp, NEW t \in TaskId, ApiCheck(c, op, t) PROVE Typed'
  BY <1>22 DEF ApiCheck, ApiFrom, Pending, Idle, HoldsTask, Row, NextRun, Status,
      NoRow, WorkerState, WorkerPc, SyncerPc, process, history
<1>23. ASSUME NEW c \in Client, ApiWrite(c) PROVE Typed'
  BY <1>23 DEF ApiWrite, Write, UpdateStatus, Exists, ApiTo, ApiOp, Pending, Idle,
      HoldsTask, Row, NextRun, Status, NoRow, WorkerState, WorkerPc, SyncerPc, process,
      history
<1>24. ASSUME NEW c \in Client, ApiDelete(c) PROVE Typed'
  <2>1. request[c].id \in TaskId
    BY <1>24 DEF ApiDelete, Pending, Idle
  <2>2. tasks' \in [TaskId -> Row] /\ lateBatches' \in [TaskId -> Nat]
    BY <1>24, <2>1, DeleteTyped DEF ApiDelete
  <2>3. QED
    BY <1>24, <2>2 DEF ApiDelete, HoldsTask, process, Idle
<1>25. ASSUME Boot PROVE Typed'
  BY <1>25 DEF Boot, Restartable, RestartFrom, HoldsTask, Row, NextRun, Status, NoRow,
      WorkerState, WorkerPc, SyncerPc, process, history
<1>26. ASSUME Ready PROVE Typed'
  BY <1>26 DEF Ready, HoldsTask, Row, NextRun, Status, NoRow, WorkerState, WorkerPc,
      SyncerPc, process, history
<1>27. ASSUME NEW t \in TaskId, RestoreTask(t) PROVE Typed'
  BY <1>27 DEF RestoreTask, Write, UpdateStatus, Exists, HoldsTask, Row, NextRun,
      Status, NoRow, WorkerState, WorkerPc, SyncerPc, process, history
<1>28. ASSUME Crash PROVE Typed'
  BY <1>28 DEF Crash, IdleWorker, Idle, HoldsTask, Row, NextRun, Status, NoRow,
      WorkerState, WorkerPc, SyncerPc, process, history
<1>29. CASE UNCHANGED vars
  BY <1>29 DEF HoldsTask, Row, NextRun, Status, NoRow, WorkerState, WorkerPc, SyncerPc,
      vars, process, history
<1>30. QED
  BY <1>1, <1>2, <1>3, <1>4, <1>5, <1>6, <1>7, <1>8, <1>9, <1>10, <1>11, <1>12, <1>13,
      <1>14, <1>15, <1>16, <1>17, <1>18, <1>19, <1>20, <1>21, <1>22, <1>23, <1>24,
      <1>25, <1>26, <1>27, <1>28, <1>29 DEF Next, Worker, Syncer, Start

\* Every variable keeps its type, for every value of the constants.
THEOREM TypeCorrect == Spec => []TypeOK
<1>1. Spec => []Typed
  BY TypedInit, TypedStep, PTL DEF Spec
<1>2. Typed => TypeOK
  BY DEF Typed
<1>3. QED
  BY <1>1, <1>2, PTL

\* A request in progress names a row and the retry count it read.
LEMMA RequestTyped ==
    ASSUME Typed, NEW c \in Client, request[c] # Idle
    PROVE  /\ request[c].op \in ApiOp /\ request[c].id \in TaskId
           /\ request[c].retries \in Nat /\ request[c].retries + 1 \in Nat
  BY DEF Typed, TypeOK, Pending

-----------------------------------------------------------------------------
(* next_run_at is set on the rows in flood_wait and on no other: no more     *)
(* than the rows is needed, each write sets both columns.                    *)

LEMMA WriteDeadline ==
    ASSUME Typed, DeadlineIffFloodWait, NEW t \in TaskId, NEW s \in Status,
           NEW n \in NextRun, NEW r \in Nat,
           n # "null" <=> s = "flood_wait",
           Write(t, s, n, r)
    PROVE  DeadlineIffFloodWait'
  BY DEF Typed, TypeOK, Write, UpdateStatus, Exists, DeadlineIffFloodWait, Row

LEMMA DeadlineStep == Typed /\ DeadlineIffFloodWait /\ [Next]_vars => DeadlineIffFloodWait'
<1> SUFFICES ASSUME Typed, DeadlineIffFloodWait, [Next]_vars PROVE DeadlineIffFloodWait'
  OBVIOUS
<1>1. ASSUME NEW t \in TaskId, Enqueue(t) PROVE DeadlineIffFloodWait'
  BY <1>1 DEF Enqueue, Insert, Exists, Status, NoRow, Row, NextRun, Typed, TypeOK,
      DeadlineIffFloodWait
<1>2. ASSUME NEW t \in TaskId, EnqueueGap(t) PROVE DeadlineIffFloodWait'
  BY <1>2, SMTT(30)
  DEF EnqueueGap, Insert, QueuedGaps, Exists, Status, NoRow, Row, NextRun, Typed, TypeOK,
      DeadlineIffFloodWait
<1>3. ASSUME NEW t \in TaskId, CreateMetadataSync(t) PROVE DeadlineIffFloodWait'
  BY <1>3 DEF CreateMetadataSync, Insert, Exists, Status, NoRow, Row, NextRun, Typed,
      TypeOK, DeadlineIffFloodWait
<1>4. ASSUME NEW t \in TaskId, SyncerStart(t) PROVE DeadlineIffFloodWait'
  BY <1>4, WriteDeadline, RetriesTyped DEF SyncerStart, Status, NextRun
<1>5. ASSUME NEW t \in TaskId, SyncerReturn(t) PROVE DeadlineIffFloodWait'
  BY <1>5 DEF SyncerReturn, history, DeadlineIffFloodWait, Exists
<1>6. ASSUME NEW t \in TaskId, SyncerFinish(t) PROVE DeadlineIffFloodWait'
  BY <1>6, WriteDeadline, RetriesTyped DEF SyncerFinish, Status, NextRun
<1>7. ASSUME NEW t \in TaskId, TimePasses(t) PROVE DeadlineIffFloodWait'
  BY <1>7 DEF TimePasses, Exists, Status, NoRow, Row, NextRun, Typed, TypeOK,
      DeadlineIffFloodWait
<1>8. ASSUME NEW t \in TaskId, DeleteOldTask(t) PROVE DeadlineIffFloodWait'
  BY <1>8 DEF DeleteOldTask, DeleteRow, Exists, Retained, Status, NoRow, Row, NextRun,
      Typed, TypeOK, DeadlineIffFloodWait
<1>9. ASSUME ListQueued PROVE DeadlineIffFloodWait'
  BY <1>9 DEF ListQueued, history, DeadlineIffFloodWait, Exists
<1>10. ASSUME StartCheck PROVE DeadlineIffFloodWait'
  BY <1>10 DEF StartCheck, history, DeadlineIffFloodWait, Exists
<1>11. ASSUME StartWrite PROVE DeadlineIffFloodWait'
  BY <1>11, WriteDeadline, RetriesTyped DEF StartWrite, Typed, HoldsTask, Status,
      NextRun
<1>12. ASSUME HandlerCheck PROVE DeadlineIffFloodWait'
  BY <1>12 DEF HandlerCheck, history, DeadlineIffFloodWait, Exists
<1>13. ASSUME AccountNotReady PROVE DeadlineIffFloodWait'
  BY <1>13 DEF AccountNotReady, history, DeadlineIffFloodWait, Exists
<1>14. ASSUME FetchBatch PROVE DeadlineIffFloodWait'
  BY <1>14 DEF FetchBatch, history, DeadlineIffFloodWait, Exists
<1>15. ASSUME FetchEnd PROVE DeadlineIffFloodWait'
  BY <1>15 DEF FetchEnd, history, DeadlineIffFloodWait, Exists
<1>16. ASSUME FetchError PROVE DeadlineIffFloodWait'
  BY <1>16 DEF FetchError, history, DeadlineIffFloodWait, Exists
<1>17. ASSUME FloodCheck PROVE DeadlineIffFloodWait'
  BY <1>17 DEF FloodCheck, history, DeadlineIffFloodWait, Exists
<1>18. ASSUME FloodWrite PROVE DeadlineIffFloodWait'
  BY <1>18, WriteDeadline, RetriesTyped DEF FloodWrite, Typed, HoldsTask, Status,
      NextRun
<1>19. ASSUME HandlerReturned PROVE DeadlineIffFloodWait'
  BY <1>19 DEF HandlerReturned, history, DeadlineIffFloodWait, Exists
<1>20. ASSUME FinishCheck PROVE DeadlineIffFloodWait'
  BY <1>20 DEF FinishCheck, history, DeadlineIffFloodWait, Exists
<1>21. ASSUME FinishWrite PROVE DeadlineIffFloodWait'
  <2>1. worker.cur \in TaskId /\ worker.to \in {"succeeded", "failed", "canceled"}
    BY <1>21 DEF FinishWrite, Typed, TypeOK, HoldsTask, WorkerState
  <2>2. QED
    BY <1>21, <2>1, WriteDeadline, RetriesTyped DEF FinishWrite, Status, NextRun
<1>22. ASSUME NEW c \in Client, NEW op \in ApiOp, NEW t \in TaskId, ApiCheck(c, op, t) PROVE DeadlineIffFloodWait'
  BY <1>22 DEF ApiCheck, history, DeadlineIffFloodWait, Exists
<1>23. ASSUME NEW c \in Client, ApiWrite(c) PROVE DeadlineIffFloodWait'
  <2>1. PICK r \in Nat : Write(request[c].id, ApiTo(request[c].op), "null", r)
    BY <1>23, RequestTyped, RetriesTyped DEF ApiWrite
  <2>2. ApiTo(request[c].op) \in {"canceling", "paused", "running", "queued"}
    BY <1>23, RequestTyped DEF ApiWrite, ApiTo, ApiOp
  <2>3. QED
    BY <1>23, <2>1, <2>2, WriteDeadline, RequestTyped DEF ApiWrite, Status, NextRun
<1>24. ASSUME NEW c \in Client, ApiDelete(c) PROVE DeadlineIffFloodWait'
  BY <1>24, RequestTyped DEF ApiDelete, DeleteRow, Exists, Status, NoRow, Row, Typed,
      TypeOK, DeadlineIffFloodWait
<1>25. ASSUME Boot PROVE DeadlineIffFloodWait'
  BY <1>25 DEF Boot, history, DeadlineIffFloodWait, Exists
<1>26. ASSUME Ready PROVE DeadlineIffFloodWait'
  BY <1>26 DEF Ready, history, DeadlineIffFloodWait, Exists
<1>27. ASSUME NEW t \in TaskId, RestoreTask(t) PROVE DeadlineIffFloodWait'
  BY <1>27, WriteDeadline, RetriesTyped DEF RestoreTask, Status, NextRun
<1>28. ASSUME Crash PROVE DeadlineIffFloodWait'
  BY <1>28 DEF Crash, history, DeadlineIffFloodWait, Exists
<1>29. CASE UNCHANGED vars
  BY <1>29 DEF DeadlineIffFloodWait, Exists, vars
<1>30. QED
  BY <1>1, <1>2, <1>3, <1>4, <1>5, <1>6, <1>7, <1>8, <1>9, <1>10, <1>11, <1>12, <1>13,
      <1>14, <1>15, <1>16, <1>17, <1>18, <1>19, <1>20, <1>21, <1>22, <1>23, <1>24,
      <1>25, <1>26, <1>27, <1>28, <1>29 DEF Next, Worker, Syncer, Start

\* Whatever the interleaving, a row has a next_run_at exactly while it is in
\* flood_wait, so ListRestartable's filter never hides another unfinished row.
THEOREM DeadlineCorrect == Spec => []DeadlineIffFloodWait
<1>1. Init => DeadlineIffFloodWait
  BY DEF Init, DeadlineIffFloodWait, Exists, Status
<1>2. Spec => []Typed
  BY TypedInit, TypedStep, PTL DEF Spec
<1>3. QED
  BY <1>1, <1>2, DeadlineStep, PTL DEF Spec

-----------------------------------------------------------------------------
(* Outcomes, cancellations, runs and restarts, each relative to Typed.       *)

\* Steps of the worker that write neither a row nor a history variable.
WorkerReads ==
    \/ ListQueued \/ StartCheck \/ HandlerCheck \/ AccountNotReady \/ FetchError
    \/ FloodCheck \/ HandlerReturned \/ FinishCheck

\* Steps of others that write neither.
OthersRead ==
    \/ \E c \in Client, op \in ApiOp, t \in TaskId : ApiCheck(c, op, t)
    \/ Boot \/ Ready \/ Crash

\* Every step, grouped by what it writes.
LEMMA Cases ==
    ASSUME [Next]_vars
    PROVE  \/ \E t \in TaskId : Enqueue(t) \/ EnqueueGap(t) \/ CreateMetadataSync(t)
           \/ \E t \in TaskId : SyncerStart(t) \/ SyncerReturn(t) \/ SyncerFinish(t)
           \/ \E t \in TaskId : TimePasses(t) \/ DeleteOldTask(t) \/ RestoreTask(t)
           \/ \E c \in Client : ApiWrite(c) \/ ApiDelete(c)
           \/ StartWrite \/ FetchBatch \/ FetchEnd \/ FloodWrite \/ FinishWrite
           \/ WorkerReads \/ OthersRead
           \/ UNCHANGED vars
  BY DEF Next, Worker, Syncer, Start, WorkerReads, OthersRead

LEMMA WorkerReadsFrame ==
    ASSUME WorkerReads
    PROVE  UNCHANGED <<tasks, request, syncer, process, history>>
  BY DEF WorkerReads, ListQueued, StartCheck, HandlerCheck, AccountNotReady, FetchError,
         FloodCheck, HandlerReturned, FinishCheck

LEMMA OthersReadFrame ==
    ASSUME OthersRead
    PROVE  UNCHANGED <<tasks, history>>
  BY DEF OthersRead, ApiCheck, Boot, Ready, Crash

-----------------------------------------------------------------------------
(* SucceededMeansRan.  The worker and the goroutine of a metadata_sync row   *)
(* decide on "succeeded" when the work is done and write it later: between   *)
(* the two, what they carry must still be true.                              *)

WorkEarned ==
    worker.to = "succeeded" =>
        worker.pc \in {"returned", "recheck", "finishing"} /\ worker.cur \in completed

SyncEarned == \A t \in TaskId : syncer[t] = "succeeded" => t \in completed

Earned == SucceededMeansRan /\ WorkEarned /\ SyncEarned

LEMMA WriteEarned ==
    ASSUME Typed, SucceededMeansRan, NEW t \in TaskId, NEW s \in Status, NEW n, NEW r,
           Write(t, s, n, r), completed' = completed,
           s = "succeeded" => t \in completed
    PROVE  SucceededMeansRan'
  BY DEF Typed, TypeOK, Write, UpdateStatus, SucceededMeansRan

LEMMA EarnedInit == Init => Earned
  BY DEF Init, IdleWorker, Earned, SucceededMeansRan, WorkEarned, SyncEarned

LEMMA EarnedStep == Typed /\ Earned /\ [Next]_vars => Earned'
<1> SUFFICES ASSUME Typed, Earned, [Next]_vars PROVE Earned'
  OBVIOUS
<1>1. ASSUME NEW t \in TaskId, Enqueue(t) \/ EnqueueGap(t) \/ CreateMetadataSync(t)
      PROVE  Earned'
  BY <1>1 DEF Enqueue, EnqueueGap, CreateMetadataSync, Insert, QueuedGaps, Earned,
      SucceededMeansRan, WorkEarned, SyncEarned, Typed, TypeOK, Row
<1>2. ASSUME NEW t \in TaskId, SyncerStart(t) PROVE Earned'
  <2>1. SucceededMeansRan'
    BY <1>2, WriteEarned DEF SyncerStart, Earned, Status
  <2>2. QED
    BY <1>2, <2>1 DEF SyncerStart, Earned, WorkEarned, SyncEarned, Typed, TypeOK
<1>3. ASSUME NEW t \in TaskId, SyncerReturn(t) PROVE Earned'
  BY <1>3 DEF SyncerReturn, Earned, SucceededMeansRan, WorkEarned, SyncEarned, Typed, TypeOK
<1>4. ASSUME NEW t \in TaskId, SyncerFinish(t) PROVE Earned'
  <2>1. SucceededMeansRan'
    BY <1>4, WriteEarned DEF SyncerFinish, Earned, SyncEarned, Status
  <2>2. QED
    BY <1>4, <2>1 DEF SyncerFinish, Earned, WorkEarned, SyncEarned, Typed, TypeOK
<1>5. ASSUME NEW t \in TaskId, TimePasses(t) \/ DeleteOldTask(t) PROVE Earned'
  BY <1>5 DEF TimePasses, DeleteOldTask, DeleteRow, history, Earned, SucceededMeansRan,
      WorkEarned, SyncEarned, Typed, TypeOK, Row
<1>6. ASSUME NEW t \in TaskId, RestoreTask(t) PROVE Earned'
  <2>1. SucceededMeansRan'
    BY <1>6, WriteEarned DEF RestoreTask, Earned, Status
  <2>2. QED
    BY <1>6, <2>1 DEF RestoreTask, Earned, WorkEarned, SyncEarned
<1>7. ASSUME NEW c \in Client, ApiWrite(c) PROVE Earned'
  <2>1. /\ request[c].id \in TaskId
        /\ ApiTo(request[c].op) \in {"canceling", "paused", "running", "queued"}
    BY <1>7, RequestTyped DEF ApiWrite, ApiTo, ApiOp
  <2>2. SucceededMeansRan'
    BY <1>7, <2>1, WriteEarned DEF ApiWrite, Earned, Status
  <2>3. QED
    BY <1>7, <2>2 DEF ApiWrite, Earned, WorkEarned, SyncEarned
<1>8. ASSUME NEW c \in Client, ApiDelete(c) PROVE Earned'
  BY <1>8, RequestTyped DEF ApiDelete, DeleteRow, Earned, SucceededMeansRan, WorkEarned,
      SyncEarned, Typed, TypeOK, Row
<1>9. ASSUME StartWrite PROVE Earned'
  <2>1. SucceededMeansRan'
    BY <1>9, WriteEarned DEF StartWrite, Earned, Status, Typed, HoldsTask
  <2>2. WorkEarned'
    BY <1>9 DEF StartWrite, Release, Earned, WorkEarned, Typed, TypeOK, WorkerState
  <2>3. QED
    BY <1>9, <2>1, <2>2 DEF StartWrite, Earned, SyncEarned
<1>10. ASSUME FetchBatch PROVE Earned'
  BY <1>10 DEF FetchBatch, NextAttempt, Failed, Earned, SucceededMeansRan, WorkEarned,
      SyncEarned, Typed, TypeOK, WorkerState
<1>11. ASSUME FetchEnd PROVE Earned'
  BY <1>11 DEF FetchEnd, Failed, Earned, SucceededMeansRan, WorkEarned, SyncEarned, Typed,
      TypeOK, WorkerState, HoldsTask
<1>12. ASSUME FloodWrite PROVE Earned'
  <2>1. SucceededMeansRan'
    BY <1>12, WriteEarned DEF FloodWrite, Earned, Status, Typed, HoldsTask
  <2>2. QED
    BY <1>12, <2>1 DEF FloodWrite, AfterFlood, NextAttempt, Failed, Earned, WorkEarned,
        SyncEarned, Typed, TypeOK, WorkerState
<1>13. ASSUME FinishWrite PROVE Earned'
  <2>1. worker.cur \in TaskId /\ worker.to \in {"succeeded", "failed", "canceled"}
    BY <1>13 DEF FinishWrite, Typed, TypeOK, HoldsTask, WorkerState
  <2>2. SucceededMeansRan'
    BY <1>13, <2>1, WriteEarned DEF FinishWrite, Earned, WorkEarned, Status
  <2>3. QED
    BY <1>13, <2>2 DEF FinishWrite, Release, Earned, WorkEarned, SyncEarned, Typed, TypeOK,
        WorkerState
<1>14. ASSUME WorkerReads PROVE Earned'
  <2>1. SucceededMeansRan' /\ SyncEarned'
    BY <1>14, WorkerReadsFrame DEF Earned, SucceededMeansRan, SyncEarned, history
  <2>2. worker.to' = "succeeded" =>
          worker.to = "succeeded" /\ worker.pc' \in {"returned", "recheck", "finishing"}
                                  /\ worker.cur' = worker.cur
    BY <1>14 DEF WorkerReads, ListQueued, StartCheck, HandlerCheck, AccountNotReady,
        FetchError, FloodCheck, HandlerReturned, FinishCheck, NextAttempt, AfterFlood,
        Failed, Release, Earned, WorkEarned, Typed, TypeOK, WorkerState
  <2>3. QED
    BY <1>14, <2>1, <2>2, WorkerReadsFrame DEF Earned, WorkEarned, history
<1>15. ASSUME OthersRead PROVE Earned'
  <2>1. /\ worker' = worker \/ worker' = IdleWorker
        /\ syncer' = syncer \/ syncer' = [t \in TaskId |-> "none"]
    BY <1>15 DEF OthersRead, ApiCheck, Boot, Ready, Crash
  <2>2. QED
    BY <1>15, <2>1, OthersReadFrame DEF IdleWorker, history, Earned, SucceededMeansRan,
        WorkEarned, SyncEarned
<1>16. CASE UNCHANGED vars
  BY <1>16 DEF vars, Earned, SucceededMeansRan, WorkEarned, SyncEarned
<1>17. QED
  BY <1>1, <1>2, <1>3, <1>4, <1>5, <1>6, <1>7, <1>8, <1>9, <1>10, <1>11, <1>12, <1>13,
     <1>14, <1>15, <1>16, Cases

\* However pauses, cancellations, retries, crashes and the two writers of a
\* metadata_sync row interleave, no task is shown as succeeded whose work was
\* never carried out to its end.
THEOREM SucceededCorrect == Spec => []SucceededMeansRan
<1>1. Spec => []Typed
  BY TypedInit, TypedStep, PTL DEF Spec
<1>2. Spec => []Earned
  BY <1>1, EarnedInit, EarnedStep, PTL DEF Spec
<1>3. Earned => SucceededMeansRan
  BY DEF Earned
<1>4. QED
  BY <1>2, <1>3, PTL
-----------------------------------------------------------------------------
(* CancelStopsBatches.  A row that got a batch after it became canceling is  *)
(* still canceling, and its handler is past the check that lets it fetch.    *)

LateOnce ==
    \A t \in TaskId : KindOf[t] \in Cooperative =>
        /\ lateBatches[t] \in {0, 1}
        /\ lateBatches[t] = 1 => /\ tasks[t].status = "canceling"
                                 /\ ~(worker.pc = "fetching" /\ worker.cur = t)

LEMMA WriteLate ==
    ASSUME Typed, LateOnce, NEW t \in TaskId, NEW s \in Status, NEW n, NEW r,
           Write(t, s, n, r),
           worker'.pc = "fetching" => worker.pc = "fetching" /\ worker'.cur = worker.cur
    PROVE  LateOnce'
  BY DEF Typed, TypeOK, Write, UpdateStatus, LateOnce, Row

LEMMA LateInit == Init => LateOnce
  BY DEF Init, IdleWorker, LateOnce

LEMMA LateStep == Typed /\ LateOnce /\ [Next]_vars => LateOnce'
<1> SUFFICES ASSUME Typed, LateOnce, [Next]_vars PROVE LateOnce'
  OBVIOUS
<1>1. ASSUME NEW t \in TaskId, Enqueue(t) \/ EnqueueGap(t) \/ CreateMetadataSync(t)
      PROVE  LateOnce'
  BY <1>1 DEF Enqueue, EnqueueGap, CreateMetadataSync, Insert, QueuedGaps, LateOnce, Typed,
      TypeOK, Row
<1>2. ASSUME NEW t \in TaskId, SyncerStart(t) PROVE LateOnce'
  BY <1>2, WriteLate DEF SyncerStart, Status
<1>3. ASSUME NEW t \in TaskId, SyncerReturn(t) PROVE LateOnce'
  BY <1>3 DEF SyncerReturn, LateOnce
<1>4. ASSUME NEW t \in TaskId, SyncerFinish(t) PROVE LateOnce'
  BY <1>4, WriteLate DEF SyncerFinish, Status
<1>5. ASSUME NEW t \in TaskId, TimePasses(t) PROVE LateOnce'
  BY <1>5 DEF TimePasses, history, LateOnce, Typed, TypeOK, Row
<1>6. ASSUME NEW t \in TaskId, DeleteOldTask(t) PROVE LateOnce'
  BY <1>6 DEF DeleteOldTask, DeleteRow, Retained, history, LateOnce, Typed, TypeOK, Row
<1>7. ASSUME NEW t \in TaskId, RestoreTask(t) PROVE LateOnce'
  BY <1>7, WriteLate DEF RestoreTask, Status
<1>8. ASSUME NEW c \in Client, ApiWrite(c) PROVE LateOnce'
  <2>1. /\ request[c].id \in TaskId
        /\ ApiTo(request[c].op) \in {"canceling", "paused", "running", "queued"}
    BY <1>8, RequestTyped DEF ApiWrite, ApiTo, ApiOp
  <2>2. QED
    BY <1>8, <2>1, WriteLate DEF ApiWrite, Status
<1>9. ASSUME NEW c \in Client, ApiDelete(c) PROVE LateOnce'
  BY <1>9, RequestTyped DEF ApiDelete, DeleteRow, LateOnce, Typed, TypeOK, Row
<1>10. ASSUME StartWrite PROVE LateOnce'
  <2>1. worker'.pc # "fetching"
    BY <1>10 DEF StartWrite, Release, Typed, TypeOK, WorkerState
  <2>2. QED
    BY <1>10, <2>1, WriteLate DEF StartWrite, Status, Typed, HoldsTask
<1>11. ASSUME FetchBatch PROVE LateOnce'
  <2>1. worker'.pc # "fetching"
    BY <1>11 DEF FetchBatch, NextAttempt, Failed, Typed, TypeOK, WorkerState
  <2>2. worker.cur \in TaskId
    BY <1>11 DEF FetchBatch, Typed, HoldsTask
  <2>3. QED
    BY <1>11, <2>1, <2>2 DEF FetchBatch, LateOnce, Typed, TypeOK
<1>12. ASSUME FetchEnd PROVE LateOnce'
  BY <1>12 DEF FetchEnd, Failed, LateOnce, Typed, TypeOK, WorkerState
<1>13. ASSUME FloodWrite PROVE LateOnce'
  <2>1. worker'.pc # "fetching"
    BY <1>13 DEF FloodWrite, AfterFlood, NextAttempt, Failed, Typed, TypeOK, WorkerState
  <2>2. QED
    BY <1>13, <2>1, WriteLate DEF FloodWrite, Status, Typed, HoldsTask
<1>14. ASSUME FinishWrite PROVE LateOnce'
  <2>1. worker.cur \in TaskId /\ worker.to \in {"succeeded", "failed", "canceled"}
    BY <1>14 DEF FinishWrite, Typed, TypeOK, HoldsTask, WorkerState
  <2>2. worker'.pc # "fetching"
    BY <1>14 DEF FinishWrite, Release, Typed, TypeOK, WorkerState
  <2>3. QED
    BY <1>14, <2>1, <2>2, WriteLate DEF FinishWrite, Status
<1>15. ASSUME HandlerCheck PROVE LateOnce'
  <2>1. worker'.pc = "fetching" => /\ worker'.cur = worker.cur
                                   /\ \/ KindOf[worker.cur] \notin Cooperative
                                      \/ tasks[worker.cur].status # "canceling"
    BY <1>15 DEF HandlerCheck, NextAttempt, Failed, Typed, TypeOK, WorkerState
  <2>2. QED
    BY <1>15, <2>1 DEF HandlerCheck, history, LateOnce
<1>16. ASSUME WorkerReads, ~HandlerCheck PROVE LateOnce'
  <2>1. worker'.pc = "fetching" => worker.pc = "fetching" /\ worker'.cur = worker.cur
    BY <1>16 DEF WorkerReads, ListQueued, StartCheck, AccountNotReady, FetchError,
        FloodCheck, HandlerReturned, FinishCheck, NextAttempt, AfterFlood, Failed, Release,
        Typed, TypeOK, WorkerState
  <2>2. QED
    BY <1>16, <2>1, WorkerReadsFrame DEF history, LateOnce
<1>17. ASSUME OthersRead PROVE LateOnce'
  <2>1. worker' = worker \/ worker' = IdleWorker
    BY <1>17 DEF OthersRead, ApiCheck, Boot, Ready, Crash
  <2>2. QED
    BY <1>17, <2>1, OthersReadFrame DEF IdleWorker, history, LateOnce
<1>18. CASE UNCHANGED vars
  BY <1>18 DEF vars, LateOnce
<1>19. QED
  BY <1>1, <1>2, <1>3, <1>4, <1>5, <1>6, <1>7, <1>8, <1>9, <1>10, <1>11, <1>12, <1>13,
     <1>14, <1>15, <1>16, <1>17, <1>18, Cases

\* A handler that checks its row stores at most the batch it was fetching when
\* the row became canceling, however many batches, attempts and requests follow.
THEOREM CancelCorrect == Spec => []CancelStopsBatches
<1>1. Spec => []Typed
  BY TypedInit, TypedStep, PTL DEF Spec
<1>2. Spec => []LateOnce
  BY <1>1, LateInit, LateStep, PTL DEF Spec
<1>3. LateOnce => CancelStopsBatches
  BY DEF LateOnce, CancelStopsBatches
<1>4. QED
  BY <1>2, <1>3, PTL

-----------------------------------------------------------------------------
(* OneRunPerQueueing.  What the worker has listed, or is about to start, was *)
(* queued and has not been started since; the task it holds is off its list. *)

RunsOwed ==
    /\ \A t \in TaskId : tasks[t].status = "queued" => t \in owed
    /\ worker.batch \subseteq owed
    /\ worker.pc # "idle" => worker.cur \notin worker.batch
    /\ worker.pc = "starting" => worker.cur \in owed

LEMMA WriteOwed ==
    ASSUME Typed, RunsOwed, NEW t \in TaskId, NEW s \in Status, NEW n, NEW r,
           Write(t, s, n, r), owed' = owed, s # "queued",
           worker'.batch = worker.batch,
           worker'.pc # "idle" => worker.pc # "idle" /\ worker'.cur = worker.cur,
           worker'.pc = "starting" => worker.pc = "starting"
    PROVE  RunsOwed'
  BY DEF Typed, TypeOK, Write, UpdateStatus, RunsOwed, Row

LEMMA OwedInit == Init => RunsOwed
  BY DEF Init, IdleWorker, RunsOwed

LEMMA OwedStep == Typed /\ RunsOwed /\ [Next]_vars => RunsOwed'
<1> SUFFICES ASSUME Typed, RunsOwed, [Next]_vars PROVE RunsOwed'
  OBVIOUS
<1>1. ASSUME NEW t \in TaskId, Enqueue(t) \/ EnqueueGap(t) \/ CreateMetadataSync(t)
      PROVE  RunsOwed'
  BY <1>1 DEF Enqueue, EnqueueGap, CreateMetadataSync, Insert, QueuedGaps, RunsOwed, Typed,
      TypeOK, Row
<1>2. ASSUME NEW t \in TaskId, SyncerStart(t) PROVE RunsOwed'
  BY <1>2, WriteOwed DEF SyncerStart, Status
<1>3. ASSUME NEW t \in TaskId, SyncerReturn(t) PROVE RunsOwed'
  BY <1>3 DEF SyncerReturn, RunsOwed
<1>4. ASSUME NEW t \in TaskId, SyncerFinish(t) PROVE RunsOwed'
  BY <1>4, WriteOwed DEF SyncerFinish, Status
<1>5. ASSUME NEW t \in TaskId, TimePasses(t) \/ DeleteOldTask(t) PROVE RunsOwed'
  BY <1>5 DEF TimePasses, DeleteOldTask, DeleteRow, history, RunsOwed, Typed, TypeOK, Row
<1>6. ASSUME NEW t \in TaskId, RestoreTask(t) PROVE RunsOwed'
  BY <1>6 DEF RestoreTask, Write, UpdateStatus, Exists, Status, RunsOwed, Typed, TypeOK, Row
<1>7. ASSUME NEW c \in Client, ApiWrite(c) PROVE RunsOwed'
  <2>1. /\ request[c].id \in TaskId /\ request[c].op \in ApiOp
        /\ ApiTo(request[c].op) \in {"canceling", "paused", "running", "queued"}
        /\ ApiTo(request[c].op) = "queued" => request[c].op = "retry"
    BY <1>7, RequestTyped DEF ApiWrite, ApiTo, ApiOp
  <2>2. PICK r : Write(request[c].id, ApiTo(request[c].op), "null", r)
    BY <1>7 DEF ApiWrite
  <2>3. tasks'[request[c].id].status = "queued" /\ tasks[request[c].id].status # "queued"
          => request[c].op = "retry" /\ Exists(request[c].id)
    BY <2>1, <2>2 DEF Write, UpdateStatus, Typed, TypeOK, Row
  <2>4. \A t \in TaskId \ {request[c].id} : tasks'[t] = tasks[t]
    BY <2>1, <2>2 DEF Write, UpdateStatus, Typed, TypeOK
  <2>5. QED
    BY <1>7, <2>1, <2>3, <2>4 DEF ApiWrite, RunsOwed
<1>8. ASSUME NEW c \in Client, ApiDelete(c) PROVE RunsOwed'
  BY <1>8, RequestTyped DEF ApiDelete, DeleteRow, RunsOwed, Typed, TypeOK, Row
<1>9. ASSUME StartWrite PROVE RunsOwed'
  <2>1. /\ worker'.batch = worker.batch /\ worker'.pc # "starting"
        /\ worker'.pc # "idle" => worker'.cur = worker.cur
    BY <1>9 DEF StartWrite, Release, Typed, TypeOK, WorkerState
  <2>2. worker.cur \in TaskId /\ worker.pc = "starting"
    BY <1>9 DEF StartWrite, Typed, HoldsTask
  <2>3. \A t \in TaskId : tasks'[t].status = "queued" => t \in owed'
    BY <1>9, <2>2 DEF StartWrite, Write, UpdateStatus, Exists, RunsOwed, Typed, TypeOK, Row, Status
  <2>4. QED
    BY <1>9, <2>1, <2>2, <2>3 DEF StartWrite, RunsOwed
<1>10. ASSUME FetchBatch \/ FetchEnd PROVE RunsOwed'
  BY <1>10 DEF FetchBatch, FetchEnd, NextAttempt, Failed, RunsOwed, Typed, TypeOK, WorkerState
<1>11. ASSUME FloodWrite PROVE RunsOwed'
  <2>1. /\ worker'.batch = worker.batch /\ worker'.cur = worker.cur
        /\ worker'.pc # "starting" /\ worker.pc # "idle"
    BY <1>11 DEF FloodWrite, AfterFlood, NextAttempt, Failed, Typed, TypeOK, WorkerState
  <2>2. QED
    BY <1>11, <2>1, WriteOwed DEF FloodWrite, Status, Typed, HoldsTask
<1>12. ASSUME FinishWrite PROVE RunsOwed'
  <2>1. worker.cur \in TaskId /\ worker.to \in {"succeeded", "failed", "canceled"}
    BY <1>12 DEF FinishWrite, Typed, TypeOK, HoldsTask, WorkerState
  <2>2. worker'.batch = worker.batch /\ worker'.pc = "idle"
    BY <1>12 DEF FinishWrite, Release, Typed, TypeOK, WorkerState
  <2>3. QED
    BY <1>12, <2>1, <2>2, WriteOwed DEF FinishWrite, Status
<1>13. ASSUME ListQueued PROVE RunsOwed'
  BY <1>13 DEF ListQueued, Queued, history, RunsOwed, Typed, TypeOK, WorkerState
<1>14. ASSUME StartCheck PROVE RunsOwed'
  <2>1. worker \in WorkerState /\ worker.batch \subseteq owed
    BY DEF Typed, TypeOK, RunsOwed
  <2>2. PICK t \in worker.batch :
          worker' = IF tasks[t].status \in StartFrom
                    THEN [worker EXCEPT !.pc = "starting", !.cur = t, !.batch = @ \ {t}]
                    ELSE [worker EXCEPT !.batch = @ \ {t}]
    BY <1>14 DEF StartCheck
  <2>3. QED
    BY <1>14, <2>1, <2>2 DEF StartCheck, history, RunsOwed, WorkerState
<1>15. ASSUME WorkerReads, ~ListQueued, ~StartCheck PROVE RunsOwed'
  <2>1. /\ worker'.batch = worker.batch /\ worker.pc # "idle"
        /\ worker'.pc # "starting"
        /\ worker'.pc # "idle" => worker'.cur = worker.cur
    BY <1>15 DEF WorkerReads, HandlerCheck, AccountNotReady, FetchError, FloodCheck,
        HandlerReturned, FinishCheck, NextAttempt, AfterFlood, Failed, Release, Typed,
        TypeOK, WorkerState
  <2>2. QED
    BY <1>15, <2>1, WorkerReadsFrame DEF history, RunsOwed
<1>16. ASSUME OthersRead PROVE RunsOwed'
  <2>1. worker' = worker \/ worker' = IdleWorker
    BY <1>16 DEF OthersRead, ApiCheck, Boot, Ready, Crash
  <2>2. QED
    BY <1>16, <2>1, OthersReadFrame DEF IdleWorker, history, RunsOwed
<1>17. CASE UNCHANGED vars
  BY <1>17 DEF vars, RunsOwed
<1>18. QED
  BY <1>1, <1>2, <1>3, <1>4, <1>5, <1>6, <1>7, <1>8, <1>9, <1>10, <1>11, <1>12, <1>13,
     <1>14, <1>15, <1>16, <1>17, Cases

\* The worker enters a handler at most once for each time the row was queued,
\* although the list it works through may be stale.
THEOREM OneRunCorrect == Spec => OneRunPerQueueing
<1>1. Spec => []Typed
  BY TypedInit, TypedStep, PTL DEF Spec
<1>2. Spec => []RunsOwed
  BY <1>1, OwedInit, OwedStep, PTL DEF Spec
<1>3. RunsOwed => (worker.pc = "starting" /\ worker'.pc = "checking" => worker.cur \in owed)
  BY DEF RunsOwed
<1>4. QED
  BY <1>2, <1>3, PTL DEF OneRunPerQueueing
-----------------------------------------------------------------------------
(* Restarts.  Until the service is up nothing of the process that exited     *)
(* runs, so only RestoreTask and the clock change rows; what is not to be    *)
(* restored is finished, queued or waiting.                                  *)

Quiet ==
    host # "up" => /\ worker = IdleWorker
                   /\ request = [c \in Client |-> Idle]
                   /\ syncer = [t \in TaskId |-> "none"]

Settled(t) ==
    \/ tasks[t].status \in {"queued", "succeeded", "failed", "canceled"}
    \/ tasks[t].status = "flood_wait" /\ tasks[t].next # "null"

RestoreComplete ==
    host = "booting" =>
        /\ \A t \in TaskId : Exists(t) => t \in restoring \/ Settled(t)
        /\ \A t \in restoring : tasks[t].status \in RestartFrom /\ tasks[t].next # "future"

Restoring == Quiet /\ RestoreComplete

LEMMA QuietSteps ==
    ASSUME Typed, Quiet, host # "up", [Next]_vars
    PROVE  \/ \E t \in TaskId : TimePasses(t) \/ RestoreTask(t)
           \/ Boot \/ Ready \/ Crash
           \/ UNCHANGED vars
<1>1. \A t \in TaskId : ~Enqueue(t) /\ ~EnqueueGap(t) /\ ~CreateMetadataSync(t) /\ ~DeleteOldTask(t)
  BY DEF Enqueue, EnqueueGap, CreateMetadataSync, DeleteOldTask
<1>2. \A t \in TaskId : ~SyncerStart(t) /\ ~SyncerReturn(t) /\ ~SyncerFinish(t)
  BY DEF Quiet, SyncerStart, SyncerReturn, SyncerFinish
<1>3. \A c \in Client : /\ ~ApiWrite(c) /\ ~ApiDelete(c)
                        /\ \A op \in ApiOp, t \in TaskId : ~ApiCheck(c, op, t)
  BY DEF Quiet, ApiWrite, ApiDelete, ApiCheck
<1>4. ~Worker
  <2>1. worker.pc = "idle" /\ worker.batch = {}
    BY DEF Quiet, IdleWorker
  <2>2. ~ListQueued /\ ~StartCheck
    BY <2>1 DEF ListQueued, StartCheck
  <2>3. ~StartWrite /\ ~HandlerCheck /\ ~AccountNotReady /\ ~FetchBatch /\ ~FetchEnd
    BY <2>1 DEF StartWrite, HandlerCheck, AccountNotReady, FetchBatch, FetchEnd
  <2>4. ~FetchError /\ ~FloodCheck /\ ~FloodWrite /\ ~HandlerReturned /\ ~FinishCheck /\ ~FinishWrite
    BY <2>1 DEF FetchError, FloodCheck, FloodWrite, HandlerReturned, FinishCheck, FinishWrite
  <2>5. QED
    BY <2>2, <2>3, <2>4 DEF Worker
<1>5. QED
  BY <1>1, <1>2, <1>3, <1>4 DEF Next, Syncer, Start

LEMMA RestoringInit == Init => Restoring
  BY DEF Init, Restoring, Quiet, RestoreComplete

LEMMA RestoringStep ==
    Typed /\ DeadlineIffFloodWait /\ Restoring /\ [Next]_vars => Restoring'
<1> SUFFICES ASSUME Typed, DeadlineIffFloodWait, Restoring, [Next]_vars PROVE Restoring'
  OBVIOUS
<1>1. CASE host = "up"
  <2>1. CASE Crash
    BY <2>1 DEF Crash, Restoring, Quiet, RestoreComplete
  <2>2. CASE ~Crash
    <3>1. host' = "up"
      BY <1>1, <2>2 DEF Next, Worker, Syncer, Start, Enqueue, EnqueueGap,
         CreateMetadataSync, SyncerStart, SyncerReturn, SyncerFinish, TimePasses,
         DeleteOldTask, ListQueued, StartCheck, StartWrite, HandlerCheck, AccountNotReady,
         FetchBatch, FetchEnd, FetchError, FloodCheck, FloodWrite, HandlerReturned,
         FinishCheck, FinishWrite, ApiCheck, ApiWrite, ApiDelete, Boot, Ready, RestoreTask,
         process, vars
    <3>2. QED
      BY <3>1 DEF Restoring, Quiet, RestoreComplete
  <2>3. QED
    BY <2>1, <2>2
<1>2. CASE host # "up"
  <2>1. ASSUME NEW t \in TaskId, TimePasses(t) PROVE Restoring'
    <3>1. UNCHANGED <<worker, request, syncer, process>>
      BY <2>1 DEF TimePasses
    <3>2. \A u \in TaskId : /\ tasks'[u].status = tasks[u].status
                            /\ tasks'[u].next = tasks[u].next \/ tasks'[u].next = "due"
      BY <2>1 DEF TimePasses, Typed, TypeOK, Row
    <3>3. restoring \subseteq TaskId
      BY DEF Typed, TypeOK
    <3>4. QED
      BY <3>1, <3>2, <3>3 DEF process, Restoring, Quiet, RestoreComplete, Settled, Exists
  <2>2. ASSUME NEW t \in TaskId, RestoreTask(t) PROVE Restoring'
    <3>1. UNCHANGED <<worker, request, syncer, host>> /\ restoring' = restoring \ {t}
      BY <2>2 DEF RestoreTask
    <3>2. /\ \A u \in TaskId \ {t} : tasks'[u] = tasks[u]
          /\ Exists(t)' => tasks'[t].status = "queued"
      BY <2>2 DEF RestoreTask, Write, UpdateStatus, Exists, Typed, TypeOK, Row
    <3>3. restoring \subseteq TaskId
      BY DEF Typed, TypeOK
    <3>4. QED
      BY <3>1, <3>2, <3>3 DEF Restoring, Quiet, RestoreComplete, Settled, Exists
  <2>3. ASSUME Boot PROVE Restoring'
    <3>1. UNCHANGED <<tasks, worker, request, syncer>> /\ restoring' = Restartable
      BY <2>3 DEF Boot
    <3>2. \A t \in TaskId : Exists(t) => t \in Restartable \/ Settled(t)
      BY DEF Exists, Status, Restartable, RestartFrom, Settled, DeadlineIffFloodWait
    <3>3. QED
      BY <1>2, <3>1, <3>2 DEF Restoring, Quiet, RestoreComplete, Exists, Settled, Restartable
  <2>4. ASSUME Ready \/ Crash PROVE Restoring'
    BY <2>4 DEF Ready, Crash, Restoring, Quiet, RestoreComplete
  <2>5. CASE UNCHANGED vars
    BY <2>5 DEF vars, Restoring, Quiet, RestoreComplete, Settled, Exists
  <2>6. QED
    BY <1>2, <2>1, <2>2, <2>3, <2>4, <2>5, QuietSteps DEF Restoring
<1>3. QED
  BY <1>1, <1>2

LEMMA RestoringAlways == Spec => [](Typed /\ Restoring)
<1>1. Spec => []Typed
  BY TypedInit, TypedStep, PTL DEF Spec
<1>2. Spec => []DeadlineIffFloodWait
  BY DeadlineCorrect
<1>3. QED
  BY <1>1, <1>2, RestoringInit, RestoringStep, PTL DEF Spec

\* When the service is up again, however often it crashed while it restored,
\* no row waits for a process that is gone.
THEOREM RestartComplete == Spec => RestartLeavesNoOrphan
<1>1. ASSUME Typed, Restoring, [Next]_vars, host = "booting", host' = "up",
             NEW t \in TaskId, Exists(t)
      PROVE  Settled(t)
  <2>1. Ready
    BY <1>1, QuietSteps DEF Restoring, TimePasses, RestoreTask, Boot, Crash, process, vars
  <2>2. QED
    BY <1>1, <2>1 DEF Ready, Restoring, RestoreComplete
<1>2. Typed /\ Restoring /\ [Next]_vars =>
        (host = "booting" /\ host' = "up" => \A t \in TaskId : Exists(t) => Settled(t))
  BY <1>1
<1>3. QED
  BY <1>2, RestoringAlways, PTL DEF Spec, RestartLeavesNoOrphan, Settled

\* A restart touches neither a finished row nor a flood_wait that still runs.
THEOREM RestartFaithful == Spec => RestartKeepsOutcomes
<1> DEFINE Outcome(t) == \/ tasks[t].status \in {"succeeded", "failed", "canceled"}
                         \/ tasks[t].status = "flood_wait" /\ tasks[t].next = "future"
<1>1. ASSUME Typed, Restoring, [Next]_vars, host = "booting", NEW t \in TaskId, Outcome(t)
      PROVE  tasks'[t].status = tasks[t].status
  <2>1. ASSUME NEW u \in TaskId, TimePasses(u) PROVE tasks'[t].status = tasks[t].status
    BY <2>1 DEF TimePasses, Typed, TypeOK, Row
  <2>2. ASSUME NEW u \in TaskId, RestoreTask(u) PROVE tasks'[t].status = tasks[t].status
    <3>1. u # t
      BY <1>1, <2>2 DEF RestoreTask, Restoring, RestoreComplete, RestartFrom
    <3>2. QED
      BY <2>2, <3>1 DEF RestoreTask, Write, UpdateStatus, Typed, TypeOK
  <2>3. QED
    BY <1>1, <2>1, <2>2, QuietSteps DEF Restoring, Boot, Ready, Crash, vars
<1>2. Typed /\ Restoring /\ [Next]_vars =>
        (host = "booting" =>
           \A t \in TaskId : Outcome(t) => tasks'[t].status = tasks[t].status)
  BY <1>1
<1>3. QED
  BY <1>2, RestoringAlways, PTL DEF Spec, RestartKeepsOutcomes
=============================================================================
