------------------------------ MODULE TaskQueue ------------------------------
(***************************************************************************)
(* The persistent task queue: the rows of sync_tasks, the single task      *)
(* worker, the requests of the task API, the goroutine behind a            *)
(* metadata_sync row, the retention job and the restart of the process.    *)
(*                                                                         *)
(* The database has one writer connection, so every SQL statement is       *)
(* atomic; a Go method that issues several of them is several steps here.  *)
(* In particular Service.transition reads the row, checks the status in Go *)
(* and then issues an UPDATE that does not mention the status it read.     *)
(*                                                                         *)
(* Abstracted: message, progress, error and timestamp columns; payloads;   *)
(* the order of List (updated_at DESC), replaced by any order.  A task     *)
(* works on one channel.                                                   *)
(***************************************************************************)
EXTENDS Naturals, FiniteSets

CONSTANTS
    TaskId,      \* the ids that AUTOINCREMENT will hand out
    KindOf,      \* the type column of each row, fixed by its INSERT
    Client,      \* API requests that can be in progress together
    NoTask,      \* "the worker holds no task"
    Batches,     \* message batches a handler stores before it is done
    BatchSize,   \* WorkerOptions.BatchSize: rows one List returns
    MaxTries,    \* retry.Policy.MaxTries
    MaxRetries,  \* bound: manual retries of a row
    MaxCrashes   \* bound: process exits

Kind == {"history_sync", "gap_recovery", "ai_media_metadata",
         "repair_media_title", "metadata_sync"}

ASSUME TaskQueueAssumption ==
    /\ NoTask \notin TaskId
    /\ KindOf \in [TaskId -> Kind]
    /\ Batches \in Nat \ {0}
    /\ BatchSize \in Nat \ {0}
    /\ MaxTries \in Nat \ {0}
    /\ MaxRetries \in Nat
    /\ MaxCrashes \in Nat

\* Handlers that read the status of their row between two batches.
Cooperative == {"history_sync", "gap_recovery"}

\* Types the worker was given a handler for.
Handled == Kind \ {"metadata_sync"}

Status == {"queued", "running", "succeeded", "failed", "canceling", "canceled",
           "paused", "flood_wait", "reconnecting"}

\* A row before its INSERT and after its DELETE: ids are never reused.
NoRow == {"absent", "deleted"}

\* next_run_at: NULL, later than now, or not later than now.
NextRun == {"null", "future", "due"}

Row == [status : Status \cup NoRow, next : NextRun, retries : Nat]

ApiOp == {"cancel", "pause", "resume", "retry", "delete"}
Idle == [op |-> "none"]
Pending == [op : ApiOp, id : TaskId, retries : Nat]

WorkerPc == {"idle", "starting", "checking", "fetching", "flood", "flooding",
             "returned", "recheck", "finishing"}

SyncerPc == {"none", "spawned", "syncing", "succeeded", "failed"}

VARIABLES
    tasks,       \* sync_tasks
    worker,      \* the worker goroutine and the handler it is calling
    request,     \* a request whose check passed and whose write is to come
    syncer,      \* the goroutine of syncAccountChannels, per metadata_sync row
    host,        \* "down", "booting" (RestoreUnfinished) or "up"
    restoring,   \* rows RestoreUnfinished has listed and not written yet
    crashes,     \* process exits so far
    completed,   \* history: tasks whose work was once carried out to its end
    owed,        \* history: tasks queued and not started since
    lateBatches  \* history: batches stored since the row became canceling

vars == <<tasks, worker, request, syncer, host, restoring, crashes,
          completed, owed, lateBatches>>
history == <<completed, owed, lateBatches>>
process == <<host, restoring, crashes>>

WorkerState == [pc : WorkerPc, batch : SUBSET TaskId, cur : TaskId \cup {NoTask},
                left : 0..Batches, attempt : 0..MaxTries,
                to : {"none", "succeeded", "failed", "canceled"}]

IdleWorker == [pc |-> "idle", batch |-> {}, cur |-> NoTask, left |-> 0,
               attempt |-> 0, to |-> "none"]

TypeOK ==
    /\ tasks \in [TaskId -> Row]
    /\ worker \in WorkerState
    /\ request \in [Client -> {Idle} \cup Pending]
    /\ syncer \in [TaskId -> SyncerPc]
    /\ host \in {"down", "booting", "up"}
    /\ restoring \subseteq TaskId
    /\ crashes \in 0..MaxCrashes
    /\ completed \subseteq TaskId
    /\ owed \subseteq TaskId
    /\ lateBatches \in [TaskId -> Nat]

-----------------------------------------------------------------------------
(* The repository: one statement each. *)

Exists(t) == tasks[t].status \in Status

\* Variant: next_run_at is kept, like retry_count, when the caller gives none.
UpdateStatusKeepingNext(t, status, next, retries) ==
    IF Exists(t)
    THEN [tasks EXCEPT ![t] = [status |-> status, retries |-> retries,
                               next |-> IF next = "null" THEN @.next ELSE next]]
    ELSE tasks

\* UPDATE sync_tasks SET status, next_run_at, retry_count WHERE id = t.  The
\* status is written whatever it was; next_run_at is overwritten, with NULL
\* when the caller gives none; retry_count is kept when the caller gives none.
UpdateStatus(t, status, next, retries) ==
    IF Exists(t)
    THEN [tasks EXCEPT ![t] = [status |-> status, next |-> next, retries |-> retries]]
    ELSE tasks

DeleteRow(t) == [tasks EXCEPT ![t].status = IF Exists(t) THEN "deleted" ELSE @]

\* The write of a row together with what the history variables record of it.
Write(t, status, next, retries) ==
    /\ tasks' = UpdateStatus(t, status, next, retries)
    /\ lateBatches' = IF status = "canceling" THEN lateBatches
                      ELSE [lateBatches EXCEPT ![t] = 0]

\* Statuses from which each transition of the service is allowed.
StartFrom == {"queued", "paused", "reconnecting"}
FinishFrom(to) == IF to = "canceled" THEN {"canceling"} ELSE {"running"}
ApiFrom(op) ==
    CASE op = "cancel" -> {"running", "paused", "flood_wait", "reconnecting"}
      [] op = "pause"  -> {"running"}
      [] op = "resume" -> {"paused"}
      [] op = "retry"  -> {"failed", "flood_wait", "reconnecting"}
      [] op = "delete" -> Status \ {"running", "canceling"}
ApiTo(op) ==
    CASE op = "cancel" -> "canceling"
      [] op = "pause"  -> "paused"
      [] op = "resume" -> "running"
      [] op = "retry"  -> "queued"

-----------------------------------------------------------------------------
(* Enqueueing. *)

Insert(t) ==
    /\ tasks' = [tasks EXCEPT ![t] = [status |-> "queued", next |-> "null", retries |-> 0]]
    /\ owed' = owed \cup {t}

Enqueue(t) ==
    /\ host = "up"
    /\ tasks[t].status = "absent"
    /\ KindOf[t] \notin {"gap_recovery", "metadata_sync"}
    /\ Insert(t)
    /\ UNCHANGED <<worker, request, syncer, process, completed, lateBatches>>

QueuedGaps == {g \in TaskId : KindOf[g] = "gap_recovery" /\ tasks[g].status = "queued"}

\* CoalesceGapRecovery, one transaction: with queued gap tasks for the channel
\* the widest one is extended and the others are deleted, otherwise one row is
\* inserted.  Which row is the widest is left open.
EnqueueGap(t) ==
    /\ host = "up"
    /\ KindOf[t] = "gap_recovery"
    /\ \/ /\ QueuedGaps = {}
          /\ tasks[t].status = "absent"
          /\ Insert(t)
       \/ /\ t \in QueuedGaps
          /\ tasks' = [g \in TaskId |-> IF g \in QueuedGaps \ {t}
                                        THEN [tasks[g] EXCEPT !.status = "deleted"]
                                        ELSE tasks[g]]
          /\ UNCHANGED owed
    /\ UNCHANGED <<worker, request, syncer, process, completed, lateBatches>>

\* syncAccountChannels creates a queued row and starts its own goroutine.
CreateMetadataSync(t) ==
    /\ host = "up"
    /\ tasks[t].status = "absent"
    /\ KindOf[t] = "metadata_sync"
    /\ Insert(t)
    /\ syncer' = [syncer EXCEPT ![t] = "spawned"]
    /\ UNCHANGED <<worker, request, process, completed, lateBatches>>

-----------------------------------------------------------------------------
(* The goroutine of a metadata_sync row.  It writes with UpdateStatus and    *)
(* never looks at the status before it does.                                 *)

SyncerStart(t) ==
    /\ syncer[t] = "spawned"
    /\ syncer' = [syncer EXCEPT ![t] = "syncing"]
    /\ Write(t, "running", "null", tasks[t].retries)
    /\ UNCHANGED <<worker, request, process, completed, owed>>

\* SyncAccountWithProgress returns; a canceling row makes it return an error,
\* but only when a channel is still left to check it for.
SyncerReturn(t) ==
    /\ syncer[t] = "syncing"
    /\ \E outcome \in {"succeeded", "failed"} :
          /\ syncer' = [syncer EXCEPT ![t] = outcome]
          /\ completed' = IF outcome = "succeeded" THEN completed \cup {t} ELSE completed
    /\ UNCHANGED <<tasks, worker, request, process, owed, lateBatches>>

SyncerFinish(t) ==
    /\ syncer[t] \in {"succeeded", "failed"}
    /\ syncer' = [syncer EXCEPT ![t] = "none"]
    /\ Write(t, syncer[t], "null", tasks[t].retries)
    /\ UNCHANGED <<worker, request, process, completed, owed>>

Syncer(t) == SyncerStart(t) \/ SyncerReturn(t) \/ SyncerFinish(t)

-----------------------------------------------------------------------------
(* The worker: ProcessOnce, processTask and the handler it calls.            *)

Queued == {t \in TaskId : tasks[t].status = "queued"}

\* List returns up to BatchSize queued rows; they are processed one by one.
ListQueued ==
    /\ host = "up"
    /\ worker.pc = "idle" /\ worker.batch = {}
    /\ Queued # {}
    /\ \E b \in SUBSET Queued :
          /\ \/ b = Queued /\ Cardinality(b) <= BatchSize
             \/ Cardinality(b) = BatchSize
          /\ worker' = [worker EXCEPT !.batch = b]
    /\ UNCHANGED <<tasks, request, syncer, process, history>>

\* The worker is done with its task, whatever became of the row.
Release == worker' = [worker EXCEPT !.pc = "idle", !.cur = NoTask, !.left = 0,
                                    !.attempt = 0, !.to = "none"]

\* Variant: the row that is started stays in the list.
StartCheckAgain ==
    /\ worker.pc = "idle"
    /\ \E t \in worker.batch :
          IF tasks[t].status \in StartFrom
          THEN worker' = [worker EXCEPT !.pc = "starting", !.cur = t]
          ELSE worker' = [worker EXCEPT !.batch = @ \ {t}]
    /\ UNCHANGED <<tasks, request, syncer, process, history>>

\* Variant: a row that cannot be started is tried again and again.
StartCheckBlocking ==
    /\ worker.pc = "idle"
    /\ \E t \in worker.batch :
          /\ tasks[t].status \in StartFrom
          /\ worker' = [worker EXCEPT !.pc = "starting", !.cur = t, !.batch = @ \ {t}]
    /\ UNCHANGED <<tasks, request, syncer, process, history>>

\* Service.Start reads the row; a row that is gone or cannot start is skipped.
StartCheck ==
    /\ worker.pc = "idle"
    /\ \E t \in worker.batch :
          IF tasks[t].status \in StartFrom
          THEN worker' = [worker EXCEPT !.pc = "starting", !.cur = t,
                                        !.batch = @ \ {t}]
          ELSE worker' = [worker EXCEPT !.batch = @ \ {t}]
    /\ UNCHANGED <<tasks, request, syncer, process, history>>

\* Only the handler of history_sync checks once before its first attempt
\* (attempt 0); the others have a single attempt.
FirstAttempt(kind) == IF kind = "history_sync" THEN 0 ELSE MaxTries
BatchesOf(kind) == IF kind = "ai_media_metadata" THEN 1 ELSE Batches

\* Service.Start writes "running"; then the handler is entered, or the task
\* fails as unsupported.
StartWrite ==
    LET t == worker.cur IN
    /\ worker.pc = "starting"
    /\ Write(t, "running", "null", tasks[t].retries)
    /\ owed' = IF Exists(t) THEN owed \ {t} ELSE owed
    /\ IF ~Exists(t) THEN Release
       ELSE IF KindOf[t] \in Handled
       THEN worker' = [worker EXCEPT !.pc = "checking", !.left = BatchesOf(KindOf[t]),
                                     !.attempt = FirstAttempt(KindOf[t])]
       ELSE worker' = [worker EXCEPT !.pc = "recheck", !.to = "failed"]
    /\ UNCHANGED <<request, syncer, process, completed>>

\* The handler returns an error: retried from the newest message while the
\* policy has attempts left, otherwise the worker goes on to Service.Fail.
Failed == worker' = [worker EXCEPT !.pc = "recheck", !.to = "failed"]
NextAttempt ==
    IF worker.attempt \in 1..(MaxTries - 1)
    THEN worker' = [worker EXCEPT !.pc = "checking", !.attempt = @ + 1, !.left = Batches]
    ELSE Failed

\* Variant: a paused task makes the handler return without an error.
HandlerCheckPauseIsDone ==
    LET status == tasks[worker.cur].status IN
    /\ worker.pc = "checking"
    /\ IF KindOf[worker.cur] \in Cooperative /\ status = "paused"
       THEN worker' = [worker EXCEPT !.pc = "returned", !.to = "succeeded"]
       ELSE worker' = [worker EXCEPT !.pc = "fetching"]
    /\ UNCHANGED <<tasks, request, syncer, process, history>>

\* Variant: the row is looked at before the first batch of an attempt only.
HandlerCheckOnce ==
    LET status == tasks[worker.cur].status IN
    /\ worker.pc = "checking"
    /\ IF worker.left = Batches /\ status \in {"canceling", "canceled"}
       THEN worker' = [worker EXCEPT !.pc = "returned", !.to = "canceled"]
       ELSE worker' = [worker EXCEPT !.pc = "fetching"]
    /\ UNCHANGED <<tasks, request, syncer, process, history>>

\* checkTaskStatus.  A paused or missing row is an error that retry.Classify
\* calls temporary; canceling is context.Canceled, which it calls permanent.
HandlerCheck ==
    LET status == tasks[worker.cur].status IN
    /\ worker.pc = "checking"
    /\ IF KindOf[worker.cur] \notin Cooperative
       THEN worker' = [worker EXCEPT !.pc = "fetching"]
       ELSE IF status \in {"canceling", "canceled"}
       THEN worker' = [worker EXCEPT !.pc = "returned", !.to = "canceled"]
       ELSE IF status \in {"paused"} \cup NoRow
       THEN NextAttempt
       ELSE IF worker.attempt = 0
       THEN worker' = [worker EXCEPT !.attempt = 1]
       ELSE worker' = [worker EXCEPT !.pc = "fetching"]
    /\ UNCHANGED <<tasks, request, syncer, process, history>>

\* ensureAccountReady, at the head of an attempt: an account that is not
\* online ends the handler, one in flood_wait defers the task first.
AccountNotReady ==
    /\ worker.pc = "checking"
    /\ KindOf[worker.cur] \in Cooperative
    /\ worker.attempt > 0 /\ worker.left = Batches
    /\ \/ Failed
       \/ worker' = [worker EXCEPT !.pc = "flood"]
    /\ UNCHANGED <<tasks, request, syncer, process, history>>

\* Variant: the last batch does not end the loop.
FetchBatchOnceMore ==
    /\ worker.pc = "fetching"
    /\ worker' = [worker EXCEPT !.pc = "checking", !.left = @ - 1]
    /\ UNCHANGED <<tasks, request, syncer, process, history>>

\* A batch is fetched and stored and its progress appended; only
\* repair_media_title goes on when the row is gone.
FetchBatch ==
    LET t == worker.cur IN
    /\ worker.pc = "fetching"
    /\ worker.left > 0
    /\ lateBatches' = IF tasks[t].status = "canceling"
                      THEN [lateBatches EXCEPT ![t] = @ + 1] ELSE lateBatches
    /\ IF Exists(t) \/ KindOf[t] = "repair_media_title"
       THEN worker' = [worker EXCEPT !.pc = "checking", !.left = @ - 1]
       ELSE NextAttempt
    /\ UNCHANGED <<tasks, request, syncer, process, completed, owed>>

\* Nothing is left to fetch: the last progress is written, the handler is done.
FetchEnd ==
    LET t == worker.cur IN
    /\ worker.pc = "fetching"
    /\ worker.left = 0
    /\ IF Exists(t) \/ KindOf[t] = "repair_media_title"
       THEN /\ worker' = [worker EXCEPT !.pc = "returned", !.to = "succeeded"]
            /\ completed' = completed \cup {t}
       ELSE Failed /\ UNCHANGED completed
    /\ UNCHANGED <<tasks, request, syncer, process, owed, lateBatches>>

\* The call fails: temporarily, for good, or (Telegram only) with a flood wait.
FetchError ==
    /\ worker.pc = "fetching"
    /\ \/ NextAttempt
       \/ Failed
       \/ /\ KindOf[worker.cur] \in Cooperative
          /\ worker' = [worker EXCEPT !.pc = "flood", !.to = "failed"]
    /\ UNCHANGED <<tasks, request, syncer, process, history>>

\* After notifyFloodWait, whose error is dropped: the deferred error of a fetch
\* ends the handler, the one of an account in flood_wait counts as temporary.
AfterFlood == IF worker.to = "failed" THEN Failed ELSE NextAttempt

FloodCheck ==
    /\ worker.pc = "flood"
    /\ IF tasks[worker.cur].status = "running"
       THEN worker' = [worker EXCEPT !.pc = "flooding"]
       ELSE AfterFlood
    /\ UNCHANGED <<tasks, request, syncer, process, history>>

FloodWrite ==
    /\ worker.pc = "flooding"
    /\ Write(worker.cur, "flood_wait", "future", tasks[worker.cur].retries)
    /\ AfterFlood
    /\ UNCHANGED <<request, syncer, process, completed, owed>>

\* The worker looks at the row before it decides how to finish it.
HandlerReturned ==
    LET status == tasks[worker.cur].status IN
    /\ worker.pc = "returned"
    /\ IF status = "canceling"
       THEN worker' = [worker EXCEPT !.pc = "recheck", !.to = "canceled"]
       ELSE IF status = "running" /\ worker.to = "succeeded"
       THEN worker' = [worker EXCEPT !.pc = "recheck"]
       ELSE Release
    /\ UNCHANGED <<tasks, request, syncer, process, history>>

\* Succeed, Fail and MarkCanceled read the row again ...
FinishCheck ==
    /\ worker.pc = "recheck"
    /\ IF tasks[worker.cur].status \in FinishFrom(worker.to)
       THEN worker' = [worker EXCEPT !.pc = "finishing"]
       ELSE Release
    /\ UNCHANGED <<tasks, request, syncer, process, history>>

\* ... and then write it.
FinishWrite ==
    /\ worker.pc = "finishing"
    /\ Write(worker.cur, worker.to, "null", tasks[worker.cur].retries)
    /\ Release
    /\ UNCHANGED <<request, syncer, process, completed, owed>>

Worker ==
    \/ ListQueued \/ StartCheck \/ StartWrite
    \/ HandlerCheck \/ AccountNotReady \/ FetchBatch \/ FetchEnd \/ FetchError
    \/ FloodCheck \/ FloodWrite
    \/ HandlerReturned \/ FinishCheck \/ FinishWrite

-----------------------------------------------------------------------------
(* The task API: the check of a request and its write are two steps.        *)

ApiCheck(c, op, t) ==
    /\ host = "up"
    /\ request[c] = Idle
    /\ tasks[t].status \in ApiFrom(op)
    /\ op = "retry" => tasks[t].retries < MaxRetries
    /\ request' = [request EXCEPT ![c] = [op |-> op, id |-> t, retries |-> tasks[t].retries]]
    /\ UNCHANGED <<tasks, worker, syncer, process, history>>

ApiWrite(c) ==
    LET r == request[c] IN
    /\ r # Idle /\ r.op # "delete"
    /\ request' = [request EXCEPT ![c] = Idle]
    /\ Write(r.id, ApiTo(r.op), "null",
             IF r.op = "retry" THEN r.retries + 1 ELSE tasks[r.id].retries)
    /\ owed' = IF r.op = "retry" /\ Exists(r.id) THEN owed \cup {r.id} ELSE owed
    /\ UNCHANGED <<worker, syncer, process, completed>>

ApiDelete(c) ==
    LET r == request[c] IN
    /\ r # Idle /\ r.op = "delete"
    /\ request' = [request EXCEPT ![c] = Idle]
    /\ tasks' = DeleteRow(r.id)
    /\ lateBatches' = [lateBatches EXCEPT ![r.id] = 0]
    /\ UNCHANGED <<worker, syncer, process, completed, owed>>

-----------------------------------------------------------------------------
(* Time, the retention job, and the process itself.                          *)

\* The clock passes next_run_at.
TimePasses(t) ==
    /\ tasks[t].next = "future"
    /\ tasks' = [tasks EXCEPT ![t].next = "due"]
    /\ UNCHANGED <<worker, request, syncer, process, history>>

\* CleanupJob deletes rows left alone for days in a status it has a policy for;
\* neither the worker, a request nor a goroutine holds on to a row that long.
Retained == {"succeeded", "failed", "canceled", "paused", "flood_wait", "reconnecting"}
InUse(t) ==
    \/ worker.cur = t
    \/ t \in worker.batch
    \/ syncer[t] # "none"
    \/ \E c \in Client : request[c] # Idle /\ request[c].id = t

DeleteOldTask(t) ==
    /\ host = "up"
    /\ tasks[t].status \in Retained
    /\ ~InUse(t)
    /\ tasks' = DeleteRow(t)
    /\ UNCHANGED <<worker, request, syncer, process, history>>

\* A crash, or a shutdown that cancels the worker's context: every database
\* call of the worker fails from then on, so its task stays as it is.
Crash ==
    /\ host # "down"
    /\ crashes < MaxCrashes
    /\ crashes' = crashes + 1
    /\ host' = "down"
    /\ restoring' = {}
    /\ worker' = IdleWorker
    /\ request' = [c \in Client |-> Idle]
    /\ syncer' = [t \in TaskId |-> "none"]
    /\ UNCHANGED <<tasks, history>>

\* Variant: canceling is left out of the statuses to restore.
RestartFromWithoutCanceling == {"running", "paused", "flood_wait", "reconnecting"}

\* ListRestartable: rows that were being worked on and whose next_run_at is
\* NULL or not in the future.
RestartFrom == {"running", "canceling", "paused", "flood_wait", "reconnecting"}

\* Variant: next_run_at is not looked at.
RestartableAnyTime == {t \in TaskId : tasks[t].status \in RestartFrom}

Restartable == {t \in TaskId : tasks[t].status \in RestartFrom /\ tasks[t].next # "future"}

Boot ==
    /\ host = "down"
    /\ host' = "booting"
    /\ restoring' = Restartable
    /\ UNCHANGED <<tasks, worker, request, syncer, crashes, history>>

RestoreTask(t) ==
    /\ host = "booting"
    /\ t \in restoring
    /\ restoring' = restoring \ {t}
    /\ Write(t, "queued", "null", tasks[t].retries)
    /\ owed' = IF Exists(t) THEN owed \cup {t} ELSE owed
    /\ UNCHANGED <<worker, request, syncer, host, crashes, completed>>

\* RestoreUnfinished has returned; the worker, the API and the jobs start.
Ready ==
    /\ host = "booting"
    /\ restoring = {}
    /\ host' = "up"
    /\ UNCHANGED <<tasks, worker, request, syncer, restoring, crashes, history>>

Init ==
    /\ tasks = [t \in TaskId |-> [status |-> "absent", next |-> "null", retries |-> 0]]
    /\ worker = IdleWorker
    /\ request = [c \in Client |-> Idle]
    /\ syncer = [t \in TaskId |-> "none"]
    /\ host = "down"
    /\ restoring = {}
    /\ crashes = 0
    /\ completed = {}
    /\ owed = {}
    /\ lateBatches = [t \in TaskId |-> 0]

Start == Boot \/ Ready \/ \E t \in TaskId : RestoreTask(t)

Next ==
    \/ \E t \in TaskId : \/ Enqueue(t) \/ EnqueueGap(t) \/ CreateMetadataSync(t)
                         \/ Syncer(t) \/ TimePasses(t) \/ DeleteOldTask(t)
    \/ Worker
    \/ \E c \in Client : \/ \E op \in ApiOp, t \in TaskId : ApiCheck(c, op, t)
                         \/ ApiWrite(c) \/ ApiDelete(c)
    \/ Start
    \/ Crash

Spec == Init /\ [][Next]_vars

\* The goroutines of a live process run, a request that was admitted is
\* carried out, the clock moves and a stopped service is started again.
\* Nothing is assumed of users, and crashes are bounded.
Fairness ==
    /\ WF_vars(Worker)
    /\ WF_vars(Start)
    /\ \A t \in TaskId : WF_vars(Syncer(t)) /\ WF_vars(TimePasses(t))
    /\ \A c \in Client : WF_vars(ApiWrite(c)) /\ WF_vars(ApiDelete(c))

FairSpec == Spec /\ Fairness

-----------------------------------------------------------------------------
(* Properties.                                                               *)

\* next_run_at is set on exactly the rows in flood_wait.  ListRestartable
\* filters every status by next_run_at, so a deadline that outlived its
\* flood_wait would keep an unfinished task from being restored.
DeadlineIffFloodWait ==
    \A t \in TaskId : Exists(t) => (tasks[t].next # "null" <=> tasks[t].status = "flood_wait")

\* A task is shown as succeeded only if its work was carried out to the end,
\* whatever pauses, resumes, retries and crashes came in between.
SucceededMeansRan ==
    \A t \in TaskId : tasks[t].status = "succeeded" => t \in completed

\* Once a row is canceling, a handler that checks its row stores at most the
\* batch it was already fetching (the comment of TestHistorySyncTaskCancelStopsFutureBatches).
CancelStopsBatches ==
    \A t \in TaskId : KindOf[t] \in Cooperative => lateBatches[t] <= 1

\* The worker enters a task's handler at most once for each time the task was
\* put in the queue: the stale list of ProcessOnce never runs a task twice.
OneRunPerQueueing ==
    [][worker.pc = "starting" /\ worker'.pc = "checking" => worker.cur \in owed]_vars

\* When the service is up again no row is left in a status that only a live
\* process can move on, and no deadline that passed before the list is waiting.
RestartLeavesNoOrphan ==
    [][host = "booting" /\ host' = "up" =>
         \A t \in TaskId : Exists(t) =>
            \/ tasks[t].status \in {"queued", "succeeded", "failed", "canceled"}
            \/ tasks[t].status = "flood_wait" /\ tasks[t].next # "null"]_vars

\* Restarting changes no finished task and no flood_wait that is still running
\* (docs/production-deployment-checklist.md:41-42).
RestartKeepsOutcomes ==
    [][host = "booting" =>
         \A t \in TaskId :
            (\/ tasks[t].status \in {"succeeded", "failed", "canceled"}
             \/ tasks[t].status = "flood_wait" /\ tasks[t].next = "future")
            => tasks'[t].status = tasks[t].status]_vars

\* A queued task is eventually taken by the worker (or deleted), even though
\* List takes at most BatchSize rows and other tasks are retried meanwhile.
QueuedIsTaken ==
    \A t \in TaskId : tasks[t].status = "queued" ~> tasks[t].status # "queued"
=============================================================================
