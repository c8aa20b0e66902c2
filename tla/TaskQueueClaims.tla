-------------------------- MODULE TaskQueueClaims --------------------------
(***************************************************************************)
(* What the repository's documents, comments and error texts say of tasks, *)
(* stated over TaskQueue.  The code disagrees with each of them: the runs  *)
(* that check them end in a counterexample (README, "Findings").           *)
(***************************************************************************)
EXTENDS MCTaskQueue

\* "task cannot be deleted while running or canceling" (service.go:15): the
\* DELETE that follows the check of Service.Delete does not look at the status.
RunningNotDeleted ==
    [][\A t \in TaskId : tasks[t].status \in {"running", "canceling"} => Exists(t)']_vars

\* "running -> paused -> running" (docs/help.md:275), "resume a paused task"
\* (docs/api.md:1041): a resumed task goes on and does not stay running for ever.
ResumedTaskGoesOn ==
    \A t \in TaskId : tasks[t].status = "running" ~> tasks[t].status # "running"

\* "running -> flood_wait -> queued" (docs/help.md:276), "sleeps or schedules
\* retry safely" (docs/TASKS.md:953): a wait that is over ends.
FloodWaitEnds ==
    \A t \in TaskId :
        (tasks[t].status = "flood_wait" /\ tasks[t].next = "due") ~> tasks[t].status # "flood_wait"
=============================================================================
