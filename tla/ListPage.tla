------------------------------ MODULE ListPage ------------------------------
(***************************************************************************)
(* The paged lists: TasksView, ResourcesView, LogsView and SearchView, each *)
(* with its store and AppPagination.                                       *)
(*                                                                         *)
(* A page asks for (filter, offset, size) and shows what the store holds.   *)
(* Requests are neither numbered nor aborted: several are in flight at      *)
(* once and their answers come in any order.  The store outlives the page.  *)
(*                                                                         *)
(* Abstracted: a row is a number, the list is in this order; the filters    *)
(* are one of two, "few" matching the odd rows; the query of SearchView may *)
(* be blank; a sort is a reload; the four totals of a search are one; the   *)
(* server reads a page when it answers.                                    *)
(***************************************************************************)
EXTENDS Naturals, FiniteSets, Sequences, SequencesExt

CONSTANTS
    Row,        \* the tasks, resources, log lines or results
    Size,       \* pageSizeOptions; the least is the default
    MaxJobs,    \* bound: requests in flight when the user begins another
    MaxFaults,  \* bound: failed requests, rows changed by others
    MaxClicks   \* bound: requests the user begins

VARIABLES
    view,     \* "tasks", "resources", "logs" or "search"
    rows,     \* server: the rows there are
    feed,     \* task.updated events on their way
    items, total, busy,   \* the store
    filter, offset, size, \* the page
    ticked,   \* selectedTaskIds, selectedResourceIds
    dialog,   \* the question whether to delete: the ids it counts
    jobs,     \* the handlers in flight, in the order they began
    shown,    \* history: the query the list answers
    excused,  \* history: the list may be another page's, see PageShown
    failed,   \* the last load to end ended with an error
    faults, clicks

store == <<items, total>>
vars == <<view, rows, feed, store, busy, filter, offset, size, ticked, dialog, jobs, shown,
          excused, failed, faults, clicks>>

View == {"tasks", "resources", "logs", "search"}
Filter == {"all", "few", "blank"}
QuerySet == [filter : Filter, offset : Nat, size : Size]
NoQuery == [filter |-> "none"]
DefaultSize == CHOOSE n \in Size : \A m \in Size : n <= m
NoDialog == [ids |-> {}, bulk |-> FALSE]
Job == [kind : {"load", "delete", "action"}, ids : SUBSET Row, bulk : BOOLEAN,
        query : QuerySet \cup {NoQuery}, own : BOOLEAN, closes : BOOLEAN]

TypeOK ==
    /\ view \in View
    /\ {rows, feed, items, ticked} \subseteq SUBSET Row
    /\ total \in Nat /\ offset \in Nat /\ filter \in Filter /\ size \in Size
    /\ dialog \in [ids : SUBSET Row, bulk : BOOLEAN]
    /\ \A k \in DOMAIN jobs : jobs[k] \in Job
    /\ shown \in QuerySet \cup {NoQuery}
    /\ {busy, excused, failed} \subseteq BOOLEAN
    /\ faults \in 0..MaxFaults /\ clicks \in 0..MaxClicks

Query == [filter |-> filter, offset |-> offset, size |-> size]
First == [filter |-> "all", offset |-> 0, size |-> DefaultSize]

LoadJob(q, own, closes) ==
    [kind |-> "load", ids |-> {}, bulk |-> FALSE, query |-> q, own |-> own, closes |-> closes]

\* onMounted; SearchView asks nothing without a query in the route.
Init ==
    /\ view \in View
    /\ rows = Row /\ feed = {}
    /\ items = {} /\ total = 0
    /\ filter = IF view = "search" THEN "blank" ELSE "all"
    /\ offset = 0 /\ size = DefaultSize
    /\ ticked = {} /\ dialog = NoDialog
    /\ jobs = IF view = "search" THEN <<>> ELSE <<LoadJob(First, TRUE, FALSE)>>
    /\ busy = (view # "search")
    /\ shown = NoQuery /\ excused = FALSE /\ failed = FALSE
    /\ faults = 0 /\ clicks = 0

-----------------------------------------------------------------------------
(* AppPagination and the request for a page.                                *)

\* totalPages
Pages(n, perPage) == IF n = 0 THEN 1 ELSE (n + perPage - 1) \div perPage
page == offset \div size + 1

Loads(js) == {js[k].query : k \in {j \in DOMAIN js : js[j].kind = "load"}}

\* The list may end up with the rows of another page: two different requests
\* cross, or a page that was left asks for its own.
Crosses(js, q, own) == ~own \/ (Loads(js) # {} /\ (excused \/ Loads(js) # {q}))

\* (mutant) The request is built before the page moves.
AsksBefore(js, q, ticks, closes) ==
    /\ filter' = q.filter /\ offset' = q.offset /\ size' = q.size
    /\ ticked' = IF view = "tasks" THEN {} ELSE ticks
    /\ jobs' = Append(js, LoadJob(Query, TRUE, closes))
    /\ excused' = Crosses(js, Query, TRUE)

\* SearchView moves to the page and asks nothing when the query is blank.
Silent(q) == view = "search" /\ q.filter = "blank"

\* The page moves to q and asks for it, with the handlers js in flight besides.
Asks(js, q, ticks, closes) ==
    /\ filter' = q.filter /\ offset' = q.offset /\ size' = q.size
    /\ ticked' = IF view = "tasks" THEN {} ELSE ticks
    /\ jobs' = IF Silent(q) THEN js ELSE Append(js, LoadJob(q, TRUE, closes))
    /\ excused' = (Silent(q) \/ Crosses(js, q, TRUE))

\* load, loadPage, runSearch
AskFor(js, q, ticks, closes) ==
    /\ Asks(js, q, ticks, closes)
    /\ busy' = IF Silent(q) THEN busy /\ Loads(js) # {} ELSE TRUE

\* (mutant) The page number is not looked at when the total changes.
ClampNever(n) == offset

\* The watcher of totalPages: the page it changes to.
Clamp(n) ==
    LET pages == Pages(n, size) IN
    IF pages # Pages(total, size) /\ page > pages THEN (pages - 1) * size ELSE offset

-----------------------------------------------------------------------------
(* The user.  A question on screen covers the page.                         *)

Click ==
    /\ clicks < MaxClicks /\ clicks' = clicks + 1
    /\ Len(jobs) < MaxJobs

Ask(q, ticks) ==
    /\ dialog = NoDialog /\ Click
    /\ AskFor(jobs, q, ticks, FALSE)
    /\ UNCHANGED <<view, rows, feed, store, dialog, shown, failed, faults>>

\* The boxes above the list; most wait for the search button.
Choose(f) ==
    /\ dialog = NoDialog /\ f # filter /\ (f = "blank" => view = "search")
    /\ filter' = f
    /\ UNCHANGED <<view, rows, feed, store, busy, offset, size, ticked, dialog, jobs, shown,
                   excused, failed, faults, clicks>>

\* resetAndLoad and submitSearch, also by the Enter key.
Submit == Ask([Query EXCEPT !.offset = 0], ticked)

\* sortTasks: a header of TaskTable.
SortTasks == view = "tasks" /\ Submit

FilterAndLoad(f) ==
    f \in {"all", "few"} /\ Ask([filter |-> f, offset |-> 0, size |-> size], ticked)

\* selectFile, selectLevel, selectOrder
SelectLog(f) == view = "logs" /\ FilterAndLoad(f)

\* The types above the resources.
SelectCategory(f) == view = "resources" /\ FilterAndLoad(f)

ResetFilters == view = "tasks" /\ ~busy /\ FilterAndLoad("all")

\* ResourcesView: channel_id in the address changes.
ChangeRoute(f) ==
    /\ view = "resources" /\ f \in {"all", "few"} \ {filter}
    /\ Ask([filter |-> f, offset |-> 0, size |-> size], {})

Refresh ==
    /\ view # "search" /\ ~busy
    /\ Ask(Query, IF view = "resources" THEN {} ELSE ticked)

\* SearchView has no pagination before the first result.
Paged == view = "search" => shown # NoQuery

\* The pages the buttons and the jump box lead to.
Reachable(p) == ~busy /\ p # page /\ p <= Pages(total, size)

GoToPage(p) ==
    /\ Paged /\ Reachable(p)
    /\ Ask([Query EXCEPT !.offset = (p - 1) * size], ticked)

ChangePageSize(n) ==
    /\ Paged /\ ~busy /\ n # size
    /\ Ask([filter |-> filter, offset |-> 0, size |-> n], ticked)

\* The rows that can be clicked: those of the list, also while it is loading.
RowsOnScreen == IF dialog = NoDialog /\ view \in {"tasks", "resources"} THEN items ELSE {}

Tick(ticks) ==
    /\ dialog = NoDialog /\ ticked' = ticks
    /\ UNCHANGED <<view, rows, feed, store, busy, filter, offset, size, dialog, jobs, shown,
                   excused, failed, faults, clicks>>

\* toggleTaskSelection, toggleResourceSelection
TickRow(r) ==
    r \in RowsOnScreen /\ \E ticks \in {ticked \cup {r}, ticked \ {r}} : Tick(ticks)

\* toggleCurrentPageSelection
TickAll ==
    /\ view = "tasks" \/ RowsOnScreen # {}
    /\ view \in {"tasks", "resources"} /\ \E ticks \in {items, {}} : Tick(ticks)

AskDelete(ids, bulk) ==
    /\ dialog = NoDialog
    /\ dialog' = [ids |-> ids, bulk |-> bulk]
    /\ UNCHANGED <<view, rows, feed, store, busy, filter, offset, size, ticked, jobs, shown,
                   excused, failed, faults, clicks>>

\* confirmDeleteTask, confirmDeleteResource
AskDeleteRow(r) == r \in RowsOnScreen /\ AskDelete({r}, FALSE)

\* confirmDeleteSelectedTasks, confirmDeleteSelectedResources
AskDeleteTicked == ticked # {} /\ ~busy /\ AskDelete(ticked, TRUE)

Unasked(js) == [k \in DOMAIN js |-> [js[k] EXCEPT !.closes = FALSE]]

Dismiss ==
    /\ dialog # NoDialog /\ dialog' = NoDialog
    /\ jobs' = Unasked(jobs)
    /\ UNCHANGED <<view, rows, feed, store, busy, filter, offset, size, ticked, shown,
                   excused, failed, faults, clicks>>

Request(job) ==
    /\ Click /\ jobs' = Append(jobs, job) /\ busy' = TRUE
    /\ UNCHANGED <<view, rows, feed, store, filter, offset, size, ticked, dialog, shown,
                   excused, failed, faults>>

\* onPositiveClick: the question stays on screen until the handler ends.
Confirm ==
    /\ dialog # NoDialog
    /\ Request([kind |-> "delete", ids |-> dialog.ids, bulk |-> dialog.bulk, query |-> NoQuery,
                own |-> TRUE, closes |-> TRUE])

\* retryTask, cancelTask, pauseTask, resumeTask
RunAction(r) ==
    /\ view = "tasks" /\ r \in RowsOnScreen
    /\ Request([kind |-> "action", ids |-> {r}, bulk |-> FALSE, query |-> NoQuery,
                own |-> TRUE, closes |-> FALSE])

\* The page is left and opened again: its handlers stay, the store too, the
\* event stream is closed.
Remount ==
    /\ Click
    /\ LET left == [k \in DOMAIN jobs |->
                       [kind |-> jobs[k].kind, ids |-> jobs[k].ids, bulk |-> jobs[k].bulk,
                        query |-> IF jobs[k].kind = "load" THEN jobs[k].query ELSE Query,
                        own |-> FALSE, closes |-> FALSE]]
       IN  IF view = "search"
           THEN /\ jobs' = left /\ UNCHANGED busy
                /\ excused' = TRUE
           ELSE /\ jobs' = Append(left, LoadJob(First, TRUE, FALSE)) /\ busy' = TRUE
                /\ excused' = Crosses(left, First, TRUE)
    /\ filter' = IF view = "search" THEN "blank" ELSE "all"
    /\ offset' = 0 /\ size' = DefaultSize
    /\ ticked' = {} /\ dialog' = NoDialog /\ feed' = {}
    /\ UNCHANGED <<view, rows, store, shown, failed, faults>>

-----------------------------------------------------------------------------
(* The answers.                                                             *)

Matching(f) == IF f = "few" THEN {r \in rows : r % 2 = 1} ELSE rows

Slice(q) ==
    LET found == Matching(q.filter)
        before(r) == Cardinality({x \in found : x < r})
    IN {r \in found : q.offset <= before(r) /\ before(r) < q.offset + q.size}

\* loadTasks, load, searchGlobal.  The watcher of the pagination asks for a
\* page before this load ends, whose end clears the flag of both.
LoadAnswered(k) ==
    LET job == jobs[k]
        n == Cardinality(Matching(job.query.filter))
        js == IF job.closes THEN Unasked(RemoveAt(jobs, k)) ELSE RemoveAt(jobs, k)
    IN
    /\ job.kind = "load"
    /\ items' = Slice(job.query) /\ total' = n
    /\ shown' = job.query /\ failed' = FALSE
    /\ dialog' = IF job.closes THEN NoDialog ELSE dialog
    /\ IF Clamp(n) # offset
       THEN Asks(js, [Query EXCEPT !.offset = Clamp(n)], ticked, FALSE)
       ELSE jobs' = js /\ UNCHANGED <<filter, offset, size, ticked, excused>>
    /\ busy' = FALSE
    /\ UNCHANGED <<view, rows, feed, faults, clicks>>

\* (mutant) The total is not kept from falling below none.
FewerUnfloored(n) == total - n

\* removeTasks, remove: the total without the rows that were on the list.
Fewer(n) == IF n > total THEN 0 ELSE total - n

\* (mutant) The ids the server refused are taken off the list too.
DeleteAnsweredBlind(k) ==
    LET job == jobs[k] IN
    /\ job.kind = "delete"
    /\ \E refused \in SUBSET (job.ids \cap rows) :
          /\ view = "tasks" /\ job.bulk
          /\ rows' = rows \ (job.ids \ refused)
    /\ items' = items \ job.ids
    /\ jobs' = RemoveAt(jobs, k)
    /\ UNCHANGED <<view, feed, total, busy, filter, offset, size, ticked, dialog, shown, excused,
                   failed, faults, clicks>>

\* deleteTask(s), deleteResource(s): running tasks are refused, and rows that
\* are gone are reported missing; one of either alone is an error, see Fails.
\* The watcher asks for a page first, then the handler asks for it too.
DeleteAnswered(k) ==
    LET job == jobs[k] IN
    /\ job.kind = "delete"
    /\ view = "tasks" /\ ~job.bulk => job.ids \subseteq rows
    /\ \E refused \in SUBSET (job.ids \cap rows) :
        LET gone == (job.ids \cap rows) \ refused
            fewer == Cardinality(items \cap gone)
            n == Fewer(fewer)
            q == [Query EXCEPT !.offset = Clamp(n)]
            moved == q # Query
            js == IF moved THEN Append(RemoveAt(jobs, k), LoadJob(q, TRUE, FALSE)) ELSE RemoveAt(jobs, k)
            ticks == IF job.bulk THEN {} ELSE ticked \ job.ids
        IN
        /\ refused # {} => view = "tasks" /\ job.bulk
        /\ rows' = rows \ gone
        /\ items' = items \ gone
        /\ total' = n
        /\ IF job.own
           THEN AskFor(js, q, ticks, job.closes)
           ELSE /\ jobs' = Append(js, LoadJob(job.query, FALSE, FALSE))
                /\ offset' = q.offset /\ busy' = TRUE /\ excused' = TRUE
                /\ ticked' = IF moved /\ view = "tasks" THEN {} ELSE ticked
                /\ UNCHANGED <<filter, size>>
    /\ UNCHANGED <<view, feed, dialog, shown, failed, faults, clicks>>

\* applyTask
Apply(r) == items' = items \cup {r}

ActionAnswered(k) ==
    /\ jobs[k].kind = "action" /\ jobs[k].ids \subseteq rows
    /\ \E r \in jobs[k].ids : Apply(r) /\ feed' = feed \cup {r}
    /\ jobs' = RemoveAt(jobs, k) /\ busy' = FALSE
    /\ UNCHANGED <<view, rows, total, filter, offset, size, ticked, dialog, shown, excused, failed,
                   faults, clicks>>

\* A request that is refused or lost, or (done) whose answer is lost.
Fails(k, done) ==
    LET job == jobs[k]
        refused == view = "tasks" /\ job.kind # "load" /\ Cardinality(job.ids) = 1
    IN
    /\ faults' = IF refused THEN faults ELSE faults + 1
    /\ faults' <= MaxFaults
    /\ rows' = IF done /\ job.kind = "delete" THEN rows \ job.ids ELSE rows
    /\ jobs' = RemoveAt(jobs, k) /\ busy' = FALSE
    /\ failed' = (failed \/ job.kind = "load")
    /\ UNCHANGED <<view, feed, store, filter, offset, size, ticked, dialog, shown, excused, clicks>>

-----------------------------------------------------------------------------
(* The rest of the world.                                                   *)

\* The server works on a task and publishes it; the event arrives, late.
Published(r) ==
    /\ view = "tasks" /\ r \in rows \ feed /\ faults < MaxFaults
    /\ feed' = feed \cup {r} /\ faults' = faults + 1
    /\ UNCHANGED <<view, rows, store, busy, filter, offset, size, ticked, dialog, jobs, shown,
                   excused, failed, clicks>>

EventArrives(r) ==
    /\ r \in feed /\ feed' = feed \ {r}
    /\ Apply(r)
    /\ UNCHANGED <<view, rows, total, busy, filter, offset, size, ticked, dialog, jobs, shown,
                   excused, failed, faults, clicks>>

Vanishes(r) ==
    /\ r \in rows /\ faults < MaxFaults
    /\ rows' = rows \ {r} /\ faults' = faults + 1
    /\ UNCHANGED <<view, feed, store, busy, filter, offset, size, ticked, dialog, jobs, shown,
                   excused, failed, clicks>>

Next ==
    \/ \E f \in Filter : Choose(f) \/ SelectLog(f) \/ SelectCategory(f) \/ ChangeRoute(f)
    \/ Submit \/ SortTasks \/ ResetFilters \/ Refresh \/ Remount
    \/ TickAll \/ AskDeleteTicked \/ Dismiss \/ Confirm
    \/ \E p \in 1..Cardinality(Row) : GoToPage(p)
    \/ \E n \in Size : ChangePageSize(n)
    \/ \E r \in Row : TickRow(r) \/ AskDeleteRow(r) \/ RunAction(r)
    \/ \E r \in Row : Published(r) \/ EventArrives(r) \/ Vanishes(r)
    \/ \E k \in DOMAIN jobs :
          \/ LoadAnswered(k) \/ DeleteAnswered(k) \/ ActionAnswered(k)
          \/ \E done \in BOOLEAN : Fails(k, done)

Spec == Init /\ [][Next]_vars

-----------------------------------------------------------------------------
(* Properties.                                                              *)

\* The page number never lies beyond the last page, whichever handler or event
\* makes the total shrink: no page is left on screen that has no way back.
PageInRange == page <= Pages(total, size)

\* When no request is in flight, the list is the page the pagination names,
\* although loads, deletes and the watcher of the pagination all ask for pages.
\* Excused are the cases in which the code does mix pages up: two different
\* requests crossed, a page that was left asked again, a blank query.
PageShown ==
    (Loads(jobs) = {} /\ ~excused /\ ~failed /\ shown # NoQuery)
        => shown.offset = offset /\ shown.size = size

\* A row that a bulk delete takes off the list is deleted on the server: what
\* the server refused or did not find stays until the next load.
RemovedIsDeleted ==
    \A r \in items \ items' :
        r \notin rows' \/ \E k \in DOMAIN jobs : jobs[k].kind = "load" /\ shown' = jobs[k].query
=============================================================================
