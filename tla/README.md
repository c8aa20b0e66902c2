# A verification project for tg-search

tg-search keeps a searchable copy of Telegram channels in one SQLite database.
A single Go process logs in to accounts, listens for updates, pages through
channel histories, fills gaps, derives links and resources from the messages
and serves them to a web front end, to webhooks and to a Telegram bot. This
directory models the parts of it whose correctness depends on the order of
steps, checks them with TLC on small instances, and proves theorems about them
with TLAPS.

## How to run

    tlc -workers 2 -config TaskQueue.cfg MCTaskQueue
    tlc -workers 2 -config WebSession.cfg WebSession
    tlc -workers 2 -config WebPages.cfg WebPages
    tlapm TaskQueueProofs.tla
    tlapm ChannelHistoryProofs.tla
    tlapm WebSessionProofs.tla
    tlapm ChannelsPageProofs.tla
    tlapm SettingsListsProofs.tla
    tlapm ListPageProofs.tla
    tlapm SettingsFormsProofs.tla
    tlapm WebPagesProofs.tla

`PROJECT.json` lists the runs, the definitions with the source lines they
stand for, the hazards, the findings and the theorems.

## 1. The system

| component | state | operations | talks to |
|---|---|---|---|
| task queue (`internal/task`) | rows of `sync_tasks` | insert, coalesce, start, progress, finish, cancel, pause, resume, retry, delete, restore, clean up | database, history service, API |
| history service (`internal/history`) | per channel lock, paging state of a run | full and limited history sync, backlog sync, gap recovery, task checks, retries | Telegram, message store, task queue |
| live updates (`internal/update`) | queue of events, listener per account | receive, enqueue, process, reconnect | Telegram, message store, task queue, accounts |
| message store (`repository/message`, `sync_cursor`) | messages, contents, full text rows, links, files; a cursor per channel | batch upsert, mark deleted, save cursor | database |
| accounts (`internal/account`, login in `internal/telegram`, `api`) | account rows with a status, the set of active accounts | start, stop, restart, health loop, QR and code login, logout | live updates |
| notifications (`internal/notification`, `tgbot`) | `notification_deliveries`, webhooks, subscriptions | match, enqueue, dispatch, retry | webhooks, bot API |
| resources, links, files (`internal/resource`, `link`, `repository`) | rows derived from messages | extract, index, aggregate | message store |
| search (`internal/search`) | remote search cache | local query, remote search | Telegram, message store |
| link check, media proxy, media cache, avatars | check results, cache files | check, proxy ranges, evict | network, file system |
| event broker, scheduler, retry queue, governor | subscribers, tickers, jobs, next permitted request | publish, run, retry, pace | all of the above |
| administration (`adminauth`, `apikey`, `session`) | users, sessions, keys | set up, log in, revoke | API |
| HTTP API | none of its own | one service call per route | all |
| web: router and set-up (`web/src/router`, `stores/setup`, `stores/auth`, `views/Setup*`, `LoginView`, `AppLayout`) | a copy of the set-up status and of the user, the page on screen, a refresh timer | navigate, submit each step, reload | API |
| web: accounts (`AccountsView`, `SetupTelegramLoginView`, `stores/telegram`) | the code on screen, mode, poll timer, account list | QR, code, password and session log-in, poll, cancel, row actions | API |
| web: lists (`TasksView`, `ResourcesView`, `LogsView`, `SearchView`, their stores, `AppPagination`, `stores/events`) | page, filter, selection, rows, total | load, page, filter, delete, row actions, event | API, event stream |
| web: channels (`ChannelsView`, `stores/channels`) | rows, spinners, two dialogs with one form | toggle, check, clear, sync, edit rules | API |
| web: settings (`SettingsView`, `stores/apiKey`) | one form per tab, lists, the key shown | save, toggle, delete, edit providers and limits, regenerate | API |
| database (`internal/db`) | one writer connection, a pool of readers | statements, `WithTx` | - |

How they interact: components share the database and call each other
directly; there are no messages between processes. Goroutines run beside each
other: one per API request, one task worker, one event worker, one listener per
account, one per metadata sync, the scheduler's jobs, the dispatchers. The
database has one writer connection, so a statement or a `WithTx` transaction is
atomic, and *only* that: methods that read a row, decide in Go and write
interleave at will.

The web front end is one thread, and yet concurrent: every handler is suspended
at each `await`, buttons stay usable meanwhile, requests carry no sequence number
and are not aborted, dialogs and pages are left before the answers arrive, and
several handlers share one form, one list or one flag. Stores outlive pages.
Timers and an event stream interrupt at any `await`.

What is hard in the server: check-then-act on rows (`transition`, `Delete`,
`advanceHistoryCursor`), lists that are stale when they are worked on
(`ProcessOnce`), events and pages that arrive in either order, cursors three
components write, retries from the start after half the work was stored, pauses
and cancels that a handler notices late or never, and a restart between any two
statements. `hazards` in `PROJECT.json` lists them line by line.

What makes each component correct:

- task queue: no outcome that did not happen; a task runs once per queueing; a
  cancel stops the work; every queued task is taken; a restart takes up what was
  unfinished and nothing else; a deadline exists only while there is a wait.
- message collection: below the history cursor no message is missing; a sync
  ends; a deletion is not undone.
- accounts: an active account has a listener; a logout is final; the status
  follows the table of `account/state.go`.
- notifications: each match is delivered at least once or given up after
  `MaxTries`; a delivered one is not sent again in a live process.
- set-up: no step is recorded and no page shown before the steps it builds on;
  the selected channels are enabled and synchronised before set-up is complete;
  no error strands the user.
- log-in pages: a code on screen is polled, a scanned code ends in an account or
  an error, and a page that was left stops.
- lists: the page number exists, the rows are those of the page named, a row that
  disappears was deleted.
- channels and settings: a form never stores what was typed for something else; a
  secret that is not shown is not lost and not handed on; nothing spins for ever.
- event broker, retry queue, governor, limiter: bounds hold, a newer event is not
  dropped for an older one, requests of one account are spaced, stopping ends.

## 2. The plan

1. `TaskQueue` - **done**: model, two passing runs, three claims, seven theorems.
2. `ChannelHistory` - **done**: model, two passing runs, two claims, four theorems.
3. `WebSession` with the abstract `SetupWizard` - **done**: model, refinement,
   liveness, four theorems.
4. `TelegramLogin`, `ListPage`, `ChannelsPage`, `SettingsLists`, `SettingsForms`,
   composed by `WebPages` - **done**: models, one passing run for all pages, one claim,
   theorems about all five pages, each stated of the composition.
5. `AccountRuntime`: account manager, listeners with tokens, health loop, logout,
   shutdown; the status table as a function.
6. `NotificationDelivery`: enqueueing, dispatcher, bot, crash; refines an abstract
   channel that delivers at least once or gives up (`Delivery`).
7. `RuntimeServices`: event broker, retry queue, governor.
8. Resource index, remote search cache, link check claims, media limiter.
9. Pure algorithms against reference definitions: retry policy, range reader,
   message filter.

Theorems, in this order: the safety properties of `TaskQueue`, those of
`WebSession` with its refinement, those of the pages and with them all those of
`WebPages`, then `PagesDescend`, `TypeOK`, `NoOtherHole` and `GivenUpForCause` of
`ChannelHistory` - **done**; the refinement of `NotificationDelivery`.

## 3. The modules

### TaskQueue

Models `task/repository.go`, `service.go`, `worker.go`, `gaprecovery.go`,
`cleanup.go`, the status checks of `history/service.go` and the goroutine of
`syncAccountChannels` in `api/handlers.go`.

- `tasks` is the table: status, `next_run_at` (NULL, future, due) and retry
  count. `"absent"` and `"deleted"` stand for the row before and after its life;
  ids are AUTOINCREMENT and never return.
- `worker` is the one worker goroutine. Its `pc` names the next statement, so
  every window between a check and a write is a state: `StartCheck` and
  `StartWrite` are `Service.Start`, `FloodCheck` and `FloodWrite`
  `SetFloodWait`, `FinishCheck` and `FinishWrite` are `Succeed`, `Fail` and
  `MarkCanceled`. `HandlerCheck`, `FetchBatch`, `FetchEnd`, `FetchError`,
  `AccountNotReady` are what the handlers do that the row can notice; the kind
  of a row decides whether its handler looks at the row (`Cooperative`) and how
  many attempts it makes. `batch` is the list `ProcessOnce` works through.
- `request` holds API requests between their check and their write.
- `syncer` is the goroutine of a `metadata_sync` row. The worker lists that row
  too and fails it as unsupported; the model has both.
- `host` and `restoring` are the process and `RestoreUnfinished`. `Crash` also
  stands for a shutdown: the worker's context is canceled, and its last writes fail.
- `completed`, `owed`, `lateBatches` are history variables; no guard reads them.

Left out: progress, messages, error texts, timestamps, payloads. The order of
`List` (`updated_at DESC`) is any order. Retention deletes a row only when
nothing in the process holds it, because its policies count days.

### ChannelHistory

Models `update/processor.go`, the event queue and worker of `update/service.go`,
`history/service.go` (history sync, backlog sync, gap recovery),
`CoalesceGapRecovery` with its payloads, the gap cool-down, `SaveBatchTx` and the
cursor, for one listened channel.

- `posted`, `version` are Telegram's side: a message is its id and whether it was
  edited or deleted. `FetchHistory` answers as `GotdClient.FetchHistory` does:
  the newest ids below an offset, of which service messages are dropped *after*
  the limit was applied.
- `events`, `proc`: the bounded queue and the processor, one step per
  statement: `TakeEvent` (channel and cursor read, or a deletion), then
  `EnqueueGapRecovery`, `StoreMessage`, `AdvanceCheck`, `AdvanceSave`.
  An update is lost when the listener is not connected (`Deliver`).
- `gaps`, `listed`, `gapRun`: the rows, the worker's list with the payloads *as
  listed*, and the run (`FetchGap`, `StoreGap`, `FinishGap`, `GapSucceeds`).
- `sync`, `backlog`: the sync that holds the channel's lock.
- `stored`, `cursor`: the database.
- `claimed`, `excused` and `sync.floor` are history variables. `claimed` is the
  highest value the cursor ever had. `excused` collects the messages below it
  that the code gives up, each at the step that gives them up.

Left out: links, files and resource rows (written in the same transaction as the
message they come from), the watch rules' filter (assumed to keep everything;
a filtered message is not stored by design), content, and the account's status.
A task row is queued, running, succeeded or failed here; what else can happen to
it is `TaskQueue`'s subject and shows as `GapFails`.

### SetupWizard and WebSession

`SetupWizard` is the abstract specification of the first use: a set of recorded
steps that grows in order, and a page that is shown only when the steps it builds
on are recorded. `WebSession` models one browser tab in detail and implements it
(`Wizard == INSTANCE SetupWizard WITH done <- recorded, shown <- page`).

- `recorded`, `session`, `known`, `enabled`, `synced` are the server: the steps
  `loadSetupStatus` derives, the admin session, the channels stored by the first
  synchronisation, and what `finish` asked for.
- `loaded`, `status`, `me`, `busy`, `items` are the stores; `page`, `nav`,
  `failed`, `key`, `ticked`, `tries`, `timers` the router and the page on screen.
  `nav` is a navigation whose guard awaits a request: `GuardSetupLoaded`,
  `GuardMeLoaded`.
- `jobs` are the suspended handlers. `at` is what a handler awaits and `own` whether its
  page is still on screen. `Fails(s, TRUE)` is an answer that is lost after the server acted.
- `Elsewhere` is another browser, `SessionEnds` the end of the session,
  `Reload` and `OpenAnother` a page opened by hand, which loses all of the above
  but the server.

### TelegramLogin, ListPage, ChannelsPage, SettingsLists, SettingsForms, WebPages

One module per page or family of pages. Each has the server's rows, the store,
what the page keeps, and its suspended handlers in `jobs`; an action is a click, an
input, a timer, or the rest of a handler after its answer.

- `TelegramLogin`: `logins` is the server's `QRLoginStore`; `StartAnswered`,
  `PollPending`, `LoggedIn`, `CancelAnswered`, `Fails` are the continuations on
  both pages, `TimerFires` the next poll, `Scan` and `Age` the phone and the clock.
- `ListPage`: `Clamp` is the watcher of `AppPagination`, which may ask for another
  page when the total shrinks; `Asks` moves the page and sends the load, `AskFor` is that
  with the loading flag; `LoadAnswered` puts the rows in the store whatever is asked for by
  then, and takes the flag down although the load that `Clamp` sends may be under way; `Published` and
  `EventArrives` are the event stream. `shown` is a history variable: the query
  that the rows on screen answer.
- `ChannelsPage`: `spins` are the per-row spinners, `ruleDialog` the dialog with
  its one form; `RulesArrive` is the answer that fills whichever dialog is open.
- `SettingsLists`: the form and the rows of saved searches and webhooks;
  `Store` is what the server does with a request that has no secret.
- `SettingsForms`: `Fill`, `Payload` and `Preserve` are the way of the settings to
  the form and back, with `Split` and `Bytes` for the sizes; `Regenerate` and
  `KeyArrives` are the API key panel. On the server `stored` is the row of the settings
  table and `config` the `RuntimeConfig` of the process, with the backing array of its
  list of providers (`array`, of which the first `len` are the list). `Loaded` is
  `LoadRuntimeSettings`: the stored JSON is decoded into a copy of `config` that shares
  this array, so that a key that is empty, and therefore not in the JSON, is the one that stood
  at the same index, and an empty list is that of `config`. `Overwritten` is what the decoding
  does to the array; a read of another component does it too (`ReadElsewhere`). `Started` is
  what `main` makes of the file and the stored settings, at first and at a `Restart`. A read is
  one step: two reads at the same time would race on the array, without a lock.

`WebPages` composes them: `view` says which page is open, the modules share the variables
whose role is the same (`jobs`, `busy`, `items`, ...), and a page's variables
rest while another page is open. Its properties are those of the pages.

`excused` is a history variable of a page: it is raised at the step where the code is
known to mix two dialogs, lists or keys up, and the properties name those cases (section 5).

### TaskQueueClaims, ChannelHistoryClaims, SettingsFormsClaims

What documents, comments, error texts and tests say and the code does not do;
one violation run each, see Findings.

### TaskQueueProofs

The theorems about `TaskQueue`: typing, deadlines, outcomes, cancellations, runs
and restarts. See section 6.

### ChannelHistoryProofs

The theorems about `ChannelHistory`: one lemma per action for the types, one for the
invariant about what has been stored, one for what is given up, and the theorems.
See section 6.

### WebSessionProofs, ListPageProofs, ChannelsPageProofs, SettingsListsProofs, SettingsFormsProofs, WebPagesProofs

The theorems about the browser tab, about four of the pages, and about the
composition, which instantiates the modules of those pages and proves the theorems
about the log-in page itself. See section 6.

## 4. The runs

| run | properties | shows | states, time |
|---|---|---|---|
| TaskQueue | TypeOK, DeadlineIffFloodWait, SucceededMeansRan, CancelStopsBatches, RestartLeavesNoOrphan, RestartKeepsOutcomes | a history_sync row and a metadata_sync row, two requests at a time, one crash | about a minute |
| TaskQueueLive | OneRunPerQueueing, QueuedIsTaken | two gap recoveries that are coalesced, retried, deleted, restarted; under fairness | 20 s |
| ChannelHistory | TypeOK, NoOtherHole | all actors, two gap rows, a service message late in the channel, limited and full syncs | 3.4 million, 100 s |
| ChannelPaging | NoOtherHole, PagesDescend, GivenUpForCause | gaps and syncs of several pages, which stop early only for a named cause; a service message early in the channel | 2.7 million, 60 s |
| WebSession | TypeOK, StatusNotAhead, ImplementsWizard, FinishIsWhole, SetupEnds | the whole first run in one tab, two suspended handlers, one fault or another browser's step, one page opened by hand; under fairness | 246,000, 2 min |
| WebPages | TypeOK, CodeIsPolled, PageInRange, PageShown, QuietPageIsTrue, OwnText, KeysGoHome, KeyShownIsLive, ScanEnds, RemovedIsDeleted, RulesStayHome, SecretKept, KeysKept, SizesRoundUp | every page with late, crossed, refused and lost answers; under fairness of the log-in page | 658,000, 2 to 4 min |
| ClaimDelete, ClaimResume, ClaimFlood, ClaimBacklog, ClaimDeleted, ClaimProviderKey | one each | the findings | seconds |

### Bounds

`TaskQueue`: `Batches` 2 so that there is a batch before and one after a pause, a
cancel or a crash; `MaxTries` 2 so that an attempt can be repeated and the last
one exhausted; two clients so that two requests interleave with each other and
with the worker; one crash, during a restore too. `BatchSize` 1 in
`TaskQueueLive`, so that a row can be left out of the list. `MaxRetries` bounds
manual retries: QueuedIsTaken says nothing about a user who re-queues other rows
for ever.

`ChannelHistory`: four messages are enough for a cursor, a gap of two behind it
and the message that reveals it. Pages of one message (`BatchSize` 1) make every
gap and sync span several pages. `GapId` bounds the rows ever inserted:
with none left `EnqueueGapRecovery` waits, which cuts behaviours short and adds
none. `Changing` bounds the messages that are edited or deleted, `MaxFaults` the
errors and crashes together: each of the excused cases needs one at most.
The two runs differ in where the service message is, because one before the
trigger hides the multi-page gap and one behind the cursor hides the empty page.

`WebSession`: one channel is enough for a selection that is empty or not; two
slots let a handler of a page that was left run beside one of the page on
screen; `MaxRefresh` 2 (10 in the code) has a first, a last and a refused
refresh. `MaxFaults` counts failed requests, lost answers, ended sessions
and steps taken elsewhere together.

`WebPages`: two handlers in flight are the least that can cross, and each page begins
at most `MaxClicks` of them with one fault. Two channels, three rule ids and three
list rows let a form be moved from one row to another and to a new one; two vendors, of
which one needs no key, and two row ids let a preset be changed, a row removed and its place
taken. The configuration file and the stored settings hold no list or one of two providers, with
keys or with one missing, in each combination, so that the page and a restart meet a list that is
remembered, one that replaces it, and one that outgrows the array of the file. `MaxEdits` bounds the changes to the provider rows and the limits,
`MaxPresses` the row and toolbar buttons of the channels page, whose
handlers do not touch the dialogs. The sizes are scaled down:
`Mega` 2, `Giga` 6, the least limit 4; `Limits` has a legal value that is a
multiple of a unit, one of both, and one of none, which are the cases `Split` tells apart.

Deadlock checking is off: the system may come to rest, as users need not act and
counted things run out.

### Fairness

`TaskQueue!Fairness` is weak fairness of the worker loop, of the start
sequence, of the goroutine of each metadata sync, of the clock, and of the second
statement of an admitted request. They are goroutines of a live process that
wait for nothing but the database, and a supervisor restarts the process. Nothing is
assumed of users, of Telegram or of the retention job. Weak fairness is enough:
no other actor disables the worker for ever. `ChannelHistory` has safety
properties only.

`WebSession!Fairness`: requests are answered (with an error, if need be: the
browser ends them), and the user works through the pages, that is, submits the form on
screen and reloads a page that shows an error. Buttons that a flag of another handler
disables again and again get strong fairness: a user who wants to press
them does so when they are enabled. Nothing is assumed of other browsers, of the
session or of Telegram; that faults are bounded is the assumption that the
errors stop.

`WebPages!Fairness` is about the log-in page alone: timers fire and
suspended handlers go on.

## 5. Findings

1. `RunningNotDeleted` (ClaimDelete). `Service.Delete` checks and deletes in two
   statements; the worker starts the task in between.
2. `ResumedTaskGoesOn` (ClaimResume). A paused task whose handler has returned is
   set running by resume, and nobody runs it until the process restarts.
3. `FloodWaitEnds` (ClaimFlood). A flood wait is left by a restart or by a manual
   retry only.
4. `BacklogReachesCursor` (ClaimBacklog). The first page moves the cursor; the
   retry after a failed second page stops at once and reports success.
5. `DeletedStaysDeleted` (ClaimDeleted). A page read before a deletion and
   written after it makes the message visible again.

6. `KeylessStaysKeyless` (ClaimProviderKey). The stored settings are decoded over the list of
   providers of the running configuration, and an empty key is not in the stored text: a provider
   without a key is read with the key at its place. Moved past a provider with a key and
   saved twice, it is stored with that key, which is then sent to the other vendor.

Cases in which a page does mix things up, raised as `excused` and named in the
properties: loads of two different queries that cross show the wrong page
until the next load (`PageShown`); the rules of a channel that arrive after its dialog
was replaced fill the other dialog, and a dialog whose load failed saves
defaults (`RulesStayHome`); another preset for a provider row keeps the key stored
for the old vendor, removing all rows brings the configuration's providers
back, and a provider stored without a key at a place that remembers one is given that
one, which is finding 6 (`KeysGoHome`, `KeysKept`); a key panel that was opened again while its requests were on their way, or
that lost the answer of a regeneration, shows an old key (`KeyShownIsLive`).
But for finding 6, no document says otherwise.

The QR log-in has a disagreement that no run shows. The poll that is in flight when the user
leaves the page of the set-up or changes its mode arms the timer again after its answer
(`PollPending` of `TelegramLogin`, where `timer` may hold with `left`), and the page goes on
polling; `src/docs/superpowers/specs/2026-06-08-telegram-qr-login-design.md:91` says that it
stops.

Other behaviours seen while modelling that no document contradicts: a canceled
paused task stays `canceling` until the restart; a `metadata_sync` row can be failed by
the worker while it syncs, and then succeed; a gap page of service messages only
ends the recovery and still moves the cursor; a backlog whose newest message is a
service message does nothing.

## 6. What is proved

The theorems about `TaskQueue` follow from `TaskQueueAssumption` alone, and
hold for every number of rows, clients, batches, tries, retries and crashes.

`TaskQueueProofs`:

- `TypeCorrect`: `Spec => []TypeOK`. The inductive invariant is `Typed`, which
  adds that a worker that is not idle holds a task, and that it has decided on an
  outcome before it comes to write one. Without the first an action would look up
  the row of no task, without the second `Finish` could write "none" as a status.
- `DeadlineCorrect`: `Spec => []DeadlineIffFloodWait`. Typing is enough:
  every write of a status goes through `UpdateStatus`, which overwrites `next_run_at`.

The other five are each proved relative to `Typed`:

- `SucceededCorrect`: `Spec => []SucceededMeansRan`. The outcome is decided steps
  before it is written, so the invariant `Earned` says of the worker and of each
  metadata sync that a "succeeded" they carry has been earned already.
- `CancelCorrect`: `Spec => []CancelStopsBatches`. A row that got its late batch could
  get another if its handler were fetching, or if the row left `canceling` and came
  back. `LateOnce` excludes both: the row still is `canceling`, and
  the worker is past the check that leads to a fetch.
- `OneRunCorrect`: `Spec => OneRunPerQueueing`. `RunsOwed` says that everything
  listed or about to start was queued and not started since, and that the task in
  hand is off the list, so starting it cannot make the list stale.
- `RestartComplete`, `RestartFaithful`: `Spec => RestartLeavesNoOrphan` and
  `Spec => RestartKeepsOutcomes`. `Restoring` says that nothing else acts until
  the service is up, that each row is either settled or in the list to restore, and that
  every row of the list still qualifies: the clock may move a deadline meanwhile.
  It needs `DeadlineIffFloodWait`: a forgotten deadline would keep a row out
  of the list.

Each is a lemma per action or per group of actions that write the same variables
(`Cases`), and a last step that combines initial state and step with PTL.

`ChannelHistoryProofs`, from `ChannelHistoryAssumption` alone, for any number of messages,
gap rows, page sizes, retries and faults, and any sizes of the queue:

- `TypeCorrect`: `Spec => []TypeOK`. `Typed` adds that the cursor never is ahead of what
  Telegram has posted.
- `NoOtherHoleCorrect`: `Spec => []NoOtherHole`. The property speaks of the cursor, which
  moves in one step; that nothing is left out below it depends on what has been stored in the
  steps before. `Fits` is what everyone who may move the cursor has achieved so far:
  a gap recovery has stored the gap from its offset up (`RunFits`); a sync has moved the cursor
  to the newest message it saw with its first page, and what is still missing is what it is going
  to fetch (`SyncFits`); a live message is stored before the cursor moves, and one step ahead of
  it only, unless there is no cursor yet (`ProcFits`). The range a gap row carries ends just before the message that revealed it,
  which is stored or in the processor's hands (`Settled`, `GapsFit`): coalescing joins such
  ranges, and what lies between two of them that touch is that message. A page leaves out nothing
  between its oldest message and the offset but service and deleted messages (`Whole`),
  for `FetchHistory` drops them after it applied the limit. `Grows` is what no step takes back
  (stored messages, deletions, excuses, the mark): what a step does not write then keeps fitting.
- `PagesDescendCorrect`: `Spec => PagesDescend`, from the same invariant.
- `GivenUpForCauseCorrect`: `Spec => GivenUpForCause`. `NoOtherHole` is worth as much as what
  `Excuse` records is little, and several actions excuse everything below some
  offset. The theorem bounds that: in a step without an error or a restart, what is newly
  excused and was not archived anyway is below a first live message, outside the limit
  of a sync, or below a page that service messages filled (`Justified`). For an empty page means that
  nothing is left below the offset, unless service messages filled it (`EmptyPage`); and
  a page without anything newer than the lower bound leaves only service and erased
  messages between the two, for a page leaves out nothing else (`SyncPage`).

`WebSessionProofs`, from `WebSessionAssumption`, for any channels, slots, refresh limit,
faults and visits:

- `TypeCorrect`: `Spec => []TypeOK`. That refreshes stay within the limit
  needs `TimersInv`: the timer of the page on screen carries the current count, so there is
  at most one, and every armed timer is below the limit.
- `StatusNeverAhead`: `Spec => []StatusNotAhead`.
- `FinishWhole`: `Spec => FinishIsWhole`. `Fits` says of a handler what its earlier
  requests have done: one that awaits the completion carries only channels that are
  enabled and synchronised. The server takes neither back (`NextGrows`).
- `Refinement`: `Spec => ImplementsWizard`. The guard decides on `status`, not on
  `recorded`, and the server does not check the order of the steps. `Inv` therefore
  says that `status` and `recorded` are closed under `Before`, that the page on screen builds on
  recorded steps only (`GuardShows`), and that each suspended handler was begun on such a page
  (`Builds`), so that the step it records, however late, is in order (`StepBuilds`).

`ChannelsPageProofs`, for any channels, rule ids, handlers, presses and faults, under `Parameters`
(no channel is called "none", "sync" or "rule", the counts are naturals):

- `TypeCorrect`, `QuietPageCorrect`: `Spec => []QuietPageIsTrue`. `Waits` says of each
  spinner and flag that a handler in flight will take it down: a spinner belongs to
  the kind and the channel of some handler, and the flags of the dialog to a load or to a save.
- `RulesStayHomeCorrect`: `Spec => [][RulesStayHome]_vars`. A save writes what the form
  held when it was pressed, under the rule id that the page held then, perhaps long after the
  dialog went to another channel. `FormFits` therefore says that the form of the dialog on screen
  holds its own text once its rules are in, and that its rule id names a rule of its own channel (`Of`) or one
  that was deleted; `SaveFits` says the same of each save under way. That a save still fits when
  it is answered needs `RulesKept`: an id keeps its channel or is deleted for good.
  A load under way must hold the dialog's flag (`JobsFit`), or saving could overtake it.

`SettingsListsProofs`, for any rows and any number of requests, under
`Parameters` (the id "none" stands for null):

- `TypeCorrect`, `OwnTextCorrect`: `Spec => []OwnText`. `Honest` says that
  what a handler in flight carries was typed for the row it names, and `Form` that the
  form holds nothing but text for the row it will be saved to.
- `SecretKeptCorrect`: `Spec => [][SecretKept]_vars`.

`ListPageProofs`, for any rows, page sizes and loads in flight:

- `TypeCorrect`, `PageInRangeCorrect`, `PageShownCorrect`. The last needs `Consistent`:
  without `excused`, every load under way asks for the page the pagination names, and if none
  is under way and none failed that page is the one on screen.
- `RemovedIsDeletedCorrect`: `Spec => [][RemovedIsDeleted]_vars`, of the steps alone.

`SettingsFormsProofs`, for any vendors, rows, units, limits, configuration files, reads and
restarts:

- `StatesCorrect`: `Spec => [](TypeOK /\ KeysGoHome /\ KeyShownIsLive)`. A save sends rows
  without the keys the browser does not know, and the server fills them in by id. `Keyed` therefore
  says that every row whose key the server would fill in has the vendor of that key, in the form
  (`Agree`) and in each save under way, and that the form and such a save differ in nothing that
  matters when the answer comes (`Follows`). `Alone` says which handlers can be in flight
  together, and `KeyLive` that the answer under way brings the valid API key. The server looks
  the ids up in what it reads, not in what is stored. `Clean` is what makes the two agree: outside the
  excused cases no provider is stored without a key at a place that remembers one, and while no
  list is stored the configuration is that of the start. So a read is what is stored
  (`NothingInherited`), and reading once more changes nothing (`ReadAgain`).
- `SavesCorrect`: `Spec => [][KeysKept /\ SizesRoundUp]_vars`. A save keeps every key it finds
  by id, and a restart, whose fresh configuration remembers less, keeps those of the list
  that is stored or, without one, of the file. `Sized` carries the limit from
  the form to the save; `SplitRoundsUp` is the arithmetic of `Split` and `Bytes` for any units
  of which one divides the other.

`WebPagesProofs`, from the assumptions of `WebPages` and nothing else, states each property but
the liveness property that the run `WebPages` checks as a theorem of the composition:
`Spec => []TypeOK`, `Spec => []PageInRange`, `Spec => SizesRoundUp`, and so on, thirteen in
all. The view never changes, so a step of `WebPages` is a step of the page on screen, and keeps
the page's invariant while the other pages' variables rest. For four pages the invariant is that of their
own proofs (`SameListsNext`, `SamePagedNext`, `SameFormsNext` and their like identify the
two instances of a page's module). The log-in page is proved here:

- `CodeIsPolledCorrect`: `Spec => []CodeIsPolled`. The property speaks of a code in an open
  dialog in QR mode. `OpenDialog` and `SetMode` bring a code back on screen without asking whether it is
  polled, so the invariant `LoginInv` says of every code the page knows that a timer is
  armed or a handler in flight will see to it (`Minded`), hidden or not. A handler that begins takes the
  least free slot and disturbs no other (`LeastSlot`, `LoginBegun`).

The assumptions say what the code takes for granted: page sizes start at a
least one, the bigger unit is a multiple of the smaller, a blank key is not a vendor, and no
channel has the name of a marker of the model.

Model-checked only: the liveness properties `QueuedIsTaken`, `SetupEnds` and `ScanEnds`, which
are out of the prover's reach, and the claims, which are violated. Every other property
of a passing run is stated by a theorem.

## 7. Not modelled

`components` in `PROJECT.json` gives the reason part by part. In short: planned
for later modules (accounts, notifications, runtime services, resource index,
caches, algorithms); rows and reads that follow a single statement (settings,
statistics); string processing (link extraction, prompts, rendering);
input and output (logging, media, migrations). Of the front end: the pages that only
display what one request returned (home, API help, search results), the task
details, the log download, the remote search, and the settings tabs
that send one form and show the answer (credentials, Telegram API, bot, model test).
