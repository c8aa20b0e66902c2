----------------------------- MODULE WebSession -----------------------------
(***************************************************************************)
(* One browser tab of the web application from the moment it is opened: the *)
(* router and its guard, the setup and auth stores, the pages of the first  *)
(* run and the log-in page, against the set-up state of the server.         *)
(*                                                                         *)
(* A handler of a page is a job: it is suspended at an await and goes on   *)
(* when the answer arrives, whatever the page shows by then.  An answer    *)
(* reports what the server did, or an error; an error may hide that the    *)
(* server did it.  Another browser may run the same set-up, and the admin  *)
(* session may end.                                                        *)
(*                                                                         *)
(* Abstracted: SetupStatus is the set of steps the server has recorded;    *)
(* names, passwords and listen rules; the pages inside AppLayout are one   *)
(* page, "home"; the Telegram log-in is one request (TelegramLogin models  *)
(* it).  The search box and the pages of the channel list only hide rows.  *)
(***************************************************************************)
EXTENDS Naturals, FiniteSets

CONSTANTS
    Channel,      \* the channels of the Telegram account
    Slot,         \* bound: handlers that can be suspended together
    MaxRefresh,   \* maxEmptyRefreshAttempts
    MaxFaults,    \* bound: failed requests, ended sessions, other browsers' steps
    MaxVisits     \* bound: pages opened by hand

ASSUME WebSessionAssumption ==
    /\ Slot # {} /\ IsFiniteSet(Slot)
    /\ MaxRefresh \in Nat \ {0} /\ MaxFaults \in Nat /\ MaxVisits \in Nat

Step == {"admin", "api_key", "telegram_api", "telegram_login", "listen_rules",
         "complete"}

\* setupCurrentStep looks for the steps in this order.
Before == [admin |-> {},
           api_key |-> {"admin"},
           telegram_api |-> {"admin", "api_key"},
           telegram_login |-> {"admin", "api_key", "telegram_api"},
           listen_rules |-> {"admin", "api_key", "telegram_api", "telegram_login"},
           channel_selection |-> Step \ {"complete"},
           complete |-> Step \ {"complete"}]

CurrentStep(status) ==
    IF "complete" \in status THEN "complete"
    ELSE CHOOSE step \in DOMAIN Before \ {"complete"} :
             Before[step] \subseteq status /\ step \notin status

\* setupRouteName
SetupPage == [api_key |-> "setup-api-key",
              telegram_api |-> "setup-telegram-api",
              telegram_login |-> "setup-telegram-login",
              listen_rules |-> "setup-listen-rules",
              channel_selection |-> "setup-channels"]

Public == {"setup-admin", "login"}
Page == Public \cup {"home"} \cup {SetupPage[step] : step \in DOMAIN SetupPage}

VARIABLES
    recorded,  \* server: the steps /api/setup/status reports
    session,   \* server: the cookie of this browser names a live session
    known,     \* server: channels the account's synchronisation has stored
    enabled,   \* server: channels with listening and history switched on
    synced,    \* server: channels a history sync was asked for
    page,      \* the page on screen ("blank" before the first navigation ends)
    nav,       \* the navigation the guard is deciding on
    loaded,    \* setup.loaded
    status,    \* setup.status
    me,        \* auth.loaded and auth.user: "unknown", "none" or "user"
    busy,      \* the stores whose loading flag is up
    jobs,      \* the suspended handlers
    failed,    \* an error message is on screen
    key,       \* SetupAPIKeyView.createdKey
    items,     \* channels.items, the store
    ticked,    \* SetupChannelSelectionView.selected
    tries,     \* emptyRefreshAttempts
    timers,    \* armed refresh timers: of the page on screen, or left behind
    faults, visits

server == <<recorded, session, known, enabled, synced>>
stores == <<loaded, status, me, busy, items>>
screen == <<page, nav, failed, key, ticked, tries, timers>>
vars == <<server, stores, screen, jobs, faults, visits>>

Kind == {"admin", "login", "api_key", "telegram_api", "blank_api",
         "telegram_login", "listen_rules", "channels", "finish"}
\* What a handler awaits.
Await == {"post", "load", "get", "controls", "sync", "complete"}
NoJob == [kind |-> "none"]
Job == [kind : Kind, at : Await, own : BOOLEAN, arg : SUBSET Channel,
        auto : BOOLEAN, tries : 0..MaxRefresh]
NoNav == [to |-> "none"]
Nav == [to : Page, waits : {"setup", "me"}]
\* own: of the page on screen, not of one that was left.
Timer == [own : BOOLEAN, tries : 0..MaxRefresh]

TypeOK ==
    /\ recorded \subseteq Step /\ status \subseteq Step
    /\ session \in BOOLEAN /\ loaded \in BOOLEAN /\ failed \in BOOLEAN /\ key \in BOOLEAN
    /\ {known, enabled, synced, items, ticked} \subseteq SUBSET Channel
    /\ page \in Page \cup {"blank"}
    /\ nav \in Nav \cup {NoNav}
    /\ me \in {"unknown", "none", "user"}
    /\ busy \subseteq {"setup", "telegram", "channels"}
    /\ jobs \in [Slot -> Job \cup {NoJob}]
    /\ tries \in 0..MaxRefresh
    /\ timers \subseteq Timer
    /\ faults \in 0..MaxFaults /\ visits \in 0..MaxVisits

\* A release ships Telegram credentials; a row stored without them counts as
\* not configured.
Init ==
    /\ recorded \in {{}, {"telegram_api"}}
    /\ session = FALSE
    /\ known = {} /\ enabled = {} /\ synced = {}
    /\ page = "blank"
    /\ nav \in {[to |-> p, waits |-> "setup"] : p \in Page}
    /\ loaded = FALSE /\ status = {} /\ me = "unknown"
    /\ busy = {"setup"}
    /\ jobs = [s \in Slot |-> NoJob]
    /\ failed = FALSE /\ key = FALSE
    /\ items = {} /\ ticked = {} /\ tries = 0 /\ timers = {}
    /\ faults = 0 /\ visits = 0

-----------------------------------------------------------------------------
(* Pages: leaving one and mounting the next.                                *)

Free == {s \in Slot : jobs[s] = NoJob}
NewJob(kind, at, arg) ==
    [kind |-> kind, at |-> at, own |-> TRUE, arg |-> arg, auto |-> FALSE, tries |-> 0]

\* loadChannels of SetupChannelSelectionView; auto: begun by the timer, as the
\* n-th of its refreshes.
Refresh(own, auto, n) ==
    [kind |-> "channels", at |-> "get", own |-> own, arg |-> {}, auto |-> auto, tries |-> n]

\* The handlers of a page that is left keep running, and so does a timer they
\* arm later; onUnmounted clears the timer that is armed now.
Left(js) == [s \in Slot |-> IF js[s] = NoJob THEN NoJob ELSE [js[s] EXCEPT !.own = FALSE]]

\* onMounted: SetupAPIKeyView asks for the key, the channel page for its list.
MountJobs(p) ==
    CASE p = "setup-api-key" -> {NewJob("api_key", "post", {})}
      [] p = "setup-channels" -> {Refresh(TRUE, FALSE, 0)}
      [] OTHER -> {}

\* The navigation ends on page p; js are the jobs then, flags the stores
\* that are loading.
Enter(p, js, flags) ==
    /\ nav' = NoNav
    /\ page' = p
    /\ IF p = page
       THEN /\ jobs' = js /\ busy' = flags
            /\ UNCHANGED <<failed, key, ticked, tries, timers>>
       ELSE /\ \/ MountJobs(p) = {} /\ jobs' = Left(js)
               \/ \E job \in MountJobs(p), s \in Slot :
                      js[s] = NoJob /\ jobs' = [Left(js) EXCEPT ![s] = job]
            /\ busy' = IF p = "setup-channels" THEN flags \cup {"channels"} ELSE flags
            /\ failed' = FALSE /\ key' = FALSE /\ ticked' = {} /\ tries' = 0
            /\ timers' = {t \in timers : ~t.own}

\* (mutant) A user who is logged in may go anywhere.
GuardOpen(to, known_status, user) ==
    IF "admin" \notin known_status THEN "setup-admin"
    ELSE IF to \in Public \/ user # "user" THEN "login" ELSE to

\* The guard, once it has what it needs: the page a navigation ends on.
Guard(to, known_status, user) ==
    IF "admin" \notin known_status THEN "setup-admin"
    ELSE IF to = "setup-admin" THEN "login"
    ELSE IF to \in Public THEN to
    ELSE IF user # "user" THEN "login"
    ELSE IF "complete" \notin known_status THEN SetupPage[CurrentStep(known_status)]
    ELSE to

\* The guard needs auth.loadMe only for a page that is not public.
AsksMe(to, known_status, user) ==
    "admin" \in known_status /\ to \notin Public /\ user = "unknown"

\* router.push, with the stores as the caller leaves them.
Push(to, js, flags, known_status, user) ==
    IF AsksMe(to, known_status, user)
    THEN /\ nav' = [to |-> to, waits |-> "me"]
         /\ jobs' = js /\ busy' = flags
         /\ UNCHANGED <<page, failed, key, ticked, tries, timers>>
    ELSE Enter(Guard(to, known_status, user), js, flags)

\* beforeEach after setup.load: an error ends the navigation.
GuardSetupLoaded ==
    /\ nav # NoNav /\ nav.waits = "setup"
    /\ loaded' = TRUE /\ status' = recorded
    /\ Push(nav.to, jobs, busy \ {"setup"}, recorded, me)
    /\ UNCHANGED <<server, me, items, faults, visits>>

GuardSetupFails ==
    /\ nav # NoNav /\ nav.waits = "setup" /\ faults < MaxFaults
    /\ nav' = NoNav /\ failed' = TRUE
    /\ busy' = busy \ {"setup"}
    /\ faults' = faults + 1
    /\ UNCHANGED <<server, loaded, status, me, items, page, key, ticked, tries, timers,
                   jobs, visits>>

\* beforeEach after auth.loadMe, which reads every error as "no user".
GuardMeLoaded(answered) ==
    /\ nav # NoNav /\ nav.waits = "me"
    /\ answered \/ faults < MaxFaults
    /\ faults' = IF answered THEN faults ELSE faults + 1
    /\ me' = IF answered /\ session THEN "user" ELSE "none"
    /\ Enter(Guard(nav.to, status, me'), jobs, busy)
    /\ UNCHANGED <<server, loaded, status, items, visits>>

-----------------------------------------------------------------------------
(* The user.                                                                *)

Start(job, flags) ==
    /\ \E s \in Free : jobs' = [jobs EXCEPT ![s] = job]
    /\ busy' = busy \cup flags
    /\ UNCHANGED <<server, loaded, status, me, items, screen, faults, visits>>

Running(kind) == \E s \in Slot : jobs[s].kind = kind /\ jobs[s].own

\* The buttons of SetupAdminView and LoginView are off while their handler
\* runs, but the Enter key logs in again.
SubmitAdmin == page = "setup-admin" /\ ~Running("admin") /\ Start(NewJob("admin", "post", {}), {})
SubmitLogin == page = "login" /\ Start(NewJob("login", "post", {}), {})

\* The button of SetupTelegramApiView is off while the store's flag is up; the
\* form may be left blank.
SubmitTelegramApi(filled) ==
    /\ page = "setup-telegram-api" /\ "telegram" \notin busy
    /\ Start(NewJob(IF filled THEN "telegram_api" ELSE "blank_api", "post", {}), {"telegram"})

SubmitTelegramLogin ==
    /\ page = "setup-telegram-login" /\ ~Running("telegram_login")
    /\ Start(NewJob("telegram_login", "post", {}), {})

SubmitListenRules ==
    /\ page = "setup-listen-rules" /\ "setup" \notin busy
    /\ Start(NewJob("listen_rules", "post", {}), {})

Tick(c) ==
    /\ page = "setup-channels" /\ c \in items
    /\ ticked' = IF c \in ticked THEN ticked \ {c} ELSE ticked \cup {c}
    /\ UNCHANGED <<server, stores, page, nav, failed, key, tries, timers, jobs, faults, visits>>

ClickRefresh ==
    /\ page = "setup-channels" /\ "channels" \notin busy
    /\ Start(Refresh(TRUE, FALSE, tries), {"channels"})

ClickFinish ==
    /\ page = "setup-channels" /\ busy \cap {"channels", "setup"} = {}
    /\ LET selected == items \cap ticked IN
       IF selected = {}
       THEN Start(NewJob("finish", "complete", {}), {})
       ELSE Start(NewJob("finish", "controls", selected), {"channels"})

\* The button under a new API key, a link of AppLayout, or the Back button.
GoTo(to) ==
    /\ nav = NoNav /\ page # "blank" /\ me # "unknown"
    /\ \/ page = "setup-api-key" /\ key /\ to = "setup-telegram-api" /\ visits' = visits
       \/ visits < MaxVisits /\ visits' = visits + 1
    /\ Push(to, jobs, busy, status, me)
    /\ UNCHANGED <<server, loaded, status, me, items, faults>>

\* A page is opened anew: the stores, the jobs and the timers are gone.
Open(to) ==
    /\ page' = "blank" /\ nav' = [to |-> to, waits |-> "setup"]
    /\ loaded' = FALSE /\ status' = {} /\ me' = "unknown" /\ busy' = {"setup"}
    /\ items' = {} /\ ticked' = {} /\ tries' = 0 /\ timers' = {}
    /\ jobs' = [s \in Slot |-> NoJob]
    /\ failed' = FALSE /\ key' = FALSE
    /\ UNCHANGED <<server, faults>>

Reload(to) == failed /\ Open(to) /\ UNCHANGED visits
OpenAnother(to) == visits < MaxVisits /\ Open(to) /\ visits' = visits + 1

-----------------------------------------------------------------------------
(* The server.                                                              *)

\* setupAdmin wants no user yet, authLogin one; allowSetupWrite and the
\* administration routes want a session; the status is public.
Accepts(job) ==
    CASE job.at = "load" -> TRUE
      [] job.kind = "admin" -> "admin" \notin recorded
      [] job.kind = "login" -> "admin" \in recorded
      [] OTHER -> "admin" \in recorded /\ session

StepOf(job) ==
    IF job.at = "post" THEN {job.kind} \cap Step
    ELSE IF job.at = "complete" THEN {"complete"} ELSE {}

ServerDoes(job) ==
    /\ recorded' = recorded \cup StepOf(job)
    /\ session' = (session \/ job.kind = "login")
    /\ enabled' = IF job.at = "controls" THEN enabled \cup job.arg ELSE enabled
    /\ synced' = IF job.at = "sync" THEN synced \cup job.arg ELSE synced
    /\ UNCHANGED known

-----------------------------------------------------------------------------
(* The answers.                                                             *)

\* The flag that withLoading and setup.load take down, whoever put it up.
Flag(job) ==
    CASE job.at = "load" -> {"setup"}
      [] job.kind \in {"telegram_api", "blank_api"} -> {"telegram"}
      [] job.at \in {"get", "controls", "sync"} -> {"channels"}
      [] OTHER -> {}

Without(s) == [jobs EXCEPT ![s] = NoJob]
Goes(s, at) == [jobs EXCEPT ![s].at = at]

\* (mutant) The number of automatic refreshes is not looked at.
RearmAlways(job, list) ==
    timers' = IF list = {} THEN timers \cup {[own |-> job.own, tries |-> tries]} ELSE timers

\* scheduleEmptyRefresh, of the page on screen or of one that was left.
Rearm(job, list) ==
    LET n == IF job.own THEN tries ELSE job.tries
        kept == IF job.own THEN {t \in timers : ~t.own} ELSE timers
    IN timers' = IF list = {} /\ n < MaxRefresh
                 THEN kept \cup {[own |-> job.own, tries |-> n]} ELSE kept

\* A request is refused or lost, or (done) its answer is lost.  The handler
\* shows the message and ends; a refresh the timer began is tried again, one
\* that the mount or the button began ends without a word.
Fails(s, done) ==
    LET job == jobs[s] IN
    /\ job # NoJob
    /\ IF done
       THEN Accepts(job) /\ faults < MaxFaults /\ faults' = faults + 1 /\ ServerDoes(job)
       ELSE /\ UNCHANGED server
            /\ \/ ~Accepts(job) /\ faults' = faults
               \/ Accepts(job) /\ faults < MaxFaults /\ faults' = faults + 1
    /\ jobs' = Without(s)
    /\ busy' = busy \ Flag(job)
    /\ failed' = (failed \/ job.kind # "channels")
    /\ IF job.auto THEN Rearm(job, items) ELSE UNCHANGED timers
    /\ UNCHANGED <<loaded, status, me, items, page, nav, key, ticked, tries, visits>>

\* The first request of a handler that loads the status next.
PostAnswered(s) ==
    LET job == jobs[s] IN
    /\ job.kind \in {"admin", "api_key", "telegram_api", "blank_api", "telegram_login"}
    /\ job.at = "post" /\ Accepts(job)
    /\ ServerDoes(job)
    /\ jobs' = Goes(s, "load")
    /\ busy' = (busy \ Flag(job)) \cup {"setup"}
    /\ UNCHANGED <<loaded, status, me, items, screen, faults, visits>>

\* (mutant) The pages push the next one without loading the status again.
StatusLoadedStale(s) ==
    LET job == jobs[s] IN
    /\ job # NoJob /\ job.at = "load"
    /\ UNCHANGED <<server, loaded, status, me, items, faults, visits>>
    /\ IF job.kind = "api_key"
       THEN /\ key' = (key \/ job.own)
            /\ jobs' = Without(s) /\ busy' = busy \ {"setup"}
            /\ UNCHANGED <<page, nav, failed, ticked, tries, timers>>
       ELSE Push(IF job.kind = "admin" THEN "login" ELSE "setup-listen-rules",
                 Without(s), busy \ {"setup"}, status, me)

\* setup.load at the end of a handler, which then moves on; SetupAPIKeyView
\* shows the key and waits.
StatusLoaded(s) ==
    LET job == jobs[s]
        next == [admin |-> "login", telegram_api |-> "setup-telegram-login",
                 blank_api |-> "setup-telegram-login",
                 telegram_login |-> "setup-listen-rules"]
    IN
    /\ job # NoJob /\ job.at = "load"
    /\ loaded' = TRUE /\ status' = recorded
    /\ IF job.kind = "api_key"
       THEN /\ key' = (key \/ job.own)
            /\ jobs' = Without(s) /\ busy' = busy \ {"setup"}
            /\ UNCHANGED <<page, nav, failed, ticked, tries, timers>>
       ELSE Push(next[job.kind], Without(s), busy \ {"setup"}, recorded, me)
    /\ UNCHANGED <<server, me, items, faults, visits>>

LoginAnswered(s) ==
    /\ jobs[s].kind = "login" /\ Accepts(jobs[s])
    /\ ServerDoes(jobs[s])
    /\ me' = "user"
    /\ IF loaded THEN Push("home", Without(s), busy, status, "user")
       ELSE /\ nav' = [to |-> "home", waits |-> "setup"]
            /\ jobs' = Without(s) /\ busy' = busy \cup {"setup"}
            /\ UNCHANGED <<page, failed, key, ticked, tries, timers>>
    /\ UNCHANGED <<loaded, status, items, faults, visits>>

\* saveListenRules keeps the status that the answer carries; no loading flag.
RulesAnswered(s) ==
    /\ jobs[s].kind = "listen_rules" /\ Accepts(jobs[s])
    /\ ServerDoes(jobs[s])
    /\ loaded' = TRUE /\ status' = recorded'
    /\ Push("setup-channels", Without(s), busy, recorded', me)
    /\ UNCHANGED <<me, items, faults, visits>>

\* loadChannels of the page: the boxes follow the server.
ChannelsAnswered(s) ==
    LET job == jobs[s] IN
    /\ job.kind = "channels" /\ Accepts(job)
    /\ items' = known
    /\ ticked' = IF job.own THEN (ticked \ known) \cup (known \cap enabled) ELSE ticked
    /\ Rearm(job, known)
    /\ jobs' = Without(s) /\ busy' = busy \ {"channels"}
    /\ UNCHANGED <<server, loaded, status, me, page, nav, failed, key, tries, faults, visits>>

\* (mutant) The requests of finish are sent one after the other, not awaited.
FinishGoesOnUnsynced(s) ==
    LET job == jobs[s] IN
    /\ job.kind = "finish" /\ job.at \in {"controls", "sync"} /\ Accepts(job)
    /\ ServerDoes(job)
    /\ jobs' = Goes(s, "complete")
    /\ busy' = busy \ {"channels"}
    /\ UNCHANGED <<loaded, status, me, items, screen, faults, visits>>

\* (mutant) The store believes the set-up complete before the server does.
FinishGoesOnEarly(s) ==
    LET job == jobs[s] IN
    /\ job.kind = "finish" /\ job.at \in {"controls", "sync"} /\ Accepts(job)
    /\ ServerDoes(job)
    /\ jobs' = Goes(s, IF job.at = "controls" THEN "sync" ELSE "complete")
    /\ status' = status \cup {"complete"}
    /\ UNCHANGED <<loaded, busy, me, items, screen, faults, visits>>

\* finish: updateControls, then syncChannels, then completeSetup.
FinishGoesOn(s) ==
    LET job == jobs[s] IN
    /\ job.kind = "finish" /\ job.at \in {"controls", "sync"} /\ Accepts(job)
    /\ ServerDoes(job)
    /\ jobs' = Goes(s, IF job.at = "controls" THEN "sync" ELSE "complete")
    /\ busy' = IF job.at = "controls" THEN busy \cup {"channels"} ELSE busy \ {"channels"}
    /\ UNCHANGED <<loaded, status, me, items, screen, faults, visits>>

FinishAnswered(s) ==
    /\ jobs[s].kind = "finish" /\ jobs[s].at = "complete" /\ Accepts(jobs[s])
    /\ ServerDoes(jobs[s])
    /\ loaded' = TRUE /\ status' = recorded'
    /\ Push("home", Without(s), busy, recorded', me)
    /\ UNCHANGED <<me, items, faults, visits>>

Answered(s) ==
    \/ PostAnswered(s) \/ StatusLoaded(s) \/ LoginAnswered(s) \/ RulesAnswered(s)
    \/ ChannelsAnswered(s) \/ FinishGoesOn(s) \/ FinishAnswered(s)

\* The timer fires; while the store is loading it only arms itself again.
TimerFires(t) ==
    /\ t \in timers /\ "channels" \notin busy
    /\ timers' = timers \ {t}
    /\ \E s \in Free :
           jobs' = [jobs EXCEPT ![s] = Refresh(t.own, TRUE, t.tries + 1)]
    /\ tries' = IF t.own THEN tries + 1 ELSE tries
    /\ busy' = busy \cup {"channels"}
    /\ UNCHANGED <<server, loaded, status, me, items, page, nav, failed, key, ticked,
                   faults, visits>>

-----------------------------------------------------------------------------
(* The rest of the world.                                                   *)

\* Another browser takes the next step of the same set-up.
Elsewhere(step) ==
    /\ faults < MaxFaults /\ faults' = faults + 1
    /\ step = CurrentStep(recorded) \/ (CurrentStep(recorded) = "channel_selection" /\ step = "complete")
    /\ recorded' = recorded \cup {step}
    /\ UNCHANGED <<session, known, enabled, synced, stores, screen, jobs, visits>>

\* Expired, or deleted by a log-out.
SessionEnds ==
    /\ session /\ faults < MaxFaults /\ faults' = faults + 1
    /\ session' = FALSE
    /\ UNCHANGED <<recorded, known, enabled, synced, stores, screen, jobs, visits>>

\* The synchronisation that follows the Telegram log-in stores the channels.
ChannelStored(c) ==
    /\ "telegram_login" \in recorded /\ c \notin known
    /\ known' = known \cup {c}
    /\ UNCHANGED <<recorded, session, enabled, synced, stores, screen, jobs, faults, visits>>

Next ==
    \/ GuardSetupLoaded \/ GuardSetupFails
    \/ \E answered \in BOOLEAN : GuardMeLoaded(answered)
    \/ SubmitAdmin \/ SubmitLogin \/ SubmitTelegramLogin \/ SubmitListenRules
    \/ \E filled \in BOOLEAN : SubmitTelegramApi(filled)
    \/ \E c \in Channel : Tick(c) \/ ChannelStored(c)
    \/ ClickRefresh \/ ClickFinish
    \/ \E to \in Page : GoTo(to) \/ Reload(to) \/ OpenAnother(to)
    \/ \E s \in Slot : Answered(s) \/ \E done \in BOOLEAN : Fails(s, done)
    \/ \E t \in timers : TimerFires(t)
    \/ \E step \in Step : Elsewhere(step)
    \/ SessionEnds

\* Requests are answered, and the user works through the pages: submits the
\* form on screen (with credentials, at last), and reloads a page that shows
\* an error.
Fairness ==
    /\ WF_vars(GuardSetupLoaded) /\ WF_vars(GuardMeLoaded(TRUE))
    /\ \A s \in Slot : WF_vars(Answered(s)) /\ WF_vars(Fails(s, FALSE))
    /\ WF_vars(SubmitAdmin) /\ WF_vars(SubmitLogin)
    /\ SF_vars(SubmitTelegramApi(TRUE)) /\ WF_vars(SubmitTelegramLogin)
    /\ SF_vars(SubmitListenRules) /\ SF_vars(ClickFinish)
    /\ WF_vars(GoTo("setup-telegram-api")) /\ WF_vars(Reload("home"))

Spec == Init /\ [][Next]_vars
FairSpec == Spec /\ Fairness

-----------------------------------------------------------------------------
(* Properties.                                                              *)

Wizard == INSTANCE SetupWizard WITH done <- recorded, shown <- page

\* No page is ahead of the server, and no step is recorded before the steps it
\* builds on, although the router decides on a copy of the status that may be
\* old, handlers go on after their page was left, and the server takes the
\* steps in any order.
ImplementsWizard == Wizard!Spec

\* setup.status is a state the server has been in: no answer that arrives late
\* makes the router believe in a step that was never taken.
StatusNotAhead == status \subseteq recorded

\* Set-up is not completed by this browser before the channels that were
\* selected when the button was pressed are enabled and their history is
\* asked for, whichever of the three requests fails and is tried again.
FinishIsWhole ==
    [][\A s \in Slot :
          (jobs[s].kind = "finish" /\ jobs[s].at = "complete" /\ jobs'[s] = NoJob)
             => jobs[s].arg \subseteq enabled' \cap synced']_vars

\* The set-up comes to an end: no error, reload, ended session or step taken
\* elsewhere leaves the user on a page that leads nowhere.
SetupEnds == <>[](page = "home")
=============================================================================
