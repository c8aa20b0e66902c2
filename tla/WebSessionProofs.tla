-------------------------- MODULE WebSessionProofs --------------------------
(***************************************************************************)
(* Proofs about WebSession for any number of channels, handlers, refreshes, *)
(* faults and visits: its type invariant, that the browser never believes   *)
(* more than the server has recorded, that set-up is completed whole, and   *)
(* that it implements SetupWizard.                                         *)
(***************************************************************************)
EXTENDS WebSession, TLAPS

\* The steps come in order; telegram_api alone may be recorded from the start.
Closed(steps) == \A step \in steps \ {"telegram_api"} : Before[step] \subseteq steps

\* What a handler builds on: the page it was begun on was shown for it.
Builds(job) ==
    CASE job.kind \in Step -> Before[job.kind]
      [] job.kind = "finish" -> Before.complete
      [] OTHER -> {}

\* A handler, given what the server has recorded, enabled and synchronised.
Fits(job, done, on, asked) ==
    /\ job \in Job
    /\ Builds(job) \subseteq done
    /\ job.kind = "finish" <=> job.at \in {"controls", "sync", "complete"}
    /\ job.at = "load" => job.kind \in {"admin", "api_key", "telegram_api", "blank_api",
                                        "telegram_login"}
    /\ job.at \in {"sync", "complete"} => job.arg \subseteq on
    /\ job.at = "complete" => job.arg \subseteq asked

JobsFit(js, done, on, asked) ==
    /\ js \in [Slot -> Job \cup {NoJob}]
    /\ \A s \in Slot : js[s] # NoJob => Fits(js[s], done, on, asked)

Store == {"setup", "telegram", "channels"}

ServerInv ==
    /\ recorded \subseteq Step /\ Closed(recorded) /\ session \in BOOLEAN
    /\ known \subseteq Channel /\ enabled \subseteq Channel /\ synced \subseteq Channel

StoresInv ==
    /\ loaded \in BOOLEAN /\ me \in {"unknown", "none", "user"}
    /\ status \subseteq recorded /\ Closed(status)
    /\ busy \subseteq Store /\ items \subseteq Channel

\* The timer of the page on screen was armed with the number of refreshes so far.
TimersInv ==
    /\ tries \in 0..MaxRefresh
    /\ \A t \in timers : t \in Timer /\ t.tries < MaxRefresh /\ (t.own => t.tries = tries)

ScreenInv ==
    /\ page \in Page \cup {"blank"} /\ Wizard!Needs(page) \subseteq recorded
    /\ nav \in Nav \cup {NoNav}
    /\ failed \in BOOLEAN /\ key \in BOOLEAN /\ ticked \subseteq Channel
    /\ TimersInv

CountsInv == faults \in 0..MaxFaults /\ visits \in 0..MaxVisits

Inv ==
    /\ ServerInv /\ StoresInv /\ ScreenInv /\ CountsInv
    /\ JobsFit(jobs, recorded, enabled, synced)

LEMMA InvHolds == Inv => TypeOK /\ StatusNotAhead
  BY DEF Inv, ServerInv, StoresInv, ScreenInv, TimersInv, CountsInv, JobsFit, TypeOK,
         StatusNotAhead, Store

-----------------------------------------------------------------------------
(* The guard of the router.                                                 *)

LEMMA PageNames ==
    Page = {"setup-admin", "login", "home", "setup-api-key", "setup-telegram-api",
            "setup-telegram-login", "setup-listen-rules", "setup-channels"}
<1>1. {SetupPage[step] : step \in DOMAIN SetupPage}
        = {"setup-api-key", "setup-telegram-api", "setup-telegram-login",
           "setup-listen-rules", "setup-channels"}
  BY DEF SetupPage
<1>2. QED
  BY <1>1 DEF Page, Public

\* The step looked for is the next one, and its page builds on the ones before.
LEMMA CurrentStepNext ==
    ASSUME NEW steps \in SUBSET Step, Closed(steps), "complete" \notin steps
    PROVE  /\ CurrentStep(steps) \in {"admin", "api_key", "telegram_api", "telegram_login",
                                      "listen_rules", "channel_selection"}
           /\ CurrentStep(steps) \notin steps
           /\ Before[CurrentStep(steps)] \subseteq steps
<1> DEFINE Ordinary == {"admin", "api_key", "telegram_api", "telegram_login", "listen_rules",
                        "channel_selection"}
           Fit(step) == Before[step] \subseteq steps /\ step \notin steps
<1>1. DOMAIN Before \ {"complete"} = Ordinary
  BY DEF Before
<1>2. \E step \in Ordinary : Fit(step)
  <2>1. CASE "admin" \notin steps
    BY <2>1 DEF Before
  <2>2. CASE "admin" \in steps /\ "api_key" \notin steps
    BY <2>2 DEF Before
  <2>3. CASE {"admin", "api_key"} \subseteq steps /\ "telegram_api" \notin steps
    BY <2>3 DEF Before
  <2>4. CASE {"admin", "api_key", "telegram_api"} \subseteq steps /\ "telegram_login" \notin steps
    BY <2>4 DEF Before
  <2>5. CASE {"admin", "api_key", "telegram_api", "telegram_login"} \subseteq steps
             /\ "listen_rules" \notin steps
    BY <2>5 DEF Before
  <2>6. CASE {"admin", "api_key", "telegram_api", "telegram_login", "listen_rules"} \subseteq steps
    <3>1. Before["channel_selection"] \subseteq steps
      BY <2>6 DEF Before, Step
    <3>2. "channel_selection" \notin steps
      BY DEF Step
    <3>3. QED
      BY <3>1, <3>2
  <2>7. QED
    BY <2>1, <2>2, <2>3, <2>4, <2>5, <2>6
<1>3. CurrentStep(steps) = CHOOSE step \in Ordinary : Fit(step)
  BY <1>1 DEF CurrentStep
<1> HIDE DEF Ordinary, Fit
<1>4. CurrentStep(steps) \in Ordinary /\ Fit(CurrentStep(steps))
  BY <1>2, <1>3
<1>5. QED
  BY <1>4 DEF Ordinary, Fit

\* Closed sets of steps hold all that the last page builds on.
LEMMA CompleteIsLast ==
    ASSUME NEW steps \in SUBSET Step, Closed(steps), "complete" \in steps
    PROVE  steps = Step
<1>1. Before["complete"] \subseteq steps
  BY DEF Closed
<1>2. Before["complete"] = Step \ {"complete"}
  BY DEF Before
<1>3. QED
  BY <1>1, <1>2

\* The guard shows a page only when the status it decides on has its steps.
LEMMA GuardShows ==
    ASSUME NEW to \in Page, NEW steps \in SUBSET Step, Closed(steps), NEW user
    PROVE  /\ Guard(to, steps, user) \in Page
           /\ Wizard!Needs(Guard(to, steps, user)) \subseteq steps
<1>1. CASE "admin" \notin steps
  BY <1>1, PageNames DEF Guard, Wizard!Needs
<1>2. CASE "admin" \in steps /\ (to \in Public \/ user # "user")
  BY <1>2, PageNames DEF Guard, Wizard!Needs, Public
<1>3. CASE "admin" \in steps /\ to \notin Public /\ user = "user" /\ "complete" \in steps
  <2>1. steps = Step
    BY <1>3, CompleteIsLast
  <2>2. Guard(to, steps, user) = to
    BY <1>3 DEF Guard, Public
  <2>3. Wizard!Needs(to) \subseteq Step
    BY PageNames DEF Wizard!Needs, Wizard!Before, Wizard!Step, Step
  <2>4. QED
    BY <2>1, <2>2, <2>3
<1>4. CASE "admin" \in steps /\ to \notin Public /\ user = "user" /\ "complete" \notin steps
  <2> DEFINE step == CurrentStep(steps)
  <2>1. step \in {"api_key", "telegram_api", "telegram_login", "listen_rules",
                  "channel_selection"}
        /\ Before[step] \subseteq steps
    BY <1>4, CurrentStepNext
  <2>2. Guard(to, steps, user) = SetupPage[step]
    BY <1>4 DEF Guard, Public
  <2> HIDE DEF step
  <2>3. SetupPage[step] \in Page /\ Wizard!Needs(SetupPage[step]) = Before[step]
    BY <2>1, PageNames DEF SetupPage, Wizard!Needs, Wizard!Before, Before, Wizard!Step, Step
  <2>4. QED
    BY <2>1, <2>2, <2>3
<1>5. QED
  BY <1>1, <1>2, <1>3, <1>4

-----------------------------------------------------------------------------
(* Handlers and navigations.                                                *)

\* The server never takes back what it recorded, enabled or synchronised.
Grows ==
    /\ recorded \subseteq recorded' /\ enabled \subseteq enabled' /\ synced \subseteq synced'

LEMMA FitsLater ==
    ASSUME NEW job, NEW done, NEW on, NEW asked, NEW done2, NEW on2, NEW asked2,
           done \subseteq done2, on \subseteq on2, asked \subseteq asked2,
           Fits(job, done, on, asked)
    PROVE  Fits(job, done2, on2, asked2)
  BY DEF Fits

LEMMA JobsFitLater ==
    ASSUME NEW js, JobsFit(js, recorded, enabled, synced), Grows
    PROVE  JobsFit(js, recorded', enabled', synced')
  BY FitsLater DEF JobsFit, Grows

\* One handler more, one that moved on, or one less.
LEMMA JobsFitWith ==
    ASSUME NEW js, NEW done, NEW on, NEW asked, JobsFit(js, done, on, asked),
           NEW s \in Slot, NEW job, job = NoJob \/ Fits(job, done, on, asked)
    PROVE  JobsFit([js EXCEPT ![s] = job], done, on, asked)
  BY DEF JobsFit, Fits

\* A handler whose page was left is as good as before.
LEMMA LeftFits ==
    ASSUME NEW js, NEW done, NEW on, NEW asked, JobsFit(js, done, on, asked)
    PROVE  JobsFit(Left(js), done, on, asked)
<1>1. ASSUME NEW s \in Slot, js[s] # NoJob
      PROVE  Fits([js[s] EXCEPT !.own = FALSE], done, on, asked)
  BY <1>1 DEF JobsFit, Fits, Job, Builds
<1>2. QED
  BY <1>1 DEF JobsFit, Left, Fits

\* Asking for the channels builds on nothing.
LEMMA RefreshFits ==
    ASSUME NEW own \in BOOLEAN, NEW auto \in BOOLEAN, NEW n \in 0..MaxRefresh,
           NEW done, NEW on, NEW asked
    PROVE  Fits(Refresh(own, auto, n), done, on, asked)
<1> DEFINE job == [kind |-> "channels", at |-> "get", own |-> own, arg |-> {}, auto |-> auto,
                   tries |-> n]
<1>1. job \in Job
  BY DEF Job, Kind, Await
<1>2. Builds(job) = {}
  BY DEF Builds, Step
<1>3. Fits(job, done, on, asked)
  BY <1>1, <1>2 DEF Fits
<1>4. QED
  BY <1>3 DEF Refresh

LEMMA MountFits ==
    ASSUME NEW p \in Page, NEW done, NEW on, NEW asked, Wizard!Needs(p) \subseteq done,
           NEW job \in MountJobs(p)
    PROVE  Fits(job, done, on, asked)
<1>1. CASE p = "setup-api-key"
  <2>1. job = [kind |-> "api_key", at |-> "post", own |-> TRUE, arg |-> {}, auto |-> FALSE,
               tries |-> 0]
    BY <1>1 DEF MountJobs, NewJob
  <2>2. Before["api_key"] \subseteq done
    BY <1>1 DEF Wizard!Needs, Wizard!Before, Before
  <2>3. QED
    BY <2>1, <2>2, WebSessionAssumption DEF Fits, Builds, Job, Kind, Await, Step
<1>2. CASE p = "setup-channels"
  <2>1. job = Refresh(TRUE, FALSE, 0)
    BY <1>2 DEF MountJobs
  <2>2. 0 \in 0..MaxRefresh
    BY WebSessionAssumption
  <2>3. QED
    BY <2>1, <2>2, RefreshFits
<1>3. CASE p \notin {"setup-api-key", "setup-channels"}
  BY <1>3 DEF MountJobs
<1>4. QED
  BY <1>1, <1>2, <1>3

\* A navigation that ends on a page the server is ready for.
LEMMA EnterKeeps ==
    ASSUME ScreenInv, Grows, NEW p \in Page, Wizard!Needs(p) \subseteq recorded',
           NEW js, JobsFit(js, recorded', enabled', synced'),
           NEW flags \in SUBSET Store, Enter(p, js, flags)
    PROVE  ScreenInv' /\ JobsFit(jobs', recorded', enabled', synced') /\ busy' \subseteq Store
<1>1. CASE p = page
  BY <1>1 DEF Enter, ScreenInv, TimersInv
<1>2. CASE p # page
  <2>1. TimersInv'
    BY <1>2, WebSessionAssumption DEF Enter, ScreenInv, TimersInv
  <2>2. ScreenInv'
    BY <1>2, <2>1 DEF Enter, ScreenInv
  <2>3. JobsFit(jobs', recorded', enabled', synced')
    <3>1. CASE jobs' = Left(js)
      BY <3>1, LeftFits
    <3>2. ASSUME NEW job \in MountJobs(p), NEW s \in Slot, jobs' = [Left(js) EXCEPT ![s] = job]
          PROVE  JobsFit(jobs', recorded', enabled', synced')
      BY <3>2, LeftFits, MountFits, JobsFitWith
    <3>3. QED
      BY <1>2, <3>1, <3>2 DEF Enter
  <2>4. busy' \subseteq Store
    BY <1>2 DEF Enter, Store
  <2>5. QED
    BY <2>2, <2>3, <2>4
<1>3. QED
  BY <1>1, <1>2

LEMMA PushKeeps ==
    ASSUME ScreenInv, Grows, NEW to \in Page, NEW js, JobsFit(js, recorded', enabled', synced'),
           NEW flags \in SUBSET Store, NEW steps \in SUBSET recorded', recorded' \subseteq Step,
           Closed(steps), NEW user, Push(to, js, flags, steps, user)
    PROVE  ScreenInv' /\ JobsFit(jobs', recorded', enabled', synced') /\ busy' \subseteq Store
<1>1. CASE AsksMe(to, steps, user)
  <2>1. [to |-> to, waits |-> "me"] \in Nav
    BY DEF Nav
  <2>2. QED
    BY <1>1, <2>1 DEF Push, ScreenInv, TimersInv, Grows
<1>2. CASE ~AsksMe(to, steps, user)
  <2>1. Guard(to, steps, user) \in Page /\ Wizard!Needs(Guard(to, steps, user)) \subseteq steps
    BY GuardShows
  <2>2. Enter(Guard(to, steps, user), js, flags)
    BY <1>2 DEF Push
  <2>3. QED
    BY <2>1, <2>2, EnterKeeps
<1>3. QED
  BY <1>1, <1>2

\* What shows on the page itself is left alone.
LEMMA ScreenStays ==
    ASSUME ScreenInv, Grows, UNCHANGED screen PROVE ScreenInv'
  BY DEF ScreenInv, TimersInv, Grows, screen

\* The timers after a list was loaded, or failed to.
LEMMA RearmKeeps ==
    ASSUME TimersInv, NEW job \in Job, NEW list, Rearm(job, list), tries' = tries
    PROVE  TimersInv'
<1> DEFINE n == IF job.own THEN tries ELSE job.tries
<1>1. n \in 0..MaxRefresh /\ n \in Nat /\ job.own \in BOOLEAN
  BY WebSessionAssumption DEF TimersInv, Job
<1>2. n < MaxRefresh => [own |-> job.own, tries |-> n] \in Timer
  BY <1>1 DEF Timer
<1>3. \A t \in timers' : t \in timers \/ (n < MaxRefresh /\ t = [own |-> job.own, tries |-> n])
  BY DEF Rearm
<1>4. QED
  BY <1>1, <1>2, <1>3 DEF TimersInv

-----------------------------------------------------------------------------
(* The server.                                                              *)

\* A handler records one step at most, the next one, or one already recorded.
LEMMA StepBuilds ==
    ASSUME NEW job, Fits(job, recorded, enabled, synced)
    PROVE  \/ StepOf(job) = {}
           \/ \E step \in Step : StepOf(job) = {step} /\ Before[step] \subseteq recorded
<1>1. CASE job.at = "post"
  <2>1. CASE job.kind \in Step
    BY <1>1, <2>1 DEF StepOf, Fits, Builds
  <2>2. CASE job.kind \notin Step
    BY <1>1, <2>2 DEF StepOf
  <2>3. QED
    BY <2>1, <2>2
<1>2. CASE job.at = "complete"
  <2>1. Before["complete"] \subseteq recorded
    BY <1>2 DEF Fits, Builds, Step
  <2>2. "complete" \in Step /\ StepOf(job) = {"complete"}
    BY <1>2 DEF StepOf, Step
  <2>3. QED
    BY <2>1, <2>2
<1>3. CASE job.at \notin {"post", "complete"}
  BY <1>3 DEF StepOf
<1>4. QED
  BY <1>1, <1>2, <1>3

LEMMA ClosedWith ==
    ASSUME NEW steps \in SUBSET Step, Closed(steps), NEW step \in Step,
           Before[step] \subseteq steps
    PROVE  Closed(steps \cup {step})
  BY DEF Closed

LEMMA ServerKeeps ==
    ASSUME ServerInv, NEW job, Fits(job, recorded, enabled, synced), ServerDoes(job)
    PROVE  ServerInv' /\ Grows
<1>1. recorded' \subseteq Step /\ Closed(recorded')
  BY StepBuilds, ClosedWith DEF ServerInv, ServerDoes
<1>2. session' \in BOOLEAN
  BY DEF ServerInv, ServerDoes
<1>3. job.arg \subseteq Channel
  BY DEF Fits, Job
<1>4. QED
  BY <1>1, <1>2, <1>3 DEF ServerInv, ServerDoes, Grows

-----------------------------------------------------------------------------
(* The invariant, at the start.                                             *)

LEMMA BlankNeeds == Wizard!Needs("blank") = {}
  BY DEF Wizard!Needs

LEMMA InvInit == Init => Inv
<1> SUFFICES ASSUME Init PROVE Inv
  OBVIOUS
<1>1. Closed({}) /\ Closed({"telegram_api"})
  BY DEF Closed, Before
<1>2. ServerInv
  BY <1>1 DEF Init, ServerInv, Step
<1>3. StoresInv
  BY <1>1 DEF Init, StoresInv, Store
<1>4. nav \in Nav
  BY DEF Init, Nav
<1>5. ScreenInv
  <2>1. page = "blank" /\ failed = FALSE /\ key = FALSE /\ ticked = {}
    BY DEF Init
  <2>2. TimersInv
    BY WebSessionAssumption DEF Init, TimersInv
  <2>3. QED
    BY <1>4, <2>1, <2>2, BlankNeeds DEF ScreenInv
<1>6. JobsFit(jobs, recorded, enabled, synced)
  BY DEF Init, JobsFit
<1>7. CountsInv
  BY WebSessionAssumption DEF Init, CountsInv
<1>8. QED
  BY <1>2, <1>3, <1>5, <1>6, <1>7 DEF Inv

-----------------------------------------------------------------------------
(* Steps that the server has no part in.                                    *)

LEMMA Idle == ASSUME UNCHANGED server, ServerInv PROVE ServerInv' /\ Grows
  BY DEF server, ServerInv, Grows

\* A page that is opened anew knows nothing.
LEMMA OpenKeeps ==
    ASSUME Inv, NEW to \in Page, Open(to)
    PROVE  ServerInv' /\ StoresInv' /\ ScreenInv' /\ JobsFit(jobs', recorded', enabled', synced')
           /\ faults' = faults
<1>1. ServerInv'
  BY Idle DEF Inv, Open
<1>2. StoresInv'
  BY DEF Open, StoresInv, Store, Closed, Inv
<1>3. [to |-> to, waits |-> "setup"] \in Nav
  BY DEF Nav
<1>4. ScreenInv'
  <2>1. TimersInv'
    BY WebSessionAssumption DEF Open, TimersInv
  <2>2. QED
    BY <1>3, <2>1, BlankNeeds DEF Open, ScreenInv
<1>5. JobsFit(jobs', recorded', enabled', synced')
  BY DEF Open, JobsFit
<1>6. QED
  BY <1>1, <1>2, <1>4, <1>5 DEF Open

\* A button of a page begins a handler.
LEMMA StartKeeps ==
    ASSUME Inv, NEW job, Fits(job, recorded, enabled, synced), NEW flags \in SUBSET Store,
           Start(job, flags)
    PROVE  Inv'
<1>1. ServerInv' /\ Grows
  BY Idle DEF Inv, Start
<1>2. PICK s \in Free : jobs' = [jobs EXCEPT ![s] = job]
  BY DEF Start
<1>3. JobsFit(jobs', recorded, enabled, synced)
  BY <1>2, JobsFitWith DEF Free, Inv
<1>4. JobsFit(jobs', recorded', enabled', synced')
  BY <1>3 DEF Start, server
<1>5. ScreenInv'
  BY <1>1, ScreenStays DEF Inv, Start
<1>6. StoresInv'
  BY DEF Start, StoresInv, Inv, server
<1>7. QED
  BY <1>1, <1>4, <1>5, <1>6 DEF Inv, Start, CountsInv

LEMMA NewJobFields ==
    ASSUME NEW kind, NEW at, NEW arg
    PROVE  NewJob(kind, at, arg) = [kind |-> kind, at |-> at, own |-> TRUE, arg |-> arg,
                                    auto |-> FALSE, tries |-> 0]
  BY DEF NewJob

\* The page a button is on was shown because its steps were recorded.
LEMMA ButtonFits ==
    ASSUME Inv, NEW kind \in {"admin", "login", "api_key", "telegram_api", "blank_api",
                              "telegram_login", "listen_rules"},
           kind \in Step => Before[kind] \subseteq recorded
    PROVE  Fits(NewJob(kind, "post", {}), recorded, enabled, synced)
<1> DEFINE job == [kind |-> kind, at |-> "post", own |-> TRUE, arg |-> {}, auto |-> FALSE,
                   tries |-> 0]
<1>1. NewJob(kind, "post", {}) = job
  BY NewJobFields
<1>2. job \in Job
  BY WebSessionAssumption DEF Job, Kind, Await
<1>3. Builds(job) \subseteq recorded
  BY DEF Builds
<1>4. Fits(job, recorded, enabled, synced)
  BY <1>2, <1>3 DEF Fits
<1>5. QED
  BY <1>1, <1>4

\* finish begins with what it awaits, and complete only if nothing is selected.
LEMMA FinishFits ==
    ASSUME Inv, Before["complete"] \subseteq recorded, NEW at \in {"controls", "complete"},
           NEW arg \in SUBSET Channel, at = "complete" => arg = {}
    PROVE  Fits(NewJob("finish", at, arg), recorded, enabled, synced)
<1> DEFINE job == [kind |-> "finish", at |-> at, own |-> TRUE, arg |-> arg, auto |-> FALSE,
                   tries |-> 0]
<1>1. job \in Job
  BY WebSessionAssumption DEF Job, Kind, Await
<1>2. Builds(job) = Before["complete"]
  BY DEF Builds, Step
<1>3. Fits(job, recorded, enabled, synced)
  BY <1>1, <1>2 DEF Fits
<1>4. QED
  BY <1>3, NewJobFields

LEMMA UserKeeps ==
    ASSUME Inv,
           \/ SubmitAdmin \/ SubmitLogin \/ SubmitTelegramLogin \/ SubmitListenRules
           \/ \E filled \in BOOLEAN : SubmitTelegramApi(filled)
           \/ ClickRefresh \/ ClickFinish
    PROVE  Inv'
<1>1. {} \in SUBSET Store /\ {"telegram"} \in SUBSET Store /\ {"channels"} \in SUBSET Store
  BY DEF Store
<1>2. CASE SubmitAdmin
  <2>1. Fits(NewJob("admin", "post", {}), recorded, enabled, synced)
    BY ButtonFits DEF Before
  <2>2. QED
    BY <1>1, <1>2, <2>1, StartKeeps DEF SubmitAdmin
<1>3. CASE SubmitLogin
  <2>1. Fits(NewJob("login", "post", {}), recorded, enabled, synced)
    BY ButtonFits DEF Step
  <2>2. QED
    BY <1>1, <1>3, <2>1, StartKeeps DEF SubmitLogin
<1>4. CASE SubmitTelegramLogin
  <2>1. Before["telegram_login"] \subseteq recorded
    BY <1>4 DEF SubmitTelegramLogin, Inv, ScreenInv, Wizard!Needs, Wizard!Before, Before
  <2>2. Fits(NewJob("telegram_login", "post", {}), recorded, enabled, synced)
    BY <2>1, ButtonFits
  <2>3. QED
    BY <1>1, <1>4, <2>2, StartKeeps DEF SubmitTelegramLogin
<1>5. CASE SubmitListenRules
  <2>1. Before["listen_rules"] \subseteq recorded
    BY <1>5 DEF SubmitListenRules, Inv, ScreenInv, Wizard!Needs, Wizard!Before, Before
  <2>2. Fits(NewJob("listen_rules", "post", {}), recorded, enabled, synced)
    BY <2>1, ButtonFits
  <2>3. QED
    BY <1>1, <1>5, <2>2, StartKeeps DEF SubmitListenRules
<1>6. ASSUME NEW filled \in BOOLEAN, SubmitTelegramApi(filled) PROVE Inv'
  <2> DEFINE kind == IF filled THEN "telegram_api" ELSE "blank_api"
  <2>1. Before["telegram_api"] \subseteq recorded
    BY <1>6 DEF SubmitTelegramApi, Inv, ScreenInv, Wizard!Needs, Wizard!Before, Before
  <2>2. kind \in {"telegram_api", "blank_api"} /\ (kind \in Step => kind = "telegram_api")
    BY DEF Step
  <2>3. Start(NewJob(kind, "post", {}), {"telegram"})
    BY <1>6 DEF SubmitTelegramApi
  <2> HIDE DEF kind
  <2>4. Fits(NewJob(kind, "post", {}), recorded, enabled, synced)
    BY <2>1, <2>2, ButtonFits
  <2>5. QED
    BY <1>1, <2>3, <2>4, StartKeeps
<1>7. CASE ClickRefresh
  <2>1. Fits(Refresh(TRUE, FALSE, tries), recorded, enabled, synced)
    BY RefreshFits DEF Inv, ScreenInv, TimersInv
  <2>2. QED
    BY <1>1, <1>7, <2>1, StartKeeps DEF ClickRefresh
<1>8. CASE ClickFinish
  <2> DEFINE selected == items \cap ticked
  <2>1. Before["complete"] \subseteq recorded /\ selected \subseteq Channel
    BY <1>8 DEF ClickFinish, Inv, ScreenInv, StoresInv, Wizard!Needs, Wizard!Before,
                Wizard!Step, Before, Step
  <2>2. Fits(NewJob("finish", "complete", {}), recorded, enabled, synced)
    BY <2>1, FinishFits
  <2>3. Fits(NewJob("finish", "controls", selected), recorded, enabled, synced)
    BY <2>1, FinishFits
  <2>4. Start(NewJob("finish", "complete", {}), {})
        \/ Start(NewJob("finish", "controls", selected), {"channels"})
    BY <1>8 DEF ClickFinish
  <2> HIDE DEF selected
  <2>5. QED
    BY <1>1, <2>2, <2>3, <2>4, StartKeeps
<1>9. QED
  BY <1>2, <1>3, <1>4, <1>5, <1>6, <1>7, <1>8

\* The list on screen, and the links and buttons that open another page.
LEMMA BrowsingKeeps ==
    ASSUME Inv,
           \/ \E c \in Channel : Tick(c)
           \/ \E to \in Page : GoTo(to) \/ Reload(to) \/ OpenAnother(to)
    PROVE  Inv'
<1>1. ASSUME NEW c \in Channel, Tick(c) PROVE Inv'
  <2>1. ServerInv' /\ Grows
    BY <1>1, Idle DEF Inv, Tick
  <2>2. ScreenInv'
    BY <1>1 DEF Inv, ScreenInv, TimersInv, Tick, server
  <2>3. StoresInv' /\ CountsInv'
    BY <1>1 DEF Inv, StoresInv, CountsInv, Tick, server, stores
  <2>4. JobsFit(jobs', recorded', enabled', synced')
    BY <1>1 DEF Inv, Tick, server
  <2>5. QED
    BY <2>1, <2>2, <2>3, <2>4 DEF Inv
<1>2. ASSUME NEW to \in Page, GoTo(to) PROVE Inv'
  <2>1. ServerInv' /\ Grows
    BY <1>2, Idle DEF Inv, GoTo
  <2>2. JobsFit(jobs, recorded', enabled', synced') /\ recorded' = recorded
    BY <1>2 DEF Inv, GoTo, server
  <2>3. status \in SUBSET recorded' /\ recorded' \subseteq Step /\ Closed(status)
        /\ busy \in SUBSET Store
    BY <2>2 DEF Inv, StoresInv, ServerInv
  <2>4. Push(to, jobs, busy, status, me)
    BY <1>2 DEF GoTo
  <2>5. ScreenInv' /\ JobsFit(jobs', recorded', enabled', synced') /\ busy' \subseteq Store
    BY <2>1, <2>2, <2>3, <2>4, PushKeeps DEF Inv
  <2>6. StoresInv'
    BY <1>2, <2>2, <2>5 DEF Inv, StoresInv, GoTo
  <2>7. CountsInv'
    BY <1>2, WebSessionAssumption DEF Inv, CountsInv, GoTo
  <2>8. QED
    BY <2>1, <2>5, <2>6, <2>7 DEF Inv
<1>3. ASSUME NEW to \in Page, Reload(to) \/ OpenAnother(to) PROVE Inv'
  <2>1. CountsInv'
    BY <1>3, WebSessionAssumption DEF Inv, CountsInv, Reload, OpenAnother, Open
  <2>2. QED
    BY <1>3, <2>1, OpenKeeps DEF Inv, Reload, OpenAnother
<1>4. QED
  BY <1>1, <1>2, <1>3

\* The guard: the status it loads is the one of the server.
LEMMA GuardKeeps ==
    ASSUME Inv,
           \/ GuardSetupLoaded \/ GuardSetupFails
           \/ \E answered \in BOOLEAN : GuardMeLoaded(answered)
    PROVE  Inv'
<1>1. CASE GuardSetupLoaded
  <2>1. ServerInv' /\ Grows /\ recorded' = recorded
    BY <1>1, Idle DEF Inv, GuardSetupLoaded, server
  <2>2. JobsFit(jobs, recorded', enabled', synced')
    BY <1>1 DEF Inv, GuardSetupLoaded, server
  <2>3. recorded \in SUBSET recorded' /\ recorded' \subseteq Step /\ Closed(recorded)
        /\ busy \ {"setup"} \in SUBSET Store
    BY <2>1 DEF Inv, StoresInv, ServerInv
  <2>4. nav.to \in Page
    BY <1>1 DEF Inv, ScreenInv, GuardSetupLoaded, Nav
  <2>5. Push(nav.to, jobs, busy \ {"setup"}, recorded, me)
    BY <1>1 DEF GuardSetupLoaded
  <2>6. ScreenInv' /\ JobsFit(jobs', recorded', enabled', synced') /\ busy' \subseteq Store
    BY <2>1, <2>2, <2>3, <2>4, <2>5, PushKeeps DEF Inv
  <2>7. StoresInv' /\ CountsInv'
    BY <1>1, <2>1, <2>3, <2>6 DEF Inv, StoresInv, CountsInv, GuardSetupLoaded
  <2>8. QED
    BY <2>1, <2>6, <2>7 DEF Inv
<1>2. CASE GuardSetupFails
  <2>1. ServerInv' /\ Grows
    BY <1>2, Idle DEF Inv, GuardSetupFails
  <2>2. ScreenInv' /\ StoresInv'
    BY <1>2 DEF Inv, ScreenInv, TimersInv, StoresInv, GuardSetupFails, server
  <2>3. CountsInv'
    BY <1>2, WebSessionAssumption DEF Inv, CountsInv, GuardSetupFails
  <2>4. JobsFit(jobs', recorded', enabled', synced')
    BY <1>2 DEF Inv, GuardSetupFails, server
  <2>5. QED
    BY <2>1, <2>2, <2>3, <2>4 DEF Inv
<1>3. ASSUME NEW answered \in BOOLEAN, GuardMeLoaded(answered) PROVE Inv'
  <2>1. ServerInv' /\ Grows /\ recorded' = recorded
    BY <1>3, Idle DEF Inv, GuardMeLoaded, server
  <2>2. JobsFit(jobs, recorded', enabled', synced')
    BY <1>3 DEF Inv, GuardMeLoaded, server
  <2>3. nav.to \in Page /\ status \in SUBSET Step /\ Closed(status) /\ status \subseteq recorded'
        /\ busy \in SUBSET Store
    BY <1>3, <2>1 DEF Inv, ScreenInv, StoresInv, ServerInv, GuardMeLoaded, Nav
  <2>4. Guard(nav.to, status, me') \in Page
        /\ Wizard!Needs(Guard(nav.to, status, me')) \subseteq recorded'
    BY <2>3, GuardShows
  <2>5. Enter(Guard(nav.to, status, me'), jobs, busy)
    BY <1>3 DEF GuardMeLoaded
  <2>6. ScreenInv' /\ JobsFit(jobs', recorded', enabled', synced') /\ busy' \subseteq Store
    BY <2>1, <2>2, <2>3, <2>4, <2>5, EnterKeeps DEF Inv
  <2>7. StoresInv'
    BY <1>3, <2>1, <2>6 DEF Inv, StoresInv, GuardMeLoaded
  <2>8. CountsInv'
    BY <1>3, WebSessionAssumption DEF Inv, CountsInv, GuardMeLoaded
  <2>9. QED
    BY <2>1, <2>6, <2>7, <2>8 DEF Inv
<1>4. QED
  BY <1>1, <1>2, <1>3

\* Another browser takes the next step, or takes again one that was taken.
LEMMA ElsewhereNext ==
    ASSUME Inv, NEW step \in Step, Elsewhere(step)
    PROVE  step \in recorded \/ Before[step] \subseteq recorded
<1>1. CASE "complete" \in recorded
  BY <1>1 DEF Elsewhere, CurrentStep
<1>2. CASE "complete" \notin recorded
  <2>1. Before[CurrentStep(recorded)] \subseteq recorded
    BY <1>2, CurrentStepNext DEF Inv, ServerInv
  <2>2. Before["channel_selection"] = Before["complete"]
    BY DEF Before
  <2>3. QED
    BY <2>1, <2>2 DEF Elsewhere
<1>3. QED
  BY <1>1, <1>2

\* Another browser, the end of a session, and a channel that is stored.
LEMMA WorldKeeps ==
    ASSUME Inv,
           \/ \E c \in Channel : ChannelStored(c)
           \/ \E step \in Step : Elsewhere(step)
           \/ SessionEnds
    PROVE  Inv'
<1>1. ServerInv' /\ Grows
  <2>1. ASSUME NEW c \in Channel, ChannelStored(c) PROVE ServerInv' /\ Grows
    BY <2>1 DEF ChannelStored, Inv, ServerInv, Grows
  <2>2. CASE SessionEnds
    BY <2>2 DEF SessionEnds, Inv, ServerInv, Grows
  <2>3. ASSUME NEW step \in Step, Elsewhere(step) PROVE ServerInv' /\ Grows
    <3>1. step \in recorded \/ Before[step] \subseteq recorded
      BY <2>3, ElsewhereNext
    <3>2. recorded' = recorded \cup {step}
      BY <2>3 DEF Elsewhere
    <3>3. recorded' \subseteq Step /\ Closed(recorded')
      <4>1. CASE step \in recorded
        BY <3>2, <4>1 DEF Inv, ServerInv, Closed
      <4>2. CASE Before[step] \subseteq recorded
        BY <3>2, <4>2, ClosedWith DEF Inv, ServerInv
      <4>3. QED
        BY <3>1, <4>1, <4>2
    <3>4. QED
      BY <2>3, <3>2, <3>3 DEF Elsewhere, Inv, ServerInv, Grows
  <2>4. QED
    BY <2>1, <2>2, <2>3
<1>2. UNCHANGED <<stores, screen, jobs, visits>> /\ faults' \in 0..MaxFaults
  BY WebSessionAssumption DEF ChannelStored, SessionEnds, Elsewhere, Inv, CountsInv
<1>3. ScreenInv'
  BY <1>1, <1>2, ScreenStays DEF Inv
<1>4. JobsFit(jobs', recorded', enabled', synced')
  BY <1>1, <1>2, JobsFitLater DEF Inv
<1>5. StoresInv' /\ CountsInv'
  BY <1>1, <1>2 DEF Inv, StoresInv, CountsInv, stores, Grows
<1>6. QED
  BY <1>1, <1>3, <1>4, <1>5 DEF Inv

-----------------------------------------------------------------------------
(* The answers.                                                             *)

LEMMA JobFits ==
    ASSUME Inv, NEW s \in Slot, jobs[s] # NoJob
    PROVE  Fits(jobs[s], recorded, enabled, synced) /\ jobs[s] \in Job
  BY DEF Inv, JobsFit, Fits

\* The other handlers, once one of them has ended.
LEMMA WithoutFits ==
    ASSUME Inv, Grows, NEW s \in Slot
    PROVE  JobsFit(Without(s), recorded', enabled', synced')
  BY JobsFitLater, JobsFitWith DEF Without, Inv

LEMMA FlagsAreStores == ASSUME NEW job PROVE Flag(job) \subseteq Store
  BY DEF Flag, Store

LEMMA FailsKeeps ==
    ASSUME Inv, NEW s \in Slot, NEW done \in BOOLEAN, Fails(s, done) PROVE Inv'
<1>1. jobs[s] # NoJob /\ Fits(jobs[s], recorded, enabled, synced) /\ jobs[s] \in Job
  BY JobFits DEF Fails
<1>2. ServerInv' /\ Grows
  BY <1>1, Idle, ServerKeeps DEF Fails, Inv
<1>3. JobsFit(jobs', recorded', enabled', synced')
  BY <1>2, WithoutFits DEF Fails
<1>4. faults' \in 0..MaxFaults
  BY WebSessionAssumption DEF Fails, Inv, CountsInv
<1>5. TimersInv'
  <2>1. CASE jobs[s].auto
    BY <1>1, <2>1, RearmKeeps DEF Fails, Inv, ScreenInv
  <2>2. CASE ~jobs[s].auto
    BY <2>2 DEF Fails, Inv, ScreenInv, TimersInv
  <2>3. QED
    BY <2>1, <2>2
<1>6. failed' \in BOOLEAN
  BY DEF Fails, Inv, ScreenInv
<1>7. ScreenInv'
  BY <1>2, <1>5, <1>6 DEF Fails, Inv, ScreenInv, Grows
<1>8. StoresInv' /\ CountsInv'
  BY <1>2, <1>4 DEF Fails, Inv, StoresInv, CountsInv, Grows
<1>9. QED
  BY <1>2, <1>3, <1>7, <1>8 DEF Inv

\* A handler moves on to its next await.
LEMMA PostKeeps == ASSUME Inv, NEW s \in Slot, PostAnswered(s) PROVE Inv'
<1> DEFINE job == jobs[s]
           next == [job EXCEPT !.at = "load"]
<1>1. job # NoJob /\ Fits(job, recorded, enabled, synced) /\ job \in Job
  BY JobFits DEF PostAnswered, NoJob
<1>2. ServerInv' /\ Grows
  BY <1>1, ServerKeeps DEF PostAnswered, Inv
<1>3. next \in Job /\ next.kind = job.kind /\ next.at = "load"
  BY <1>1 DEF Job, Await
<1>4. Fits(next, recorded, enabled, synced)
  <2>1. Builds(next) = Builds(job)
    BY <1>3 DEF Builds
  <2>2. job.kind \in {"admin", "api_key", "telegram_api", "blank_api", "telegram_login"}
    BY DEF PostAnswered
  <2> HIDE DEF next, job
  <2>3. QED
    BY <1>1, <1>3, <2>1, <2>2 DEF Fits
<1>5. jobs' = [jobs EXCEPT ![s] = next]
  BY DEF PostAnswered, Goes
<1> HIDE DEF next, job
<1>6. JobsFit(jobs', recorded, enabled, synced)
  BY <1>4, <1>5, JobsFitWith DEF Inv
<1>7. JobsFit(jobs', recorded', enabled', synced')
  BY <1>2, <1>6, FitsLater DEF JobsFit, Grows
<1>8. ScreenInv'
  BY <1>2, ScreenStays DEF Inv, PostAnswered
<1>9. StoresInv' /\ CountsInv'
  BY <1>2 DEF PostAnswered, Inv, StoresInv, CountsInv, Grows, Store
<1>10. QED
  BY <1>2, <1>7, <1>8, <1>9 DEF Inv

LEMMA FinishKeeps == ASSUME Inv, NEW s \in Slot, FinishGoesOn(s) PROVE Inv'
<1> DEFINE job == jobs[s]
           at == IF job.at = "controls" THEN "sync" ELSE "complete"
           next == [job EXCEPT !.at = at]
<1>1. job # NoJob /\ Fits(job, recorded, enabled, synced) /\ job \in Job
  BY JobFits DEF FinishGoesOn, NoJob
<1>2. ServerInv' /\ Grows
  BY <1>1, ServerKeeps DEF FinishGoesOn, Inv
<1>3. at \in {"sync", "complete"} /\ (at = "complete" => job.at = "sync")
  BY DEF FinishGoesOn
<1>4. next \in Job /\ next.kind = "finish" /\ next.at = at /\ next.arg = job.arg
      /\ job.kind = "finish"
  <2>1. job.kind = "finish"
    BY DEF FinishGoesOn
  <2> HIDE DEF job, at
  <2>2. QED
    BY <1>1, <1>3, <2>1 DEF Job, Await
<1>5. job.arg \subseteq enabled' /\ (at = "complete" => job.arg \subseteq synced')
  BY <1>1, <1>3 DEF FinishGoesOn, ServerDoes, Fits
<1>6. Fits(next, recorded', enabled', synced')
  <2>1. Builds(next) = Builds(job)
    BY <1>4 DEF Builds
  <2> HIDE DEF next, job, at
  <2>2. QED
    BY <1>1, <1>2, <1>3, <1>4, <1>5, <2>1 DEF Fits, Grows
<1>7. jobs' = [jobs EXCEPT ![s] = next]
  BY DEF FinishGoesOn, Goes
<1> HIDE DEF next, job, at
<1>8. JobsFit(jobs', recorded', enabled', synced')
  BY <1>2, <1>6, <1>7, JobsFitLater, JobsFitWith DEF Inv
<1>9. ScreenInv'
  BY <1>2, ScreenStays DEF Inv, FinishGoesOn
<1>10. StoresInv' /\ CountsInv'
  BY <1>2 DEF FinishGoesOn, Inv, StoresInv, CountsInv, Grows, Store
<1>11. QED
  BY <1>2, <1>8, <1>9, <1>10 DEF Inv

LEMMA ChannelsKeeps == ASSUME Inv, NEW s \in Slot, ChannelsAnswered(s) PROVE Inv'
<1>1. jobs[s] # NoJob /\ jobs[s] \in Job
  BY JobFits DEF ChannelsAnswered, NoJob
<1>2. ServerInv' /\ Grows
  BY Idle DEF ChannelsAnswered, Inv
<1>3. TimersInv'
  BY <1>1, RearmKeeps DEF ChannelsAnswered, Inv, ScreenInv
<1>4. ticked' \subseteq Channel
  BY DEF ChannelsAnswered, Inv, ScreenInv, ServerInv
<1>5. ScreenInv'
  BY <1>2, <1>3, <1>4 DEF ChannelsAnswered, Inv, ScreenInv, Grows
<1>6. StoresInv' /\ CountsInv'
  BY <1>2 DEF ChannelsAnswered, Inv, ServerInv, StoresInv, CountsInv, Grows
<1>7. JobsFit(jobs', recorded', enabled', synced')
  BY <1>2, WithoutFits DEF ChannelsAnswered
<1>8. QED
  BY <1>2, <1>5, <1>6, <1>7 DEF Inv

\* A handler ends, and with it goes the browser.
LEMMA MovesOn ==
    ASSUME Inv, NEW s \in Slot,
           LoginAnswered(s) \/ RulesAnswered(s) \/ FinishAnswered(s)
    PROVE  Inv'
<1>1. jobs[s] # NoJob /\ Fits(jobs[s], recorded, enabled, synced)
  BY JobFits DEF LoginAnswered, RulesAnswered, FinishAnswered, NoJob
<1>2. ServerInv' /\ Grows
  BY <1>1, ServerKeeps DEF LoginAnswered, RulesAnswered, FinishAnswered, Inv
<1>3. JobsFit(Without(s), recorded', enabled', synced')
  BY <1>2, WithoutFits
<1>4. {"setup-channels", "home"} \subseteq Page
  BY PageNames
<1>5. CountsInv'
  BY DEF LoginAnswered, RulesAnswered, FinishAnswered, Inv, CountsInv
<1>6. busy \in SUBSET Store /\ busy \cup {"setup"} \in SUBSET Store
  BY DEF Inv, StoresInv, Store
<1>7. recorded' \in SUBSET recorded' /\ recorded' \subseteq Step /\ Closed(recorded')
      /\ status \in SUBSET recorded' /\ Closed(status)
  BY <1>2 DEF ServerInv, Grows, Inv, StoresInv
<1>8. CASE RulesAnswered(s)
  <2>1. Push("setup-channels", Without(s), busy, recorded', me)
    BY <1>8 DEF RulesAnswered
  <2>2. ScreenInv' /\ JobsFit(jobs', recorded', enabled', synced') /\ busy' \subseteq Store
    BY <1>2, <1>3, <1>4, <1>6, <1>7, <2>1, PushKeeps DEF Inv
  <2>3. QED
    BY <1>2, <1>5, <1>7, <1>8, <2>2 DEF RulesAnswered, Inv, StoresInv
<1>9. CASE FinishAnswered(s)
  <2>1. Push("home", Without(s), busy, recorded', me)
    BY <1>9 DEF FinishAnswered
  <2>2. ScreenInv' /\ JobsFit(jobs', recorded', enabled', synced') /\ busy' \subseteq Store
    BY <1>2, <1>3, <1>4, <1>6, <1>7, <2>1, PushKeeps DEF Inv
  <2>3. QED
    BY <1>2, <1>5, <1>7, <1>9, <2>2 DEF FinishAnswered, Inv, StoresInv
<1>10. CASE LoginAnswered(s)
  <2>1. ScreenInv' /\ JobsFit(jobs', recorded', enabled', synced') /\ busy' \subseteq Store
    <3>1. CASE loaded
      <4>1. Push("home", Without(s), busy, status, "user")
        BY <1>10, <3>1 DEF LoginAnswered
      <4>2. QED
        BY <1>2, <1>3, <1>4, <1>6, <1>7, <4>1, PushKeeps DEF Inv
    <3>2. CASE ~loaded
      <4>1. [to |-> "home", waits |-> "setup"] \in Nav
        BY <1>4 DEF Nav
      <4>2. QED
        BY <1>2, <1>3, <1>6, <1>10, <3>2, <4>1
           DEF LoginAnswered, Inv, ScreenInv, TimersInv, Grows
    <3>3. QED
      BY <3>1, <3>2
  <2>2. QED
    BY <1>2, <1>5, <1>7, <1>10, <2>1 DEF LoginAnswered, Inv, StoresInv
<1>11. QED
  BY <1>8, <1>9, <1>10

LEMMA StatusKeeps == ASSUME Inv, NEW s \in Slot, StatusLoaded(s) PROVE Inv'
<1> DEFINE next == [admin |-> "login", telegram_api |-> "setup-telegram-login",
                    blank_api |-> "setup-telegram-login",
                    telegram_login |-> "setup-listen-rules"]
<1>1. Fits(jobs[s], recorded, enabled, synced) /\ jobs[s].at = "load" /\ jobs[s] \in Job
  BY JobFits DEF StatusLoaded
<1>2. ServerInv' /\ Grows /\ recorded' = recorded
  BY Idle DEF StatusLoaded, Inv, server
<1>3. JobsFit(Without(s), recorded', enabled', synced')
  BY <1>2, WithoutFits
<1>4. busy \ {"setup"} \in SUBSET Store
  BY DEF Inv, StoresInv
<1>5. ScreenInv' /\ JobsFit(jobs', recorded', enabled', synced') /\ busy' \subseteq Store
  <2>1. CASE jobs[s].kind = "api_key"
    <3>1. key' \in BOOLEAN
      BY <1>1, <2>1 DEF StatusLoaded, Inv, ScreenInv, Job
    <3>2. QED
      BY <1>2, <1>3, <1>4, <2>1, <3>1 DEF StatusLoaded, Inv, ScreenInv, TimersInv
  <2>2. CASE jobs[s].kind # "api_key"
    <3>1. next[jobs[s].kind] \in Page
      BY <1>1, <2>2, PageNames DEF Fits
    <3>2. Push(next[jobs[s].kind], Without(s), busy \ {"setup"}, recorded, me)
      BY <2>2 DEF StatusLoaded
    <3>3. recorded \in SUBSET recorded' /\ recorded' \subseteq Step /\ Closed(recorded)
      BY <1>2 DEF Inv, ServerInv
    <3> HIDE DEF next
    <3>4. QED
      BY <1>2, <1>3, <1>4, <3>1, <3>2, <3>3, PushKeeps DEF Inv
  <2>3. QED
    BY <2>1, <2>2
<1>6. StoresInv' /\ CountsInv'
  BY <1>2, <1>5 DEF StatusLoaded, Inv, ServerInv, StoresInv, CountsInv
<1>7. QED
  BY <1>2, <1>5, <1>6 DEF Inv

LEMMA TimerKeeps == ASSUME Inv, NEW t \in timers, TimerFires(t) PROVE Inv'
<1>1. t \in Timer /\ t.tries < MaxRefresh /\ t.tries + 1 \in 0..MaxRefresh
      /\ (t.own => tries + 1 = t.tries + 1)
  BY WebSessionAssumption DEF Inv, ScreenInv, TimersInv, Timer
<1>2. ServerInv' /\ Grows
  BY Idle DEF Inv, TimerFires
<1>3. Fits(Refresh(t.own, TRUE, t.tries + 1), recorded, enabled, synced)
  BY <1>1, RefreshFits DEF Timer
<1>4. JobsFit(jobs', recorded, enabled, synced)
  <2>1. PICK s \in Free : jobs' = [jobs EXCEPT ![s] = Refresh(t.own, TRUE, t.tries + 1)]
    BY DEF TimerFires
  <2>2. s \in Slot
    BY DEF Free
  <2>3. QED
    BY <1>3, <2>1, <2>2, JobsFitWith DEF Inv
<1>5. JobsFit(jobs', recorded', enabled', synced')
  BY <1>4 DEF TimerFires, server
<1>6. TimersInv'
  <2>1. CASE t.own
    <3>1. \A u \in timers' : u \in Timer /\ u.tries < MaxRefresh /\ ~u.own
      <4>1. \A u \in timers : u \in Timer /\ u.own => u = t
        BY <1>1, <2>1 DEF Inv, ScreenInv, TimersInv, Timer
      <4>2. QED
        BY <4>1 DEF TimerFires, Inv, ScreenInv, TimersInv
    <3>2. tries' \in 0..MaxRefresh
      BY <1>1, <2>1 DEF TimerFires
    <3>3. QED
      BY <3>1, <3>2 DEF TimersInv
  <2>2. CASE ~t.own
    BY <2>2 DEF TimerFires, Inv, ScreenInv, TimersInv
  <2>3. QED
    BY <2>1, <2>2
<1>7. ScreenInv'
  BY <1>2, <1>6 DEF TimerFires, Inv, ScreenInv, Grows
<1>8. StoresInv' /\ CountsInv'
  BY <1>2 DEF TimerFires, Inv, StoresInv, CountsInv, Grows, Store
<1>9. QED
  BY <1>2, <1>5, <1>7, <1>8 DEF Inv

-----------------------------------------------------------------------------
(* The invariant.                                                           *)

LEMMA InvStep == Inv /\ [Next]_vars => Inv'
<1> SUFFICES ASSUME Inv, [Next]_vars PROVE Inv'
  OBVIOUS
<1>1. CASE \/ GuardSetupLoaded \/ GuardSetupFails
           \/ \E answered \in BOOLEAN : GuardMeLoaded(answered)
  BY <1>1, GuardKeeps
<1>2. CASE \/ SubmitAdmin \/ SubmitLogin \/ SubmitTelegramLogin \/ SubmitListenRules
           \/ \E filled \in BOOLEAN : SubmitTelegramApi(filled)
           \/ ClickRefresh \/ ClickFinish
  BY <1>2, UserKeeps
<1>3. CASE \/ \E c \in Channel : Tick(c)
           \/ \E to \in Page : GoTo(to) \/ Reload(to) \/ OpenAnother(to)
  BY <1>3, BrowsingKeeps
<1>4. CASE \/ \E c \in Channel : ChannelStored(c)
           \/ \E step \in Step : Elsewhere(step)
           \/ SessionEnds
  BY <1>4, WorldKeeps
<1>5. ASSUME NEW s \in Slot, NEW done \in BOOLEAN, Fails(s, done) PROVE Inv'
  BY <1>5, FailsKeeps
<1>6. ASSUME NEW s \in Slot, Answered(s) PROVE Inv'
  BY <1>6, PostKeeps, StatusKeeps, MovesOn, ChannelsKeeps, FinishKeeps DEF Answered
<1>7. ASSUME NEW t \in timers, TimerFires(t) PROVE Inv'
  BY <1>7, TimerKeeps
<1>8. CASE UNCHANGED vars
  <2>1. ServerInv' /\ Grows
    BY <1>8, Idle DEF vars, Inv
  <2>2. JobsFit(jobs', recorded', enabled', synced')
    BY <1>8 DEF vars, server, Inv
  <2>3. ScreenInv' /\ StoresInv' /\ CountsInv'
    BY <1>8, <2>1, ScreenStays DEF vars, server, stores, Inv, StoresInv, CountsInv
  <2>4. QED
    BY <2>1, <2>2, <2>3 DEF Inv
<1>9. QED
  BY <1>1, <1>2, <1>3, <1>4, <1>5, <1>6, <1>7, <1>8 DEF Next

LEMMA Invariance == Spec => []Inv
  BY InvInit, InvStep, PTL DEF Spec

\* The type invariant, for all constants.
THEOREM TypeCorrect == Spec => []TypeOK
<1>1. Inv => TypeOK
  BY InvHolds
<1>2. QED
  BY <1>1, Invariance, PTL

\* setup.status never holds a step that the server has not recorded.
THEOREM StatusNeverAhead == Spec => []StatusNotAhead
<1>1. Inv => StatusNotAhead
  BY InvHolds
<1>2. QED
  BY <1>1, Invariance, PTL

-----------------------------------------------------------------------------
(* Set-up is completed whole.                                               *)

WholeStep ==
    \A s \in Slot :
        (jobs[s].kind = "finish" /\ jobs[s].at = "complete" /\ jobs'[s] = NoJob)
            => jobs[s].arg \subseteq enabled' \cap synced'

\* Nothing the server enabled or synchronised is taken back.
LEMMA NextGrows == Inv /\ [Next]_vars => enabled \subseteq enabled' /\ synced \subseteq synced'
<1> SUFFICES ASSUME Inv, [Next]_vars PROVE enabled \subseteq enabled' /\ synced \subseteq synced'
  OBVIOUS
<1>1. CASE UNCHANGED <<enabled, synced>>
  BY <1>1
<1>2. ASSUME NEW job, ServerDoes(job) PROVE enabled \subseteq enabled' /\ synced \subseteq synced'
  BY <1>2 DEF ServerDoes
<1>3. ASSUME NEW s \in Slot, Answered(s)
      PROVE  enabled \subseteq enabled' /\ synced \subseteq synced'
  BY <1>1, <1>2, <1>3 DEF Answered, PostAnswered, StatusLoaded, LoginAnswered, RulesAnswered,
                          ChannelsAnswered, FinishGoesOn, FinishAnswered, server
<1>4. ASSUME NEW s \in Slot, NEW done \in BOOLEAN, Fails(s, done)
      PROVE  enabled \subseteq enabled' /\ synced \subseteq synced'
  BY <1>1, <1>2, <1>4 DEF Fails, server
<1>5. CASE \/ GuardSetupLoaded \/ GuardSetupFails
           \/ \E answered \in BOOLEAN : GuardMeLoaded(answered)
  BY <1>1, <1>5 DEF GuardSetupLoaded, GuardSetupFails, GuardMeLoaded, server
<1>6. CASE \/ SubmitAdmin \/ SubmitLogin \/ SubmitTelegramLogin \/ SubmitListenRules
           \/ \E filled \in BOOLEAN : SubmitTelegramApi(filled)
           \/ ClickRefresh \/ ClickFinish
  BY <1>1, <1>6 DEF SubmitAdmin, SubmitLogin, SubmitTelegramLogin, SubmitListenRules,
                    SubmitTelegramApi, ClickRefresh, ClickFinish, Start, server
<1>7. CASE \/ \E c \in Channel : Tick(c) \/ ChannelStored(c)
           \/ \E to \in Page : GoTo(to) \/ Reload(to) \/ OpenAnother(to)
           \/ \E step \in Step : Elsewhere(step)
           \/ SessionEnds
  BY <1>1, <1>7 DEF Tick, ChannelStored, GoTo, Reload, OpenAnother, Open, Elsewhere,
                    SessionEnds, server
<1>8. ASSUME NEW t \in timers, TimerFires(t)
      PROVE  enabled \subseteq enabled' /\ synced \subseteq synced'
  BY <1>1, <1>8 DEF TimerFires, server
<1>9. QED
  BY <1>1, <1>3, <1>4, <1>5, <1>6, <1>7, <1>8 DEF Next, vars, server

\* However often its requests fail and are tried again, finish completes the
\* set-up only after the channels it was given are enabled and asked for.
THEOREM FinishWhole == Spec => FinishIsWhole
<1>1. Inv /\ [Next]_vars => WholeStep
  <2> SUFFICES ASSUME Inv, [Next]_vars, NEW s \in Slot, jobs[s].kind = "finish",
                      jobs[s].at = "complete"
               PROVE  jobs[s].arg \subseteq enabled' \cap synced'
    BY DEF WholeStep
  <2>1. Fits(jobs[s], recorded, enabled, synced)
    BY JobFits DEF NoJob
  <2>2. jobs[s].arg \subseteq enabled /\ jobs[s].arg \subseteq synced
    BY <2>1 DEF Fits
  <2>3. QED
    BY <2>2, NextGrows
<1>2. QED
  BY <1>1, Invariance, PTL DEF Spec, FinishIsWhole, WholeStep

-----------------------------------------------------------------------------
(* The refinement.                                                          *)

LEMMA SameSteps == Wizard!Step = Step /\ Wizard!Before = Before
  BY DEF Wizard!Step, Wizard!Before, Step, Before

\* Every step of the browsers and the server records at most the next step.
LEMMA NextRecords == Inv /\ [Next]_vars => Wizard!Record \/ UNCHANGED recorded
<1> DEFINE Good == \/ UNCHANGED recorded
                   \/ \E step \in Step : /\ Before[step] \subseteq recorded
                                         /\ recorded' = recorded \cup {step}
<1> SUFFICES ASSUME Inv, [Next]_vars PROVE Good
  BY SameSteps DEF Wizard!Record
<1>1. ASSUME UNCHANGED recorded PROVE Good
  BY <1>1
<1>2. ASSUME NEW s \in Slot, jobs[s] # NoJob, ServerDoes(jobs[s]) PROVE Good
  <2>1. Fits(jobs[s], recorded, enabled, synced)
    BY <1>2, JobFits
  <2>2. recorded' = recorded \cup StepOf(jobs[s])
    BY <1>2 DEF ServerDoes
  <2>3. CASE StepOf(jobs[s]) = {}
    BY <2>2, <2>3
  <2>4. CASE \E step \in Step : StepOf(jobs[s]) = {step} /\ Before[step] \subseteq recorded
    BY <2>2, <2>4
  <2>5. QED
    BY <2>1, <2>3, <2>4, StepBuilds
<1> HIDE DEF Good
<1>3. ASSUME NEW s \in Slot, Answered(s) PROVE Good
  <2>1. CASE StatusLoaded(s) \/ ChannelsAnswered(s)
    BY <1>1, <2>1 DEF StatusLoaded, ChannelsAnswered, server
  <2>2. CASE PostAnswered(s) \/ LoginAnswered(s) \/ RulesAnswered(s) \/ FinishGoesOn(s)
             \/ FinishAnswered(s)
    <3>1. jobs[s] # NoJob /\ ServerDoes(jobs[s])
      BY <2>2 DEF PostAnswered, LoginAnswered, RulesAnswered, FinishGoesOn, FinishAnswered,
                  NoJob
    <3>2. QED
      BY <1>2, <3>1
  <2>3. QED
    BY <1>3, <2>1, <2>2 DEF Answered
<1>4. ASSUME NEW s \in Slot, NEW done \in BOOLEAN, Fails(s, done) PROVE Good
  BY <1>1, <1>2, <1>4 DEF Fails, server
<1>5. CASE \/ GuardSetupLoaded \/ GuardSetupFails
           \/ \E answered \in BOOLEAN : GuardMeLoaded(answered)
  BY <1>1, <1>5 DEF GuardSetupLoaded, GuardSetupFails, GuardMeLoaded, server
<1>6. CASE \/ SubmitAdmin \/ SubmitLogin \/ SubmitTelegramLogin \/ SubmitListenRules
           \/ \E filled \in BOOLEAN : SubmitTelegramApi(filled)
           \/ ClickRefresh \/ ClickFinish
  BY <1>1, <1>6 DEF SubmitAdmin, SubmitLogin, SubmitTelegramLogin, SubmitListenRules,
                    SubmitTelegramApi, ClickRefresh, ClickFinish, Start, server
<1>7. CASE \/ \E c \in Channel : Tick(c) \/ ChannelStored(c)
           \/ \E to \in Page : GoTo(to) \/ Reload(to) \/ OpenAnother(to)
           \/ SessionEnds
  BY <1>1, <1>7 DEF Tick, ChannelStored, GoTo, Reload, OpenAnother, Open, SessionEnds, server
<1>8. ASSUME NEW step \in Step, Elsewhere(step) PROVE Good
  <2>1. step \in recorded \/ Before[step] \subseteq recorded
    BY <1>8, ElsewhereNext
  <2>2. recorded' = recorded \cup {step}
    BY <1>8 DEF Elsewhere
  <2>3. QED
    BY <2>1, <2>2 DEF Good
<1>9. ASSUME NEW t \in timers, TimerFires(t) PROVE Good
  BY <1>1, <1>9 DEF TimerFires, server
<1>10. CASE UNCHANGED vars
  BY <1>1, <1>10 DEF vars, server
<1>11. QED
  BY <1>3, <1>4, <1>5, <1>6, <1>7, <1>8, <1>9, <1>10 DEF Next

\* The page on screen builds on nothing that is not recorded.
LEMMA NextShows == Inv' => Wizard!Show
<1>1. Page \cup {"blank"} = Wizard!Page
  BY PageNames DEF Wizard!Page
<1>2. QED
  BY <1>1 DEF Inv, ScreenInv, Wizard!Show

\* The browser, its stores and its suspended handlers implement the wizard: no
\* step is recorded, and no page shown, before the steps it builds on.
THEOREM Refinement == Spec => ImplementsWizard
<1>1. Init => Wizard!Init
  BY DEF Init, Wizard!Init
<1>2. Inv /\ Inv' /\ [Next]_vars => [Wizard!Next]_(Wizard!vars)
  BY NextRecords, NextShows DEF Wizard!Next, Wizard!vars
<1>3. QED
  BY <1>1, <1>2, Invariance, PTL DEF Spec, ImplementsWizard, Wizard!Spec
=============================================================================
