--------------------------- MODULE TelegramLogin ---------------------------
(***************************************************************************)
(* The two pages on which a Telegram account is logged in, AccountsView and *)
(* SetupTelegramLoginView, with the telegram store and the QR log-ins the   *)
(* server keeps.                                                           *)
(*                                                                         *)
(* A handler is a job suspended at an await; what it does when the answer   *)
(* arrives it does to the page as it is then.  A code is polled by a chain: *)
(* poll, answer, timer, poll.  The server acts when it answers.             *)
(*                                                                         *)
(* Abstracted: the texts typed; the status of an account is absent,         *)
(* login_required or online; the pages of the account list.                 *)
(***************************************************************************)
EXTENDS Naturals

CONSTANTS
    Login,      \* the QR log-ins the server can issue (bound)
    Account,    \* the Telegram accounts of the user
    Slot,       \* bound: handlers that can be suspended together
    MaxFaults,  \* bound: failed requests
    MaxClicks   \* bound: requests the user begins

VARIABLES
    view,      \* "accounts" or "setup-telegram-login"
    logins,    \* server: QRLoginStore.byID; an account that has scanned the code
    accounts,  \* server: the account rows
    jobs,      \* the suspended handlers
    busy,      \* telegram.loading
    items,     \* telegram.accounts
    password,  \* telegram.passwordRequired
    open,      \* the dialog (AccountsView) or the page (set-up) is on screen
    mode,      \* loginMode
    shown,     \* qrLoginID
    timer,     \* qrPolling
    sent,      \* loginCodeSent, codeSent
    failed,    \* the page said that it could not make, confirm or cancel a code
    left,      \* the page was left
    faults, clicks

page == <<open, mode, shown, timer, sent, failed, left>>
vars == <<view, logins, accounts, jobs, busy, items, password, page, faults, clicks>>

Status == {"absent", "login_required", "online"}
View == {"accounts", "setup-telegram-login"}
SignIn == {"sign_in", "password", "session"}
Kind == SignIn \cup {"refresh", "start", "poll", "cancel", "code",
                     "logout", "delete", "sync", "avatar"}
NoJob == [kind |-> "none"]
Job == [kind : Kind, at : {"post", "list", "status"}, login : Login \cup {"none"},
        account : Account \cup {"none"}]

TypeOK ==
    /\ view \in View
    /\ logins \in [Login -> {"unused", "pending", "expired", "gone"} \cup Account]
    /\ accounts \in [Account -> Status] /\ items \in [Account -> Status]
    /\ jobs \in [Slot -> Job \cup {NoJob}]
    /\ mode \in {"qr", "code", "session"}
    /\ shown \in Login \cup {"none"}
    /\ {busy, password, open, timer, sent, failed, left} \subseteq BOOLEAN
    /\ faults \in 0..MaxFaults /\ clicks \in 0..MaxClicks

InFlight == {jobs[s] : s \in Slot} \ {NoJob}
NewJob(kind, at) == [kind |-> kind, at |-> at, login |-> "none", account |-> "none"]

\* AccountsView loads the accounts when it is mounted.
Init ==
    /\ view \in View
    /\ logins = [i \in Login |-> "unused"]
    /\ IF view = "accounts"
       THEN /\ accounts \in [Account -> {"absent", "login_required"}]
            /\ jobs = [s \in Slot |-> IF s = 1 THEN NewJob("refresh", "list") ELSE NoJob]
            /\ busy = TRUE /\ open = FALSE
       ELSE /\ accounts = [a \in Account |-> "absent"]
            /\ jobs = [s \in Slot |-> NoJob]
            /\ busy = FALSE /\ open = TRUE
    /\ items = [a \in Account |-> "absent"]
    /\ mode = "qr" /\ shown = "none"
    /\ password = FALSE /\ timer = FALSE /\ sent = FALSE /\ failed = FALSE /\ left = FALSE
    /\ faults = 0 /\ clicks = 0

-----------------------------------------------------------------------------
(* The user.                                                                *)

\* A handler that first awaits the answer to job.
Begin(job) ==
    LET free == {s \in Slot : jobs[s] = NoJob} IN
    /\ free # {}
    /\ jobs' = [jobs EXCEPT ![CHOOSE s \in free : \A t \in free : s <= t] = job]

Click == clicks < MaxClicks /\ clicks' = clicks + 1

\* A request under withLoading.
Ask(job) ==
    /\ ~left /\ Begin(job) /\ busy' = TRUE
    /\ UNCHANGED <<view, logins, accounts, items, faults>>

OnPage == view = "accounts" /\ ~left

Refresh == OnPage /\ ~busy /\ Click /\ Ask(NewJob("refresh", "list")) /\ UNCHANGED <<password, page>>

\* openTelegramLogin, for a new account or for one that needs a log-in: it
\* forgets the code it showed, and neither cancels it nor stops the timer.
OpenDialog(m) ==
    /\ OnPage /\ ~open
    /\ m = "qr" \/ (m = "code" /\ \E a \in Account : items[a] = "login_required")
    /\ open' = TRUE /\ mode' = m /\ shown' = "none" /\ sent' = FALSE /\ password' = FALSE
    /\ failed' = FALSE
    /\ UNCHANGED <<view, logins, accounts, jobs, busy, items, timer, left, faults, clicks>>

\* cancelQRLogin up to its await.
Cancel ==
    /\ timer' = FALSE
    /\ IF shown = "none" THEN UNCHANGED jobs
       ELSE Begin([NewJob("cancel", "post") EXCEPT !.login = shown])

\* closeTelegramLogin
CloseDialog ==
    /\ OnPage /\ open /\ open' = FALSE
    /\ Cancel
    /\ UNCHANGED <<view, logins, accounts, busy, items, password, mode, shown, sent, failed,
                   left, faults, clicks>>

\* The Escape key only hides the dialog; the mask does nothing.
HideDialog ==
    /\ OnPage /\ open /\ open' = FALSE
    /\ UNCHANGED <<view, logins, accounts, jobs, busy, items, password, mode, shown, timer, sent,
                   failed, left, faults, clicks>>

\* setLoginMode: AccountsView cancels the code, the set-up page only stops
\* its timer.
SetMode(m) ==
    /\ open /\ ~left /\ m # mode
    /\ mode' = m
    /\ CASE m = "qr" -> UNCHANGED <<jobs, timer>>
         [] m # "qr" /\ view = "accounts" -> Cancel
         [] OTHER -> timer' = FALSE /\ UNCHANGED jobs
    /\ UNCHANGED <<view, logins, accounts, busy, items, password, open, shown, sent, failed,
                   left, faults, clicks>>

\* The forms of the chosen mode; both pages show the same.
Offers(kind) ==
    /\ open
    /\ CASE kind \in {"start", "cancel"} -> mode = "qr"
         [] kind \in {"session", "code"} -> mode = kind
         [] kind \in {"sign_in", "password"} -> mode = "code"

\* The id a log-in will get is drawn when it is asked for.
StartQR ==
    /\ Offers("start") /\ ~busy /\ Click
    /\ LET unused == {i \in Login : logins[i] = "unused" /\ i \notin {job.login : job \in InFlight}}
       IN  /\ unused # {}
           /\ Ask([NewJob("start", "post") EXCEPT !.login = CHOOSE i \in unused : TRUE])
    /\ timer' = FALSE /\ password' = FALSE
    /\ UNCHANGED <<open, mode, shown, sent, failed, left>>

\* The cancel button is not disabled by telegram.loading.
CancelQR ==
    /\ Offers("cancel") /\ shown # "none"
    /\ ~left /\ Click /\ Cancel
    /\ UNCHANGED <<view, logins, accounts, busy, items, password, open, mode, shown, sent,
                   failed, left, faults>>

\* sendCode, loginWithSession
Submit(kind) ==
    /\ kind \in {"code", "session"} /\ Offers(kind) /\ ~busy
    /\ Click /\ Ask(NewJob(kind, "post")) /\ password' = FALSE /\ UNCHANGED page

\* signIn, submitPassword
Confirm(kind) ==
    /\ (kind = "sign_in" /\ sent) \/ (kind = "password" /\ password)
    /\ Offers(kind) /\ ~busy
    /\ Ask(NewJob(kind, "post")) /\ UNCHANGED <<password, page, clicks>>

\* The buttons of a row; those of a synchronisation spin on their own.
RowButton(kind, a) ==
    /\ OnPage /\ ~open /\ items[a] # "absent"
    /\ CASE kind = "delete" -> ~busy
         [] kind = "logout" -> ~busy /\ items[a] # "login_required"
         [] kind = "sync" -> items[a] # "login_required"
         [] kind = "avatar" -> items[a] = "online"
    /\ ~\E job \in InFlight : job.kind = kind /\ job.account = a
    /\ Click /\ Ask([NewJob(kind, "post") EXCEPT !.account = a])
    /\ UNCHANGED <<password, page>>

\* onBeforeUnmount: a handler in flight goes on.
Leave ==
    /\ ~left /\ left' = TRUE /\ timer' = FALSE
    /\ UNCHANGED <<view, logins, accounts, jobs, busy, items, password, open, mode, shown, sent,
                   failed, faults, clicks>>

-----------------------------------------------------------------------------
(* Telegram and the clock.                                                  *)

\* The code on screen is scanned with a phone.
Scan(i, a) ==
    /\ logins[i] = "pending"
    /\ logins' = [logins EXCEPT ![i] = a]
    /\ UNCHANGED <<view, accounts, jobs, busy, items, password, page, faults, clicks>>

\* The log-in outlives its ttl; the next Find removes it.
Age(i) ==
    /\ logins[i] \in {"pending"} \cup Account
    /\ logins' = [logins EXCEPT ![i] = "expired"]
    /\ UNCHANGED <<view, accounts, jobs, busy, items, password, page, faults, clicks>>

TimerFires ==
    /\ timer /\ timer' = FALSE
    /\ IF shown = "none" THEN UNCHANGED jobs
       ELSE Begin([NewJob("poll", "post") EXCEPT !.login = shown])
    /\ UNCHANGED <<view, logins, accounts, busy, items, password, open, mode, shown, sent, failed,
                   left, faults, clicks>>

-----------------------------------------------------------------------------
(* The answers.                                                             *)

Accepts(job) ==
    CASE job.at # "post" -> TRUE
      [] job.at = "post" /\ job.kind = "poll" -> logins[job.login] \in {"pending"} \cup Account
      [] job.at = "post" /\ job.kind \in {"logout", "delete"} -> accounts[job.account] # "absent"
      [] OTHER -> TRUE

\* What the server does for a job; a is the account a log-in ends with.
ServerDoes(job, a) ==
    /\ logins' = CASE job.kind = "start" ->
                          [logins EXCEPT ![job.login] = "pending"]
                   [] job.kind = "cancel" \/ (job.kind = "poll" /\ a # "none") ->
                          [logins EXCEPT ![job.login] = "gone"]
                   [] OTHER -> logins
    /\ accounts' = CASE a # "none" -> [accounts EXCEPT ![a] = "online"]
                     [] job.kind = "logout" -> [accounts EXCEPT ![job.account] = "login_required"]
                     [] job.kind = "delete" -> [accounts EXCEPT ![job.account] = "absent"]
                     [] OTHER -> accounts

\* The accounts a log-in request can end with; "none" when the code is not yet
\* scanned or a password is wanted.
Outcomes(job) ==
    CASE job.kind = "poll" -> {logins[job.login]} \cap Account
      [] job.kind = "sign_in" -> Account \cup {"none"}
      [] job.kind \in {"password", "session"} -> Account
      [] OTHER -> {}

Without(s) == [jobs EXCEPT ![s] = NoJob]
Goes(s, at) == [jobs EXCEPT ![s].at = at]

\* (mutant) The first poll is left to the timer, which nobody arms.
StartAnsweredUnpolled(s) ==
    /\ jobs[s].kind = "start"
    /\ ServerDoes(jobs[s], "none")
    /\ shown' = jobs[s].login
    /\ jobs' = Without(s)
    /\ busy' = FALSE /\ failed' = FALSE
    /\ UNCHANGED <<view, items, password, open, mode, timer, sent, left, faults, clicks>>

\* startQRLogin goes on: the code is shown and polled at once, whatever the
\* page shows by now.
StartAnswered(s) ==
    /\ jobs[s].kind = "start"
    /\ ServerDoes(jobs[s], "none")
    /\ shown' = jobs[s].login
    /\ jobs' = [jobs EXCEPT ![s].kind = "poll"]
    /\ busy' = FALSE /\ failed' = FALSE
    /\ UNCHANGED <<view, items, password, open, mode, timer, sent, left, faults, clicks>>

\* (mutant) A code that is still pending is not polled again.
PollPendingOnce(s) ==
    /\ jobs[s].kind = "poll" /\ jobs[s].at = "post" /\ logins[jobs[s].login] = "pending"
    /\ jobs' = Without(s)
    /\ UNCHANGED <<view, logins, accounts, busy, items, password, page, faults, clicks>>

\* A pending code arms the timer, also after the page was left.
PollPending(s) ==
    /\ jobs[s].kind = "poll" /\ jobs[s].at = "post" /\ logins[jobs[s].login] = "pending"
    /\ timer' = TRUE
    /\ jobs' = Without(s)
    /\ UNCHANGED <<view, logins, accounts, busy, items, password, open, mode, shown, sent, failed,
                   left, faults, clicks>>

\* A log-in that ends with an account loads the accounts.
LoggedIn(s, a) ==
    LET job == jobs[s] IN
    /\ job.kind \in SignIn \cup {"poll"} /\ job.at = "post" /\ Accepts(job)
    /\ a \in Outcomes(job) \cap Account
    /\ ServerDoes(job, a)
    /\ jobs' = Goes(s, "list") /\ busy' = TRUE
    /\ password' = (password /\ job.kind = "poll")
    /\ UNCHANGED <<view, items, page, faults, clicks>>

PasswordWanted(s) ==
    /\ jobs[s].kind = "sign_in" /\ jobs[s].at = "post"
    /\ jobs' = Without(s) /\ busy' = FALSE /\ password' = TRUE
    /\ UNCHANGED <<view, logins, accounts, items, page, faults, clicks>>

CodeAnswered(s) ==
    /\ jobs[s].kind = "code"
    /\ jobs' = Without(s) /\ busy' = FALSE /\ sent' = TRUE
    /\ UNCHANGED <<view, logins, accounts, items, password, open, mode, shown, timer, failed,
                   left, faults, clicks>>

\* The rest of cancelQRLogin clears qrLoginID, whichever code it names by now.
CancelAnswered(s) ==
    /\ jobs[s].kind = "cancel"
    /\ ServerDoes(jobs[s], "none")
    /\ jobs' = Without(s) /\ shown' = "none"
    /\ UNCHANGED <<view, busy, items, password, open, mode, timer, sent, failed, left,
                   faults, clicks>>

RowAnswered(s) ==
    LET job == jobs[s] IN
    /\ job.kind \in {"logout", "delete", "sync", "avatar"} /\ job.at = "post" /\ Accepts(job)
    /\ ServerDoes(job, "none")
    /\ IF job.kind = "avatar" THEN jobs' = Without(s) /\ busy' = FALSE
       ELSE jobs' = Goes(s, "list") /\ busy' = TRUE
    /\ UNCHANGED <<view, items, password, page, faults, clicks>>

\* loadAccounts; after a log-in AccountsView's finishLogin, or the first half
\* of finish on the set-up page.
Listed(s) ==
    LET job == jobs[s]
        login == job.kind \in SignIn \cup {"poll"}
    IN
    /\ job # NoJob /\ job.at = "list"
    /\ items' = accounts /\ busy' = FALSE
    /\ timer' = (timer /\ ~login)
    /\ IF login /\ view = "accounts" THEN shown' = "none" /\ open' = FALSE
       ELSE UNCHANGED <<shown, open>>
    /\ jobs' = IF login /\ view # "accounts" THEN Goes(s, "status") ELSE Without(s)
    /\ UNCHANGED <<view, logins, accounts, password, mode, sent, failed, left, faults, clicks>>

\* setup.load and router.push at the end of finish; the page is unmounted.
Finished(s) ==
    /\ jobs[s] # NoJob /\ jobs[s].at = "status"
    /\ jobs' = Without(s)
    /\ left' = TRUE /\ timer' = (timer /\ left)
    /\ UNCHANGED <<view, logins, accounts, busy, items, password, open, mode, shown, sent, failed,
                   faults, clicks>>

\* An error: the server refuses, or the answer is lost before or (done) after
\* it acted.  A poll stops the timer, at every await of it; AccountsView
\* forgets a code that it could not cancel.
Fails(s, done) ==
    LET job == jobs[s] IN
    /\ job # NoJob
    /\ faults' = IF Accepts(job) THEN faults + 1 ELSE faults
    /\ faults' <= MaxFaults
    /\ IF done
       THEN /\ Accepts(job) /\ job.at = "post"
            /\ \E a \in IF Outcomes(job) = {} THEN {"none"} ELSE Outcomes(job) :
                  ServerDoes(job, a)
       ELSE /\ logins' = IF Accepts(job) \/ job.kind # "poll" THEN logins
                         ELSE [logins EXCEPT ![job.login] = "gone"]
            /\ UNCHANGED accounts
    /\ jobs' = Without(s)
    /\ busy' = (busy /\ (job.kind = "cancel" \/ job.at = "status"
                         \/ (job.kind = "poll" /\ job.at = "post")))
    /\ timer' = (timer /\ job.kind # "poll")
    /\ failed' = (failed \/ job.kind \in {"start", "poll"} \/ (job.kind = "cancel" /\ view # "accounts"))
    /\ shown' = IF job.kind = "cancel" /\ view = "accounts" THEN "none" ELSE shown
    /\ UNCHANGED <<view, items, password, open, mode, sent, left, clicks>>

Answered(s) ==
    \/ StartAnswered(s) \/ PollPending(s) \/ (\E a \in Account : LoggedIn(s, a))
    \/ PasswordWanted(s) \/ CodeAnswered(s) \/ CancelAnswered(s) \/ RowAnswered(s)
    \/ Listed(s) \/ Finished(s)

Next ==
    \/ Refresh \/ CloseDialog \/ HideDialog \/ StartQR \/ CancelQR \/ Leave \/ TimerFires
    \/ \E m \in {"qr", "code", "session"} : OpenDialog(m) \/ SetMode(m)
    \/ \E kind \in Kind : Submit(kind) \/ Confirm(kind)
    \/ \E kind \in {"logout", "delete", "sync", "avatar"}, a \in Account : RowButton(kind, a)
    \/ \E i \in Login : Age(i) \/ \E a \in Account : Scan(i, a)
    \/ \E s \in Slot : Answered(s) \/ \E done \in BOOLEAN : Fails(s, done)

Spec == Init /\ [][Next]_vars

\* Requests are answered and timers fire.
Proceeds(s) == Answered(s) \/ (jobs[s] # NoJob /\ ~Accepts(jobs[s]) /\ Fails(s, FALSE))
Fairness == WF_vars(TimerFires) /\ \A s \in Slot : WF_vars(Proceeds(s))
FairSpec == Spec /\ Fairness

-----------------------------------------------------------------------------
(* Properties.                                                              *)

\* A code in the dialog of AccountsView is polled, or about to be, until the
\* page says that it could not: no handler that ends late, hidden dialog or
\* error of another request breaks the chain of polls without a word.
CodeIsPolled ==
    (view = "accounts" /\ open /\ ~left /\ mode = "qr" /\ shown # "none" /\ ~failed)
        => timer \/ \E job \in InFlight : job.kind \in {"start", "poll", "cancel"}

Scanned(i) ==
    view = "accounts" /\ open /\ mode = "qr" /\ shown = i /\ logins[i] \in Account /\ ~failed

GoneOn(i) == failed \/ left \/ ~open \/ mode # "qr" \/ shown # i

\* The user who scans the code in the dialog gets an account, or an error, or
\* has gone on to something else.
ScanEnds == \A i \in Login : Scanned(i) ~> GoneOn(i)
=============================================================================
