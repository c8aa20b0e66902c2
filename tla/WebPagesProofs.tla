--------------------------- MODULE WebPagesProofs ---------------------------
(***************************************************************************)
(* The theorems about the pages, as WebPages states them, for all five.     *)
(*                                                                         *)
(* Those about the lists, the channels and the settings are proved in their *)
(* own modules and carried here, where each is a page among others: a page  *)
(* keeps its invariant because no other page takes its place, and nothing   *)
(* else writes its state.  Those about the log-in are proved here.          *)
(***************************************************************************)
EXTENDS WebPages, NaturalsInduction, WellFoundedInduction, TLAPS

EditProofs == INSTANCE SettingsListsProofs
PagedProofs == INSTANCE ListPageProofs
FormProofs == INSTANCE SettingsFormsProofs
ChannelProofs == INSTANCE ChannelsPageProofs WITH MaxClicks <- MaxClicks + 1

-----------------------------------------------------------------------------
(* The log-in.  The code on screen is polled by a chain of handlers; that   *)
(* the chain holds is said of every code the page knows, also while its     *)
(* dialog is hidden or another mode is chosen: OpenDialog and SetMode bring *)
(* a code back on screen without asking whether it is polled.               *)

\* A code is asked for, or cancelled, in one request.
LoginJob == {job \in LoginPage!Job : job.kind \in {"start", "cancel"} => job.at = "post"}

\* Everything but the handlers.
LoginPageTyped ==
    /\ view \in LoginPage!View
    /\ logins \in [Login -> {"unused", "pending", "expired", "gone"} \cup Account]
    /\ accounts \in [Account -> LoginPage!Status] /\ items \in [Account -> LoginPage!Status]
    /\ mode \in {"qr", "code", "session"}
    /\ shown \in Login \cup {"none"}
    /\ busy \in BOOLEAN /\ password \in BOOLEAN /\ open \in BOOLEAN /\ timer \in BOOLEAN
    /\ sent \in BOOLEAN /\ failed \in BOOLEAN /\ left \in BOOLEAN
    /\ faults \in 0..MaxFaults /\ clicks \in 0..MaxClicks

LoginTyped == LoginPageTyped /\ jobs \in [Slot -> LoginJob \cup {LoginPage!NoJob}]

\* A handler that will show a code, poll it, or take it off the screen.
Minded == \E s \in Slot : jobs[s].kind \in {"start", "poll", "cancel"}

\* A code is polled whether or not its dialog is on screen.
LoginInv ==
    /\ LoginTyped
    /\ view = "accounts" /\ ~left /\ shown # "none" /\ ~failed => timer \/ Minded

LEMMA LoginInvHolds == LoginInv => LoginPage!TypeOK /\ LoginPage!CodeIsPolled
<1> SUFFICES ASSUME LoginInv PROVE LoginPage!TypeOK /\ LoginPage!CodeIsPolled
  OBVIOUS
<1>1. ASSUME Minded
      PROVE  \E job \in LoginPage!InFlight : job.kind \in {"start", "poll", "cancel"}
  <2>1. PICK s \in Slot : jobs[s].kind \in {"start", "poll", "cancel"}
    BY <1>1 DEF Minded
  <2>2. jobs[s] # LoginPage!NoJob
    BY <2>1 DEF LoginPage!NoJob
  <2>3. QED
    BY <2>1, <2>2 DEF LoginPage!InFlight
<1>2. LoginPage!CodeIsPolled
  BY <1>1 DEF LoginInv, LoginPage!CodeIsPolled
<1>3. LoginPage!TypeOK
  BY DEF LoginInv, LoginTyped, LoginPageTyped, LoginJob, LoginPage!TypeOK
<1>4. QED
  BY <1>2, <1>3

\* The slot that Begin picks.
LEMMA LeastSlot ==
    ASSUME NEW free \in SUBSET Slot, free # {}
    PROVE  (CHOOSE s \in free : \A t \in free : s <= t) \in free
<1>1. free \in SUBSET Nat
  BY SlotAssumption
<1> DEFINE R == OpToRel(<, Nat)
<1>2. IsWellFoundedOn(R, Nat)
  BY NatLessThanWellFounded
<1>3. \A m, k \in Nat : k < m => <<k, m>> \in R
  BY DEF OpToRel
<1> HIDE DEF R
<1>4. PICK m \in free : \A k \in free : ~ (<<k, m>> \in R)
  BY <1>1, <1>2, WFMin
<1>5. \A k \in free : ~(k < m)
  BY <1>1, <1>3, <1>4
<1>6. \A k \in free : m <= k
  BY <1>1, <1>5
<1>7. QED
  BY <1>6

\* A handler begins: it takes a free slot, and the others keep theirs.
LEMMA LoginBegun ==
    ASSUME LoginTyped, NEW job \in LoginJob, LoginPage!Begin(job)
    PROVE  /\ jobs' \in [Slot -> LoginJob \cup {LoginPage!NoJob}]
           /\ job.kind \in {"start", "poll", "cancel"} => Minded'
           /\ Minded => Minded'
<1> DEFINE free == {s \in Slot : jobs[s] = LoginPage!NoJob}
           slot == CHOOSE s \in free : \A t \in free : s <= t
<1>1. free # {} /\ jobs' = [jobs EXCEPT ![slot] = job]
  BY DEF LoginPage!Begin
<1>2. slot \in free
  BY <1>1, LeastSlot
<1> HIDE DEF slot
<1>3. /\ jobs' \in [Slot -> LoginJob \cup {LoginPage!NoJob}]
      /\ jobs'[slot] = job /\ slot \in Slot /\ jobs[slot] = LoginPage!NoJob
      /\ \A s \in Slot : s # slot => jobs'[s] = jobs[s]
  BY <1>1, <1>2 DEF LoginTyped
<1>4. Minded => Minded'
  BY <1>3 DEF Minded, LoginPage!NoJob
<1>5. QED
  BY <1>3, <1>4 DEF Minded

\* A handler ends, or goes on to its next await.
LEMMA LoginEnded ==
    ASSUME LoginTyped, NEW s \in Slot, jobs' = LoginPage!Without(s)
    PROVE  /\ jobs' \in [Slot -> LoginJob \cup {LoginPage!NoJob}]
           /\ Minded /\ jobs[s].kind \notin {"start", "poll", "cancel"} => Minded'
  BY DEF LoginTyped, LoginPage!Without, Minded

LEMMA LoginGoesOn ==
    ASSUME LoginTyped, NEW s \in Slot, NEW at \in {"list", "status"},
           jobs' = LoginPage!Goes(s, at), jobs[s] # LoginPage!NoJob,
           jobs[s].kind \notin {"start", "cancel"}
    PROVE  jobs' \in [Slot -> LoginJob \cup {LoginPage!NoJob}] /\ (Minded => Minded')
<1>1. jobs[s] \in LoginPage!Job
  BY DEF LoginTyped, LoginJob
<1>2. jobs' = [jobs EXCEPT ![s] = [jobs[s] EXCEPT !.at = at]]
  BY DEF LoginPage!Goes
<1>3. [jobs[s] EXCEPT !.at = at] \in LoginJob /\ [jobs[s] EXCEPT !.at = at].kind = jobs[s].kind
  BY <1>1 DEF LoginJob, LoginPage!Job
<1>4. jobs' \in [Slot -> LoginJob \cup {LoginPage!NoJob}]
  BY <1>2, <1>3 DEF LoginTyped
<1>5. \A t \in Slot : jobs'[t].kind = jobs[t].kind
  BY <1>2, <1>3 DEF LoginTyped
<1>6. QED
  BY <1>4, <1>5 DEF Minded

LEMMA LoginJobAt ==
    ASSUME LoginTyped, NEW s \in Slot, jobs[s] # LoginPage!NoJob \/ jobs[s].kind # "none"
    PROVE  jobs[s] \in LoginJob /\ jobs[s] \in LoginPage!Job
  BY DEF LoginTyped, LoginJob, LoginPage!NoJob

LEMMA LoginServerTyped ==
    ASSUME LoginTyped, NEW job \in LoginPage!Job, NEW a, LoginPage!ServerDoes(job, a)
    PROVE  /\ logins' \in [Login -> {"unused", "pending", "expired", "gone"} \cup Account]
           /\ accounts' \in [Account -> LoginPage!Status]
  BY DEF LoginTyped, LoginPageTyped, LoginPage!ServerDoes, LoginPage!Status

LEMMA LoginNewJob ==
    ASSUME NEW kind \in LoginPage!Kind, NEW login \in Login \cup {"none"},
           NEW a \in Account \cup {"none"}
    PROVE  /\ [LoginPage!NewJob(kind, "post") EXCEPT !.login = login] \in LoginJob
           /\ [LoginPage!NewJob(kind, "post") EXCEPT !.account = a] \in LoginJob
           /\ LoginPage!NewJob(kind, "post") \in LoginJob
           /\ [LoginPage!NewJob(kind, "post") EXCEPT !.login = login].kind = kind
           /\ LoginPage!NewJob("refresh", "list") \in LoginJob
  BY DEF LoginPage!NewJob, LoginJob, LoginPage!Job, LoginPage!Kind, LoginPage!SignIn

LEMMA LoginInvInit == LoginPage!Init => LoginInv
<1> SUFFICES ASSUME LoginPage!Init PROVE LoginInv
  OBVIOUS
<1>1. jobs \in [Slot -> LoginJob \cup {LoginPage!NoJob}]
  BY LoginNewJob DEF LoginPage!Init, LoginPage!Kind
<1>2. 0 \in 0..MaxFaults /\ 0 \in 0..MaxClicks
  BY BoundAssumption
<1>3. LoginPageTyped
  BY <1>2 DEF LoginPage!Init, LoginPageTyped, LoginPage!Status
<1>4. QED
  BY <1>1, <1>3 DEF LoginInv, LoginTyped, LoginPage!Init

\* cancelQRLogin up to its await.
LEMMA LoginCancel ==
    ASSUME LoginTyped, LoginPage!Cancel
    PROVE  /\ jobs' \in [Slot -> LoginJob \cup {LoginPage!NoJob}] /\ timer' = FALSE
           /\ shown = "none" \/ Minded'
<1>1. CASE shown = "none"
  BY <1>1 DEF LoginPage!Cancel, LoginTyped
<1>2. CASE shown # "none"
  <2> DEFINE job == [LoginPage!NewJob("cancel", "post") EXCEPT !.login = shown]
  <2>1. job \in LoginJob /\ job.kind = "cancel"
    BY LoginNewJob DEF LoginTyped, LoginPageTyped, LoginPage!Kind
  <2>2. LoginPage!Begin(job) /\ timer' = FALSE
    BY <1>2 DEF LoginPage!Cancel
  <2> HIDE DEF job
  <2>3. QED
    BY <2>1, <2>2, LoginBegun
<1>3. QED
  BY <1>1, <1>2

\* The user begins a request.
LEMMA LoginAsks ==
    ASSUME LoginInv, NEW job \in LoginJob, LoginPage!Ask(job),
           shown' = shown, failed' = failed,
           timer' = timer \/ job.kind = "start", timer' \in BOOLEAN,
           clicks' \in 0..MaxClicks, password' \in BOOLEAN, UNCHANGED <<open, mode, sent, left>>
    PROVE  LoginInv'
<1>1. /\ LoginTyped /\ LoginPage!Begin(job) /\ busy' = TRUE
      /\ UNCHANGED <<view, logins, accounts, items, faults>>
  BY DEF LoginPage!Ask, LoginInv
<1>2. /\ jobs' \in [Slot -> LoginJob \cup {LoginPage!NoJob}]
      /\ job.kind = "start" => Minded'
      /\ Minded => Minded'
  BY <1>1, LoginBegun
<1>3. LoginTyped'
  BY <1>1, <1>2 DEF LoginTyped, LoginPageTyped
<1>4. QED
  BY <1>1, <1>2, <1>3 DEF LoginInv

LEMMA LoginClicked == ASSUME LoginTyped, LoginPage!Click PROVE clicks' \in 0..MaxClicks
  BY BoundAssumption DEF LoginPage!Click, LoginTyped, LoginPageTyped

LEMMA LoginRequestStep ==
    ASSUME LoginInv,
           \/ LoginPage!Refresh \/ LoginPage!StartQR
           \/ \E kind \in LoginPage!Kind : LoginPage!Submit(kind) \/ LoginPage!Confirm(kind)
           \/ \E kind \in {"logout", "delete", "sync", "avatar"}, a \in Account :
                 LoginPage!RowButton(kind, a)
    PROVE  LoginInv'
<1>1. LoginTyped /\ timer \in BOOLEAN /\ password \in BOOLEAN /\ clicks \in 0..MaxClicks
  BY DEF LoginInv, LoginTyped, LoginPageTyped
<1>2. CASE LoginPage!Refresh
  <2>1. clicks' \in 0..MaxClicks
    BY <1>1, <1>2, LoginClicked DEF LoginPage!Refresh
  <2>2. QED
    BY <1>1, <1>2, <2>1, LoginNewJob, LoginAsks
    DEF LoginPage!Refresh, LoginPage!page, LoginPage!Kind
<1>3. CASE LoginPage!StartQR
  <2> DEFINE unused == {i \in Login : logins[i] = "unused"
                                      /\ i \notin {job.login : job \in LoginPage!InFlight}}
             login == CHOOSE i \in unused : TRUE
             job == [LoginPage!NewJob("start", "post") EXCEPT !.login = login]
  <2>1. unused # {} /\ LoginPage!Ask(job)
    BY <1>3 DEF LoginPage!StartQR
  <2>2. login \in Login
    BY <2>1
  <2> HIDE DEF login
  <2>3. job \in LoginJob /\ job.kind = "start"
    BY <2>2, LoginNewJob DEF LoginPage!Kind
  <2>4. clicks' \in 0..MaxClicks
    BY <1>1, <1>3, LoginClicked DEF LoginPage!StartQR
  <2>5. /\ shown' = shown /\ failed' = failed /\ timer' = FALSE /\ password' = FALSE
        /\ UNCHANGED <<open, mode, sent, left>>
    BY <1>3 DEF LoginPage!StartQR
  <2> HIDE DEF job
  <2>6. QED
    BY <2>1, <2>3, <2>4, <2>5, LoginAsks
<1>4. ASSUME NEW kind \in LoginPage!Kind, LoginPage!Submit(kind) PROVE LoginInv'
  <2>1. clicks' \in 0..MaxClicks
    BY <1>1, <1>4, LoginClicked DEF LoginPage!Submit
  <2>2. QED
    BY <1>1, <1>4, <2>1, LoginNewJob, LoginAsks DEF LoginPage!Submit, LoginPage!page
<1>5. ASSUME NEW kind \in LoginPage!Kind, LoginPage!Confirm(kind) PROVE LoginInv'
  BY <1>1, <1>5, LoginNewJob, LoginAsks DEF LoginPage!Confirm, LoginPage!page
<1>6. ASSUME NEW kind \in {"logout", "delete", "sync", "avatar"}, NEW a \in Account,
             LoginPage!RowButton(kind, a)
      PROVE  LoginInv'
  <2> DEFINE job == [LoginPage!NewJob(kind, "post") EXCEPT !.account = a]
  <2>1. clicks' \in 0..MaxClicks
    BY <1>1, <1>6, LoginClicked DEF LoginPage!RowButton
  <2>2. job \in LoginJob
    BY LoginNewJob DEF LoginPage!Kind
  <2>3. LoginPage!Ask(job) /\ UNCHANGED <<password, LoginPage!page>>
    BY <1>6 DEF LoginPage!RowButton
  <2> HIDE DEF job
  <2>4. QED
    BY <1>1, <2>1, <2>2, <2>3, LoginAsks DEF LoginPage!page
<1>7. QED
  BY <1>2, <1>3, <1>4, <1>5, <1>6

LEMMA LoginDialogStep ==
    ASSUME LoginInv,
           \/ LoginPage!CloseDialog \/ LoginPage!HideDialog
           \/ LoginPage!CancelQR \/ LoginPage!Leave
           \/ \E m \in {"qr", "code", "session"} :
                 LoginPage!OpenDialog(m) \/ LoginPage!SetMode(m)
    PROVE  LoginInv'
<1>1. LoginTyped
  BY DEF LoginInv
<1>2. CASE \/ LoginPage!HideDialog \/ LoginPage!Leave
           \/ \E m \in {"qr", "code", "session"} : LoginPage!OpenDialog(m)
  <2>1. jobs' = jobs
    BY <1>2 DEF LoginPage!HideDialog, LoginPage!Leave, LoginPage!OpenDialog
  <2>2. LoginPageTyped'
    <3>1. CASE LoginPage!HideDialog
      BY <1>1, <3>1 DEF LoginPage!HideDialog, LoginTyped, LoginPageTyped
    <3>2. CASE LoginPage!Leave
      BY <1>1, <3>2 DEF LoginPage!Leave, LoginTyped, LoginPageTyped
    <3>3. ASSUME NEW m \in {"qr", "code", "session"}, LoginPage!OpenDialog(m)
          PROVE  LoginPageTyped'
      BY <1>1, <3>3 DEF LoginPage!OpenDialog, LoginTyped, LoginPageTyped
    <3>4. QED
      BY <1>2, <3>1, <3>2, <3>3
  <2>3. LoginTyped' /\ (Minded' <=> Minded)
    BY <1>1, <2>1, <2>2 DEF LoginTyped, Minded
  <2>4. QED
    BY <1>2, <2>2, <2>3
    DEF LoginPage!HideDialog, LoginPage!Leave, LoginPage!OpenDialog, LoginInv
<1>3. ASSUME LoginPage!Cancel,
             UNCHANGED <<view, logins, accounts, busy, items, password, shown, sent, failed,
                         left, faults>>,
             open' \in BOOLEAN, mode' \in {"qr", "code", "session"}, clicks' \in 0..MaxClicks
      PROVE  LoginInv'
  <2>1. /\ jobs' \in [Slot -> LoginJob \cup {LoginPage!NoJob}] /\ timer' = FALSE
        /\ shown = "none" \/ Minded'
    BY <1>1, <1>3, LoginCancel
  <2>2. LoginTyped'
    BY <1>1, <1>3, <2>1 DEF LoginTyped, LoginPageTyped
  <2>3. QED
    BY <1>3, <2>1, <2>2 DEF LoginInv
<1>4. open \in BOOLEAN /\ mode \in {"qr", "code", "session"} /\ clicks \in 0..MaxClicks
  BY <1>1 DEF LoginTyped, LoginPageTyped
<1>5. CASE LoginPage!CloseDialog
  BY <1>3, <1>4, <1>5 DEF LoginPage!CloseDialog
<1>6. CASE LoginPage!CancelQR
  <2>1. clicks' \in 0..MaxClicks
    BY <1>1, <1>6, LoginClicked DEF LoginPage!CancelQR
  <2>2. QED
    BY <1>3, <1>4, <1>6, <2>1 DEF LoginPage!CancelQR
<1>7. ASSUME NEW m \in {"qr", "code", "session"}, LoginPage!SetMode(m) PROVE LoginInv'
  <2>1. CASE m # "qr" /\ view = "accounts"
    BY <1>3, <1>4, <1>7, <2>1 DEF LoginPage!SetMode
  <2>2. CASE ~(m # "qr" /\ view = "accounts")
    <3>1. /\ jobs' = jobs /\ (view = "accounts" => timer' = timer) /\ timer' \in {timer, FALSE}
          /\ mode' = m
          /\ UNCHANGED <<view, logins, accounts, busy, items, password, open, shown, sent,
                         failed, left, faults, clicks>>
      BY <1>7, <2>2 DEF LoginPage!SetMode
    <3>2. LoginTyped'
      BY <1>1, <3>1 DEF LoginTyped, LoginPageTyped
    <3>3. Minded' <=> Minded
      BY <3>1 DEF Minded
    <3>4. QED
      BY <3>1, <3>2, <3>3 DEF LoginInv
  <2>3. QED
    BY <2>1, <2>2
<1>8. QED
  BY <1>2, <1>5, <1>6, <1>7

LEMMA LoginClockStep ==
    ASSUME LoginInv,
           \/ LoginPage!TimerFires
           \/ \E i \in Login : LoginPage!Age(i) \/ \E a \in Account : LoginPage!Scan(i, a)
    PROVE  LoginInv'
<1>1. LoginTyped
  BY DEF LoginInv
<1>2. CASE LoginPage!TimerFires
  <2>1. jobs' \in [Slot -> LoginJob \cup {LoginPage!NoJob}] /\ (shown = "none" \/ Minded')
    <3>1. CASE shown = "none"
      BY <1>1, <1>2, <3>1 DEF LoginPage!TimerFires, LoginTyped
    <3>2. CASE shown # "none"
      <4> DEFINE job == [LoginPage!NewJob("poll", "post") EXCEPT !.login = shown]
      <4>1. job \in LoginJob /\ job.kind = "poll"
        BY <1>1, LoginNewJob DEF LoginTyped, LoginPageTyped, LoginPage!Kind
      <4>2. LoginPage!Begin(job)
        BY <1>2, <3>2 DEF LoginPage!TimerFires
      <4> HIDE DEF job
      <4>3. QED
        BY <1>1, <4>1, <4>2, LoginBegun
    <3>3. QED
      BY <3>1, <3>2
  <2>2. LoginTyped'
    BY <1>1, <1>2, <2>1 DEF LoginPage!TimerFires, LoginTyped, LoginPageTyped
  <2>3. QED
    BY <1>2, <2>1, <2>2 DEF LoginPage!TimerFires, LoginInv
<1>3. ASSUME NEW i \in Login, LoginPage!Age(i) \/ \E a \in Account : LoginPage!Scan(i, a)
      PROVE  LoginInv'
  <2>1. UNCHANGED <<view, accounts, jobs, busy, items, password, LoginPage!page, faults,
                    clicks>>
    BY <1>3 DEF LoginPage!Age, LoginPage!Scan
  <2>2. logins' \in [Login -> {"unused", "pending", "expired", "gone"} \cup Account]
    BY <1>1, <1>3 DEF LoginPage!Age, LoginPage!Scan, LoginTyped, LoginPageTyped
  <2>3. LoginTyped'
    BY <1>1, <2>1, <2>2 DEF LoginTyped, LoginPageTyped, LoginPage!page
  <2>4. QED
    BY <2>1, <2>3 DEF LoginInv, Minded, LoginPage!page
<1>4. QED
  BY <1>2, <1>3

LEMMA LoginAnsweredStep ==
    ASSUME LoginInv, NEW s \in Slot, LoginPage!Answered(s)
    PROVE  LoginInv'
<1> DEFINE job == jobs[s]
<1>1. LoginTyped
  BY DEF LoginInv
<1>2. CASE LoginPage!StartAnswered(s)
  <2>1. job \in LoginJob /\ job \in LoginPage!Job /\ job.kind = "start" /\ job.at = "post"
    BY <1>1, <1>2, LoginJobAt DEF LoginPage!StartAnswered, LoginJob
  <2>2. jobs' = [jobs EXCEPT ![s] = [job EXCEPT !.kind = "poll"]]
    BY <1>2 DEF LoginPage!StartAnswered
  <2>3. [job EXCEPT !.kind = "poll"] \in LoginJob /\ [job EXCEPT !.kind = "poll"].kind = "poll"
    BY <2>1 DEF LoginJob, LoginPage!Job, LoginPage!Kind
  <2>4. jobs' \in [Slot -> LoginJob \cup {LoginPage!NoJob}] /\ jobs'[s].kind = "poll"
    BY <1>1, <2>2, <2>3 DEF LoginTyped
  <2>5. LoginPage!ServerDoes(job, "none") /\ job.login \in Login \cup {"none"}
    BY <1>2, <2>1 DEF LoginPage!StartAnswered, LoginPage!Job
  <2>6. LoginTyped'
    BY <1>1, <1>2, <2>1, <2>4, <2>5, LoginServerTyped
    DEF LoginPage!StartAnswered, LoginTyped, LoginPageTyped
  <2>7. QED
    BY <2>4, <2>6 DEF LoginInv, Minded
<1>3. CASE LoginPage!PollPending(s)
  <2>1. jobs' \in [Slot -> LoginJob \cup {LoginPage!NoJob}] /\ timer' = TRUE
    BY <1>1, <1>3, LoginEnded DEF LoginPage!PollPending
  <2>2. LoginTyped'
    BY <1>1, <1>3, <2>1 DEF LoginPage!PollPending, LoginTyped, LoginPageTyped
  <2>3. QED
    BY <2>1, <2>2 DEF LoginInv
<1>4. ASSUME NEW a \in Account, LoginPage!LoggedIn(s, a) PROVE LoginInv'
  <2>1. /\ job \in LoginJob /\ job \in LoginPage!Job /\ job.kind \notin {"start", "cancel"}
        /\ job # LoginPage!NoJob
        /\ LoginPage!ServerDoes(job, a) /\ jobs' = LoginPage!Goes(s, "list")
        /\ password' \in BOOLEAN /\ busy' = TRUE
        /\ UNCHANGED <<view, items, LoginPage!page, faults, clicks>>
    BY <1>1, <1>4, LoginJobAt
    DEF LoginPage!LoggedIn, LoginPage!SignIn, LoginTyped, LoginPageTyped, LoginPage!NoJob
  <2>2. jobs' \in [Slot -> LoginJob \cup {LoginPage!NoJob}] /\ (Minded => Minded')
    BY <1>1, <2>1, LoginGoesOn
  <2>3. LoginTyped'
    BY <1>1, <2>1, <2>2, LoginServerTyped DEF LoginTyped, LoginPageTyped, LoginPage!page
  <2>4. QED
    BY <2>1, <2>2, <2>3 DEF LoginInv, LoginPage!page
<1>5. CASE LoginPage!PasswordWanted(s) \/ LoginPage!CodeAnswered(s)
  <2>1. jobs' = LoginPage!Without(s) /\ job.kind \notin {"start", "poll", "cancel"}
    BY <1>5 DEF LoginPage!PasswordWanted, LoginPage!CodeAnswered
  <2>2. jobs' \in [Slot -> LoginJob \cup {LoginPage!NoJob}] /\ (Minded => Minded')
    BY <1>1, <2>1, LoginEnded
  <2>3. LoginTyped'
    BY <1>1, <1>5, <2>2
    DEF LoginPage!PasswordWanted, LoginPage!CodeAnswered, LoginTyped, LoginPageTyped,
        LoginPage!page
  <2>4. QED
    BY <1>5, <2>2, <2>3
    DEF LoginPage!PasswordWanted, LoginPage!CodeAnswered, LoginInv, LoginPage!page
<1>6. CASE LoginPage!CancelAnswered(s)
  <2>1. job \in LoginPage!Job /\ LoginPage!ServerDoes(job, "none")
    BY <1>1, <1>6, LoginJobAt DEF LoginPage!CancelAnswered
  <2>2. jobs' \in [Slot -> LoginJob \cup {LoginPage!NoJob}]
    BY <1>1, <1>6, LoginEnded DEF LoginPage!CancelAnswered
  <2>3. LoginTyped'
    BY <1>1, <1>6, <2>1, <2>2, LoginServerTyped
    DEF LoginPage!CancelAnswered, LoginTyped, LoginPageTyped
  <2>4. QED
    BY <1>6, <2>3 DEF LoginPage!CancelAnswered, LoginInv
<1>7. CASE LoginPage!RowAnswered(s)
  <2>1. /\ job.kind \in {"logout", "delete", "sync", "avatar"}
        /\ LoginPage!ServerDoes(job, "none")
        /\ (jobs' = LoginPage!Without(s) \/ jobs' = LoginPage!Goes(s, "list"))
        /\ busy' \in BOOLEAN
        /\ UNCHANGED <<view, items, password, LoginPage!page, faults, clicks>>
    BY <1>7, Zenon DEF LoginPage!RowAnswered
  <2>2. /\ job \in LoginJob /\ job \in LoginPage!Job
        /\ job.kind \notin {"start", "poll", "cancel"}
        /\ job # LoginPage!NoJob
    BY <1>1, <2>1, LoginJobAt DEF LoginPage!NoJob
  <2>3. jobs' \in [Slot -> LoginJob \cup {LoginPage!NoJob}] /\ (Minded => Minded')
    BY <1>1, <2>1, <2>2, LoginGoesOn, LoginEnded
  <2>4. LoginTyped'
    BY <1>1, <2>1, <2>2, <2>3, LoginServerTyped
    DEF LoginTyped, LoginPageTyped, LoginPage!page
  <2>5. QED
    BY <2>1, <2>3, <2>4 DEF LoginInv, LoginPage!page
<1>8. CASE LoginPage!Listed(s)
  <2>1. /\ job \in LoginJob /\ job \in LoginPage!Job /\ job # LoginPage!NoJob
        /\ job.kind \notin {"start", "cancel"}
    BY <1>1, <1>8, LoginJobAt DEF LoginPage!Listed, LoginJob
  <2>2. jobs' \in [Slot -> LoginJob \cup {LoginPage!NoJob}]
    BY <1>1, <1>8, <2>1, LoginGoesOn, LoginEnded DEF LoginPage!Listed
  <2>3. LoginTyped'
    BY <1>1, <1>8, <2>2 DEF LoginPage!Listed, LoginTyped, LoginPageTyped
  <2>4. CASE view = "accounts" /\ job.kind \notin LoginPage!SignIn \cup {"poll"}
    <3>1. /\ jobs' = LoginPage!Without(s) /\ timer' = timer
          /\ UNCHANGED <<view, shown, failed, left>>
      BY <1>1, <1>8, <2>4 DEF LoginPage!Listed, LoginTyped, LoginPageTyped
    <3>2. Minded => Minded'
      BY <1>1, <2>1, <2>4, <3>1, LoginEnded
    <3>3. QED
      BY <2>3, <3>1, <3>2 DEF LoginInv
  <2>5. CASE ~(view = "accounts" /\ job.kind \notin LoginPage!SignIn \cup {"poll"})
    BY <1>8, <2>3, <2>5 DEF LoginPage!Listed, LoginInv
  <2>6. QED
    BY <2>4, <2>5
<1>9. CASE LoginPage!Finished(s)
  <2>1. jobs' \in [Slot -> LoginJob \cup {LoginPage!NoJob}]
    BY <1>1, <1>9, LoginEnded DEF LoginPage!Finished
  <2>2. LoginTyped'
    BY <1>1, <1>9, <2>1 DEF LoginPage!Finished, LoginTyped, LoginPageTyped
  <2>3. QED
    BY <1>9, <2>2 DEF LoginPage!Finished, LoginInv
<1>10. QED
  BY <1>2, <1>3, <1>4, <1>5, <1>6, <1>7, <1>8, <1>9 DEF LoginPage!Answered

LEMMA LoginFailsStep ==
    ASSUME LoginInv, NEW s \in Slot, NEW done \in BOOLEAN, LoginPage!Fails(s, done)
    PROVE  LoginInv'
<1> DEFINE job == jobs[s]
<1>1. LoginTyped /\ job \in LoginJob /\ job \in LoginPage!Job
  BY LoginJobAt DEF LoginInv, LoginPage!Fails
<1>2. jobs' = LoginPage!Without(s)
  BY DEF LoginPage!Fails
<1>3. /\ jobs' \in [Slot -> LoginJob \cup {LoginPage!NoJob}]
      /\ Minded /\ job.kind \notin {"start", "poll", "cancel"} => Minded'
  BY <1>1, <1>2, LoginEnded
<1>4. /\ logins' \in [Login -> {"unused", "pending", "expired", "gone"} \cup Account]
      /\ accounts' \in [Account -> LoginPage!Status]
  <2>1. CASE done
    BY <1>1, <2>1, LoginServerTyped DEF LoginPage!Fails
  <2>2. CASE ~done
    BY <1>1, <2>2 DEF LoginPage!Fails, LoginTyped, LoginPageTyped
  <2>3. QED
    BY <2>1, <2>2
<1>5. faults' \in 0..MaxFaults
  BY <1>1, BoundAssumption DEF LoginPage!Fails, LoginTyped, LoginPageTyped
<1>6. LoginTyped'
  <2>1. /\ UNCHANGED <<view, items, password, open, mode, sent, left, clicks>>
        /\ busy' \in BOOLEAN /\ timer' \in BOOLEAN /\ failed' \in BOOLEAN
        /\ shown' \in {shown, "none"}
    BY <1>1 DEF LoginPage!Fails, LoginTyped, LoginPageTyped
  <2>2. QED
    BY <1>1, <1>3, <1>4, <1>5, <2>1 DEF LoginTyped, LoginPageTyped
<1>7. CASE job.kind \in {"start", "poll"} \/ (job.kind = "cancel" /\ view = "accounts")
  BY <1>6, <1>7 DEF LoginPage!Fails, LoginInv
<1>8. CASE job.kind \notin {"start", "poll"} /\ ~(job.kind = "cancel" /\ view = "accounts")
  <2>1. /\ UNCHANGED <<view, left, shown>> /\ timer' = timer
        /\ failed => failed'
    BY <1>1, <1>8 DEF LoginPage!Fails, LoginTyped, LoginPageTyped
  <2>2. view = "accounts" => job.kind \notin {"start", "poll", "cancel"}
    BY <1>8
  <2>3. QED
    BY <1>3, <1>6, <2>1, <2>2 DEF LoginInv
<1>9. QED
  BY <1>7, <1>8

LEMMA LoginInvStep == LoginInv /\ [LoginPage!Next]_(LoginPage!vars) => LoginInv'
<1> SUFFICES ASSUME LoginInv, [LoginPage!Next]_(LoginPage!vars) PROVE LoginInv'
  OBVIOUS
<1>1. CASE LoginPage!Next
  BY <1>1, LoginRequestStep, LoginDialogStep, LoginClockStep, LoginAnsweredStep,
     LoginFailsStep
  DEF LoginPage!Next
<1>2. CASE UNCHANGED (LoginPage!vars)
  BY <1>2 DEF LoginPage!vars, LoginPage!page, LoginInv, LoginTyped, LoginPageTyped, Minded
<1>3. QED
  BY <1>1, <1>2

-----------------------------------------------------------------------------
(* The five pages.                                                          *)

Inv ==
    /\ view \in LoginPage!View => LoginInv
    /\ view \in Channels!View => ChannelProofs!Inv
    /\ view \in Lists!View => EditProofs!Inv
    /\ view \in Paged!View => PagedProofs!Inv
    /\ view \in Forms!View => FormProofs!Inv

LEMMA ParametersHold ==
    /\ EditProofs!Parameters /\ PagedProofs!Parameters /\ FormProofs!Parameters
    /\ ChannelProofs!Parameters
<1>1. EditProofs!Parameters
  BY ItemAssumption, BoundAssumption DEF EditProofs!Parameters
<1>2. PagedProofs!Parameters
  <2>1. PagedProofs!IsFiniteSet(Row)
    BY Zenon, SizeAssumption DEF IsFiniteSet, PagedProofs!IsFiniteSet
  <2>2. QED
    BY <2>1, SizeAssumption, BoundAssumption DEF PagedProofs!Parameters
<1>3. FormProofs!Parameters
  BY UnitAssumption, VendorAssumption, BoundAssumption DEF FormProofs!Parameters
<1>4. ChannelProofs!Parameters
  BY ChannelAssumption, BoundAssumption DEF ChannelProofs!Parameters
<1>5. QED
  BY <1>1, <1>2, <1>3, <1>4

\* The views of the five pages are different.
LEMMA ViewsApart ==
    /\ view \in Lists!View =>
          /\ view \notin LoginPage!View /\ view \notin Paged!View
          /\ view \notin Channels!View /\ view \notin Forms!View
    /\ view \in Paged!View =>
          /\ view \notin LoginPage!View /\ view \notin Lists!View
          /\ view \notin Channels!View /\ view \notin Forms!View
    /\ view \in Forms!View =>
          /\ view \notin LoginPage!View /\ view \notin Lists!View
          /\ view \notin Channels!View /\ view \notin Paged!View
    /\ view \in LoginPage!View =>
          /\ view \notin Channels!View /\ view \notin Lists!View
          /\ view \notin Forms!View /\ view \notin Paged!View
    /\ view \in Channels!View =>
          /\ view \notin LoginPage!View /\ view \notin Lists!View
          /\ view \notin Forms!View /\ view \notin Paged!View
  BY DEF Lists!View, LoginPage!View, Paged!View, Channels!View, Forms!View

-----------------------------------------------------------------------------
(* The modules instantiated here and those the proofs are about are the     *)
(* same.                                                                    *)

LEMMA SameListsNext == Lists!Next <=> EditProofs!Next
  BY ZenonT(60) DEF
    Lists!Next, EditProofs!Next, Lists!TypeText, EditProofs!TypeText, Lists!TypeSecret,
    EditProofs!TypeSecret, Lists!ClickNew, EditProofs!ClickNew, Lists!Save, EditProofs!Save,
    Lists!Edit, EditProofs!Edit, Lists!Toggle, EditProofs!Toggle, Lists!Delete,
    EditProofs!Delete, Lists!Answered, EditProofs!Answered, Lists!Listed, EditProofs!Listed,
    Lists!Fails, EditProofs!Fails, Lists!Typed, EditProofs!Typed, Lists!For, EditProofs!For,
    Lists!Blank, EditProofs!Blank, Lists!Shown, EditProofs!Shown, Lists!Begin,
    EditProofs!Begin, Lists!NewJob, EditProofs!NewJob, Lists!Accepts, EditProofs!Accepts,
    Lists!Store, EditProofs!Store, Lists!ServerDoes, EditProofs!ServerDoes, Lists!FormAfter,
    EditProofs!FormAfter, Lists!Missing, EditProofs!Missing, Lists!Deleted, EditProofs!Deleted,
    Lists!Unused, EditProofs!Unused, Lists!RemoveAt, EditProofs!RemoveAt

LEMMA SamePagedNext == Paged!Next <=> PagedProofs!Next
  BY ZenonT(60) DEF
    Paged!Next, PagedProofs!Next, Paged!Filter, PagedProofs!Filter, Paged!Choose,
    PagedProofs!Choose, Paged!NoDialog, PagedProofs!NoDialog, Paged!store, PagedProofs!store,
    Paged!SelectLog, PagedProofs!SelectLog, Paged!FilterAndLoad, PagedProofs!FilterAndLoad,
    Paged!Ask, PagedProofs!Ask, Paged!Click, PagedProofs!Click, Paged!AskFor,
    PagedProofs!AskFor, Paged!Asks, PagedProofs!Asks, Paged!Silent, PagedProofs!Silent,
    Paged!Loads, PagedProofs!Loads, Paged!LoadJob, PagedProofs!LoadJob,
    Paged!Crosses, PagedProofs!Crosses, Paged!SelectCategory, PagedProofs!SelectCategory,
    Paged!ChangeRoute, PagedProofs!ChangeRoute, Paged!Submit, PagedProofs!Submit, Paged!Query,
    PagedProofs!Query, Paged!SortTasks, PagedProofs!SortTasks, Paged!ResetFilters,
    PagedProofs!ResetFilters, Paged!Refresh, PagedProofs!Refresh, Paged!Remount,
    PagedProofs!Remount, Paged!First, PagedProofs!First, Paged!DefaultSize,
    PagedProofs!DefaultSize, Paged!TickAll, PagedProofs!TickAll, Paged!RowsOnScreen,
    PagedProofs!RowsOnScreen, Paged!Tick, PagedProofs!Tick, Paged!AskDeleteTicked,
    PagedProofs!AskDeleteTicked, Paged!AskDelete, PagedProofs!AskDelete, Paged!Dismiss,
    PagedProofs!Dismiss, Paged!Unasked, PagedProofs!Unasked, Paged!Confirm,
    PagedProofs!Confirm, Paged!Request, PagedProofs!Request, Paged!NoQuery,
    PagedProofs!NoQuery, Paged!GoToPage, PagedProofs!GoToPage, Paged!Paged, PagedProofs!Paged,
    Paged!Reachable, PagedProofs!Reachable, Paged!page, PagedProofs!page, Paged!Pages,
    PagedProofs!Pages, Paged!ChangePageSize, PagedProofs!ChangePageSize, Paged!TickRow,
    PagedProofs!TickRow, Paged!AskDeleteRow, PagedProofs!AskDeleteRow, Paged!RunAction,
    PagedProofs!RunAction, Paged!Published, PagedProofs!Published, Paged!EventArrives,
    PagedProofs!EventArrives, Paged!Apply, PagedProofs!Apply, Paged!Vanishes,
    PagedProofs!Vanishes, Paged!LoadAnswered, PagedProofs!LoadAnswered, Paged!Matching,
    PagedProofs!Matching, Paged!Slice, PagedProofs!Slice, Paged!Clamp, PagedProofs!Clamp,
    Paged!DeleteAnswered, PagedProofs!DeleteAnswered, Paged!Fewer, PagedProofs!Fewer,
    Paged!ActionAnswered, PagedProofs!ActionAnswered, Paged!Fails, PagedProofs!Fails,
    Paged!RemoveAt, PagedProofs!RemoveAt, Paged!Cardinality, PagedProofs!Cardinality

LEMMA SameFormsNext == Forms!Next <=> FormProofs!Next
  BY ZenonT(60) DEF
    Forms!Next, FormProofs!Next, Forms!TypeKey, FormProofs!TypeKey, Forms!Edited,
    FormProofs!Edited, Forms!Edit, FormProofs!Edit, Forms!RemoveRow, FormProofs!RemoveRow,
    Forms!MoveRow, FormProofs!MoveRow, Forms!Preset, FormProofs!Preset, Forms!StoredKey,
    FormProofs!StoredKey, Forms!Effective, FormProofs!Effective, Forms!AddRow,
    FormProofs!AddRow, Forms!FirstVendor, FormProofs!FirstVendor, Forms!TypeLimit,
    FormProofs!TypeLimit, Forms!Save, FormProofs!Save, Forms!Legal, FormProofs!Legal,
    Forms!Bytes, FormProofs!Bytes, Forms!Begin, FormProofs!Begin, Forms!form, FormProofs!form,
    Forms!NewJob, FormProofs!NewJob, Forms!Settings, FormProofs!Settings, Forms!Payload,
    FormProofs!Payload, Forms!Regenerate, FormProofs!Regenerate, Forms!NoPayload,
    FormProofs!NoPayload, Forms!Remount, FormProofs!Remount, Forms!Served, FormProofs!Served,
    Forms!Preserve, FormProofs!Preserve, Forms!Filled, FormProofs!Filled, Forms!Fill,
    FormProofs!Fill, Forms!Split, FormProofs!Split, Forms!UsageShown, FormProofs!UsageShown,
    Forms!KeyArrives, FormProofs!KeyArrives, Forms!Fails, FormProofs!Fails, Forms!RemoveAt,
    FormProofs!RemoveAt, Forms!ToSet, FormProofs!ToSet, Forms!Current, FormProofs!Current,
    Forms!Known, FormProofs!Known, Forms!Loaded, FormProofs!Loaded, Forms!Decoded,
    FormProofs!Decoded, Forms!Remembered, FormProofs!Remembered, Forms!Overwritten,
    FormProofs!Overwritten, Forms!Started, FormProofs!Started, Forms!Capacity,
    FormProofs!Capacity, Forms!Inherits, FormProofs!Inherits, Forms!NoProvider,
    FormProofs!NoProvider, Forms!ReadElsewhere, FormProofs!ReadElsewhere, Forms!Restart,
    FormProofs!Restart

LEMMA SameChannelsNext == Channels!Next <=> ChannelProofs!Next
  BY ZenonT(60) DEF
    Channels!ruleDialog, ChannelProofs!ruleDialog, Channels!ruleWaits,
    ChannelProofs!ruleWaits, Channels!UnusedId, ChannelProofs!UnusedId, Channels!Deleted,
    ChannelProofs!Deleted, Channels!NoRule, ChannelProofs!NoRule, Channels!Live,
    ChannelProofs!Live, Channels!RulesOf, ChannelProofs!RulesOf, Channels!UnusedIds,
    ChannelProofs!UnusedIds, Channels!SpinOf, ChannelProofs!SpinOf, Channels!NewJob,
    ChannelProofs!NewJob, Channels!Click, ChannelProofs!Click, Channels!Press,
    ChannelProofs!Press, Channels!Begin, ChannelProofs!Begin, Channels!Refresh,
    ChannelProofs!Refresh, Channels!RowButton, ChannelProofs!RowButton,
    Channels!CheckWebAccess, ChannelProofs!CheckWebAccess, Channels!BatchCheckWebAccess,
    ChannelProofs!BatchCheckWebAccess, Channels!ToggleListening,
    ChannelProofs!ToggleListening, Channels!OpenFor, ChannelProofs!OpenFor,
    Channels!SyncHistory, ChannelProofs!SyncHistory, Channels!ConfirmClearChannel,
    ChannelProofs!ConfirmClearChannel, Channels!Confirmed, ChannelProofs!Confirmed,
    Channels!ConfirmSyncHistory, ChannelProofs!ConfirmSyncHistory, Channels!ClearChannel,
    ChannelProofs!ClearChannel, Channels!Unasked, ChannelProofs!Unasked, Channels!Hide,
    ChannelProofs!Hide, Channels!CloseSyncModal, ChannelProofs!CloseSyncModal,
    Channels!CloseRuleModal, ChannelProofs!CloseRuleModal, Channels!OpenRuleModal,
    ChannelProofs!OpenRuleModal, Channels!OpenGlobalRules, ChannelProofs!OpenGlobalRules,
    Channels!OpenChannelRules, ChannelProofs!OpenChannelRules, Channels!TypeRule,
    ChannelProofs!TypeRule, Channels!SaveRule, ChannelProofs!SaveRule,
    Channels!UseGlobalRule, ChannelProofs!UseGlobalRule, Channels!Accepts,
    ChannelProofs!Accepts, Channels!ServerDoes, ChannelProofs!ServerDoes, Channels!Ends,
    ChannelProofs!Ends, Channels!Closes, ChannelProofs!Closes, Channels!GoesOn,
    ChannelProofs!GoesOn, Channels!Answered, ChannelProofs!Answered, Channels!Listed,
    ChannelProofs!Listed, Channels!RulesArrive, ChannelProofs!RulesArrive, Channels!Fails,
    ChannelProofs!Fails, Channels!Next, ChannelProofs!Next, Channels!server,
    ChannelProofs!server, Channels!RemoveAt, ChannelProofs!RemoveAt

LEMMA SameInit ==
    /\ Lists!Init => EditProofs!Init
    /\ Paged!Init => PagedProofs!Init
    /\ Forms!Init => FormProofs!Init
    /\ Channels!Init => ChannelProofs!Init
<1>1. Lists!Init => EditProofs!Init
  BY Zenon DEF Lists!Init, EditProofs!Init, Lists!View, EditProofs!View, Lists!Unused,
    EditProofs!Unused, Lists!Blank, EditProofs!Blank, Lists!NewJob, EditProofs!NewJob
<1>2. Paged!Init => PagedProofs!Init
  BY Zenon DEF Paged!Init, PagedProofs!Init, Paged!View, PagedProofs!View, Paged!DefaultSize,
    PagedProofs!DefaultSize, Paged!NoDialog, PagedProofs!NoDialog, Paged!NoQuery,
    PagedProofs!NoQuery, Paged!LoadJob, PagedProofs!LoadJob, Paged!First, PagedProofs!First
<1>3. Forms!Init => FormProofs!Init
  BY Zenon DEF Forms!Init, FormProofs!Init, Forms!View, FormProofs!View, Forms!FirstVendor,
    FormProofs!FirstVendor, Forms!NoSize, FormProofs!NoSize, Forms!NewJob, FormProofs!NewJob,
    Forms!NoPayload, FormProofs!NoPayload, Forms!Settings, FormProofs!Settings,
    Forms!TwoProviders, FormProofs!TwoProviders, Forms!SettingsWith, FormProofs!SettingsWith,
    Forms!Started, FormProofs!Started, Forms!Capacity, FormProofs!Capacity, Forms!Loaded,
    FormProofs!Loaded, Forms!Decoded, FormProofs!Decoded, Forms!Remembered,
    FormProofs!Remembered, Forms!NoProvider, FormProofs!NoProvider
<1>4. Channels!Init => ChannelProofs!Init
  BY Zenon DEF Channels!Init, ChannelProofs!Init, Channels!View, ChannelProofs!View,
    Channels!UnusedId, ChannelProofs!UnusedId, Channels!NewJob, ChannelProofs!NewJob,
    Channels!IsInjective, ChannelProofs!IsInjective
<1>5. QED
  BY <1>1, <1>2, <1>3, <1>4

LEMMA SameTypes ==
    /\ Lists!TypeOK <=> EditProofs!TypeOK
    /\ Paged!TypeOK <=> PagedProofs!TypeOK
    /\ Forms!TypeOK <=> FormProofs!TypeOK
    /\ Channels!TypeOK <=> ChannelProofs!TypeOK
<1>1. Lists!TypeOK <=> EditProofs!TypeOK
  BY Zenon DEF Lists!TypeOK, EditProofs!TypeOK, Lists!View, EditProofs!View, Lists!Fields,
     EditProofs!Fields, Lists!Missing, EditProofs!Missing, Lists!Text, EditProofs!Text,
     Lists!Job, EditProofs!Job, Lists!Unused, EditProofs!Unused, Lists!Deleted,
     EditProofs!Deleted
<1>2. Paged!TypeOK <=> PagedProofs!TypeOK
  BY Zenon DEF Paged!TypeOK, PagedProofs!TypeOK, Paged!View, PagedProofs!View, Paged!Filter,
     PagedProofs!Filter, Paged!Job, PagedProofs!Job, Paged!QuerySet, PagedProofs!QuerySet,
     Paged!NoQuery, PagedProofs!NoQuery
<1>3. Forms!TypeOK <=> FormProofs!TypeOK
  BY Zenon DEF Forms!TypeOK, FormProofs!TypeOK, Forms!View, FormProofs!View, Forms!IsRows,
     FormProofs!IsRows, Forms!Key, FormProofs!Key, Forms!Amount, FormProofs!Amount,
     Forms!Provider, FormProofs!Provider, Forms!Id, FormProofs!Id
<1>4. Channels!TypeOK <=> ChannelProofs!TypeOK
  BY Zenon DEF Channels!TypeOK, ChannelProofs!TypeOK, Channels!View, ChannelProofs!View,
     Channels!Text, ChannelProofs!Text, Channels!NoRule, ChannelProofs!NoRule, Channels!Job,
     ChannelProofs!Job, Channels!Spin, ChannelProofs!Spin, Channels!UnusedId,
     ChannelProofs!UnusedId, Channels!Deleted, ChannelProofs!Deleted, Channels!Kind,
     ChannelProofs!Kind, Channels!Pressed, ChannelProofs!Pressed
<1>5. QED
  BY <1>1, <1>2, <1>3, <1>4

-----------------------------------------------------------------------------

LEMMA InvInit == Init => Inv
<1> SUFFICES ASSUME Init PROVE Inv
  OBVIOUS
<1>1. ASSUME view \in Lists!View PROVE EditProofs!Inv
  <2>1. Lists!Init
    BY <1>1, ViewsApart DEF Init, LoginPage!Init, Paged!Init, Channels!Init, Forms!Init
  <2>2. QED
    BY <2>1, SameInit, ParametersHold, EditProofs!InvInit
<1>2. ASSUME view \in Paged!View PROVE PagedProofs!Inv
  <2>1. Paged!Init
    BY <1>2, ViewsApart DEF Init, LoginPage!Init, Lists!Init, Channels!Init, Forms!Init
  <2>2. QED
    BY <2>1, SameInit, ParametersHold, PagedProofs!InvInit
<1>3. ASSUME view \in Forms!View PROVE FormProofs!Inv
  <2>1. Forms!Init
    BY <1>3, ViewsApart DEF Init, LoginPage!Init, Lists!Init, Channels!Init, Paged!Init
  <2>2. QED
    BY <2>1, SameInit, ParametersHold, FormProofs!InvInit
<1>4. ASSUME view \in Channels!View PROVE ChannelProofs!Inv
  <2>1. Channels!Init
    BY <1>4, ViewsApart DEF Init, LoginPage!Init, Lists!Init, Forms!Init, Paged!Init
  <2>2. QED
    BY <2>1, SameInit, ParametersHold, ChannelProofs!InvInit
<1>5. ASSUME view \in LoginPage!View PROVE LoginInv
  <2>1. LoginPage!Init
    BY <1>5, ViewsApart DEF Init, Channels!Init, Lists!Init, Forms!Init, Paged!Init
  <2>2. QED
    BY <2>1, LoginInvInit
<1>6. QED
  BY <1>1, <1>2, <1>3, <1>4, <1>5 DEF Inv

\* A step is one of the page on screen.
LEMMA StepOfPage ==
    ASSUME [Next]_vars
    PROVE  /\ view' = view
           /\ view \in Lists!View => [EditProofs!Next]_(EditProofs!vars)
           /\ view \in Paged!View => [PagedProofs!Next]_(PagedProofs!vars)
           /\ view \in Forms!View => [FormProofs!Next]_(FormProofs!vars)
           /\ view \in Channels!View => [ChannelProofs!Next]_(ChannelProofs!vars)
           /\ view \in LoginPage!View => [LoginPage!Next]_(LoginPage!vars)
<1>1. CASE Next
  <2>1. view' = view
    BY <1>1 DEF Next
  <2>2. ASSUME view \in Lists!View PROVE EditProofs!Next
    BY <1>1, <2>2, ViewsApart, SameListsNext DEF Next
  <2>3. ASSUME view \in Paged!View PROVE PagedProofs!Next
    BY <1>1, <2>3, ViewsApart, SamePagedNext DEF Next
  <2>4. ASSUME view \in Forms!View PROVE FormProofs!Next
    BY <1>1, <2>4, ViewsApart, SameFormsNext DEF Next
  <2>5. ASSUME view \in Channels!View PROVE ChannelProofs!Next
    BY <1>1, <2>5, ViewsApart, SameChannelsNext DEF Next
  <2>6. ASSUME view \in LoginPage!View PROVE LoginPage!Next
    BY <1>1, <2>6, ViewsApart DEF Next
  <2>7. QED
    BY <2>1, <2>2, <2>3, <2>4, <2>5, <2>6
<1>2. CASE UNCHANGED vars
  BY <1>2 DEF vars, common, loginState, listState, channelState, editState, formState,
              EditProofs!vars, PagedProofs!vars, PagedProofs!store, FormProofs!vars,
              FormProofs!form, ChannelProofs!vars, ChannelProofs!server,
              ChannelProofs!ruleWaits, ChannelProofs!ruleDialog, LoginPage!vars,
              LoginPage!page
<1>3. QED
  BY <1>1, <1>2

LEMMA InvStep == Inv /\ [Next]_vars => Inv'
<1> SUFFICES ASSUME Inv, [Next]_vars PROVE Inv'
  OBVIOUS
<1>1. view' = view
  BY StepOfPage
<1>2. ASSUME view \in Lists!View PROVE EditProofs!Inv'
  <2>1. EditProofs!Inv /\ [EditProofs!Next]_(EditProofs!vars)
    BY <1>2, StepOfPage DEF Inv
  <2>2. QED
    BY <2>1, ParametersHold, EditProofs!InvStep
<1>3. ASSUME view \in Paged!View PROVE PagedProofs!Inv'
  <2>1. PagedProofs!Inv /\ [PagedProofs!Next]_(PagedProofs!vars)
    BY <1>3, StepOfPage DEF Inv
  <2>2. QED
    BY <2>1, ParametersHold, PagedProofs!InvStep
<1>4. ASSUME view \in Forms!View PROVE FormProofs!Inv'
  <2>1. FormProofs!Inv /\ [FormProofs!Next]_(FormProofs!vars)
    BY <1>4, StepOfPage DEF Inv
  <2>2. QED
    BY <2>1, ParametersHold, FormProofs!InvStep
<1>5. ASSUME view \in Channels!View PROVE ChannelProofs!Inv'
  <2>1. ChannelProofs!Inv /\ [ChannelProofs!Next]_(ChannelProofs!vars)
    BY <1>5, StepOfPage DEF Inv
  <2>2. QED
    BY <2>1, ParametersHold, ChannelProofs!InvStep
<1>6. ASSUME view \in LoginPage!View PROVE LoginInv'
  <2>1. LoginInv /\ [LoginPage!Next]_(LoginPage!vars)
    BY <1>6, StepOfPage DEF Inv
  <2>2. QED
    BY <2>1, LoginInvStep
<1>7. /\ (view \in Lists!View)' = (view \in Lists!View)
      /\ (view \in Paged!View)' = (view \in Paged!View)
      /\ (view \in Forms!View)' = (view \in Forms!View)
      /\ (view \in Channels!View)' = (view \in Channels!View)
      /\ (view \in LoginPage!View)' = (view \in LoginPage!View)
  BY <1>1 DEF Lists!View, Paged!View, Forms!View, Channels!View, LoginPage!View
<1>8. QED
  BY <1>2, <1>3, <1>4, <1>5, <1>6, <1>7 DEF Inv

LEMMA Invariance == Spec => []Inv
<1>1. Init => Inv
  BY InvInit
<1>2. Inv /\ [Next]_vars => Inv'
  BY InvStep
<1>3. QED
  BY <1>1, <1>2, PTL DEF Spec

-----------------------------------------------------------------------------
(* The theorems.                                                            *)

\* Whichever page is on screen, its variables have their types.
THEOREM TypeCorrect == Spec => []TypeOK
<1>1. Inv => TypeOK
  BY LoginInvHolds, PagedProofs!InvHolds, ChannelProofs!InvHolds, EditProofs!InvHolds,
     FormProofs!InvHolds, SameTypes
  DEF Inv, TypeOK
<1>2. Spec => []Inv
  BY Invariance
<1>3. QED
  BY <1>1, <1>2, PTL

\* A code in the log-in dialog is polled until the page says that it is not,
\* whichever handlers end late and whatever was hidden, left or chosen before.
THEOREM CodeIsPolledCorrect == Spec => []CodeIsPolled
<1>1. Inv => CodeIsPolled
  BY LoginInvHolds DEF Inv, CodeIsPolled
<1>2. Spec => []Inv
  BY Invariance
<1>3. QED
  BY <1>1, <1>2, PTL

\* With nothing in flight no button of the channels page spins, and its rows
\* are true unless a failure was shown.
THEOREM QuietPageCorrect == Spec => []QuietPageIsTrue
<1>1. Inv => QuietPageIsTrue
  <2>1. ChannelProofs!Inv => ChannelProofs!QuietPageIsTrue
    BY ChannelProofs!InvHolds
  <2>2. QED
    BY <2>1 DEF Inv, QuietPageIsTrue, Channels!QuietPageIsTrue, ChannelProofs!QuietPageIsTrue
<1>2. Spec => []Inv
  BY Invariance
<1>3. QED
  BY <1>1, <1>2, PTL

\* No dialog of the channels page writes its rule over another's.
THEOREM RulesStayHomeCorrect == Spec => RulesStayHome
<1>1. Inv /\ [Next]_vars => [(view \in Channels!View) => (Channels!RulesStayHome)]_vars
  <2> SUFFICES ASSUME Inv, [Next]_vars, view \in Channels!View
               PROVE  Channels!RulesStayHome
    OBVIOUS
  <2>1. ChannelProofs!Inv /\ [ChannelProofs!Next]_(ChannelProofs!vars)
    BY StepOfPage DEF Inv
  <2>2. ChannelProofs!RulesStayHome
    BY <2>1, ParametersHold, ChannelProofs!StaysHomeStep
  <2>3. QED
    BY <2>2 DEF ChannelProofs!RulesStayHome, Channels!RulesStayHome, Channels!Live,
       ChannelProofs!Live, Channels!NoRule, ChannelProofs!NoRule, Channels!UnusedId,
       ChannelProofs!UnusedId, Channels!Deleted, ChannelProofs!Deleted
<1>2. Spec => []Inv
  BY Invariance
<1>3. QED
  BY <1>1, <1>2, PTL DEF Spec, RulesStayHome

\* No saved search or webhook ever stores what was typed for another.
THEOREM OwnTextCorrect == Spec => []OwnText
<1>1. Inv => OwnText
  <2>1. EditProofs!Inv => EditProofs!OwnText
    BY EditProofs!InvHolds
  <2>2. QED
    BY <2>1 DEF Inv, OwnText, Lists!OwnText, EditProofs!OwnText, Lists!Missing,
       EditProofs!Missing, Lists!Unused, EditProofs!Unused, Lists!Deleted, EditProofs!Deleted
<1>2. Spec => []Inv
  BY Invariance
<1>3. QED
  BY <1>1, <1>2, PTL

\* Nothing but a delete takes the secret of a webhook away.
THEOREM SecretKeptCorrect == Spec => SecretKept
<1>1. Inv /\ [Next]_vars => [(view \in Lists!View) => (Lists!SecretKept)]_vars
  <2> SUFFICES ASSUME Inv, [Next]_vars, view \in Lists!View, ~ UNCHANGED vars
               PROVE  Lists!SecretKept
    OBVIOUS
  <2>1. EditProofs!Inv /\ [EditProofs!Next]_(EditProofs!vars)
    BY StepOfPage DEF Inv
  <2>2. EditProofs!SecretKept \/ UNCHANGED (EditProofs!vars)
    BY <2>1, ParametersHold, EditProofs!SecretKeptStep
  <2>3. QED
    BY <2>2 DEF EditProofs!vars, EditProofs!SecretKept, Lists!SecretKept, Lists!Deleted,
       EditProofs!Deleted
<1>2. Spec => []Inv
  BY Invariance
<1>3. QED
  BY <1>1, <1>2, PTL DEF Spec, SecretKept

\* The page number of a list is one of the pages there are.
THEOREM PageInRangeCorrect == Spec => []PageInRange
<1>1. Inv => PageInRange
  <2>1. PagedProofs!Inv => PagedProofs!PageInRange
    BY PagedProofs!InvHolds
  <2>2. QED
    BY <2>1 DEF Inv, PageInRange, Paged!PageInRange, PagedProofs!PageInRange, Paged!page,
       PagedProofs!page, Paged!Pages, PagedProofs!Pages
<1>2. Spec => []Inv
  BY Invariance
<1>3. QED
  BY <1>1, <1>2, PTL

\* With nothing on its way, a list is the page its pagination names.
THEOREM PageShownCorrect == Spec => []PageShown
<1>1. Inv => PageShown
  <2>1. PagedProofs!Inv => PagedProofs!PageShown
    BY PagedProofs!InvHolds
  <2>2. QED
    BY <2>1 DEF Inv, PageShown, Paged!PageShown, PagedProofs!PageShown, Paged!Loads,
       PagedProofs!Loads, Paged!NoQuery, PagedProofs!NoQuery
<1>2. Spec => []Inv
  BY Invariance
<1>3. QED
  BY <1>1, <1>2, PTL

\* What a bulk delete takes off a list is deleted on the server.
THEOREM RemovedIsDeletedCorrect == Spec => RemovedIsDeleted
<1>1. [Next]_vars => [(view \in Paged!View) => (Paged!RemovedIsDeleted)]_vars
  <2> SUFFICES ASSUME [Next]_vars, view \in Paged!View PROVE Paged!RemovedIsDeleted
    OBVIOUS
  <2>1. PagedProofs!RemovedIsDeleted \/ UNCHANGED (PagedProofs!vars)
    BY StepOfPage, PagedProofs!RemovedIsDeletedStep
  <2>2. QED
    BY <2>1 DEF PagedProofs!vars, PagedProofs!store, PagedProofs!RemovedIsDeleted,
       Paged!RemovedIsDeleted
<1>2. QED
  BY <1>1, PTL DEF Spec, RemovedIsDeleted

\* No key typed for one AI vendor becomes another's, but for the cases excused:
\* a new preset for a row with a key, a list that was emptied, and a provider
\* without a key at a place where the process remembers one.
THEOREM KeysGoHomeCorrect == Spec => []KeysGoHome
<1>1. Inv => KeysGoHome
  <2>1. FormProofs!Inv => FormProofs!KeysGoHome
    BY FormProofs!InvHolds
  <2>2. QED
    BY <2>1 DEF Inv, KeysGoHome, Forms!KeysGoHome, FormProofs!KeysGoHome,
       Forms!ToSet, FormProofs!ToSet, Forms!Effective, FormProofs!Effective, Forms!Known,
       FormProofs!Known, Forms!Current, FormProofs!Current, Forms!Loaded, FormProofs!Loaded,
       Forms!Decoded, FormProofs!Decoded, Forms!Remembered, FormProofs!Remembered
<1>2. Spec => []Inv
  BY Invariance
<1>3. QED
  BY <1>1, <1>2, PTL

\* Once all answers are in, the API key on screen is the valid one.
THEOREM KeyShownCorrect == Spec => []KeyShownIsLive
<1>1. Inv => KeyShownIsLive
  <2>1. FormProofs!Inv => FormProofs!KeyShownIsLive
    BY FormProofs!InvHolds
  <2>2. QED
    BY <2>1 DEF Inv, KeyShownIsLive, Forms!KeyShownIsLive, FormProofs!KeyShownIsLive
<1>2. Spec => []Inv
  BY Invariance
<1>3. QED
  BY <1>1, <1>2, PTL

\* What a step of the settings keeps, as WebPages states it.
LEMMA SavesStep ==
    ASSUME Inv, [Next]_vars, view \in Forms!View
    PROVE  (Forms!KeysKept /\ Forms!SizesRoundUp) \/ UNCHANGED vars
<1>1. FormProofs!Inv /\ [FormProofs!Next]_(FormProofs!vars)
  BY StepOfPage DEF Inv
<1>2. (FormProofs!KeysKept /\ FormProofs!SizesRoundUp) \/ UNCHANGED (FormProofs!vars)
  BY <1>1, ParametersHold, FormProofs!SavesStep
<1>3. ASSUME UNCHANGED (FormProofs!vars) PROVE UNCHANGED vars
  <2>1. UNCHANGED <<view, jobs, busy, faults, clicks, shown, rows, excused>>
        /\ UNCHANGED formState
    BY <1>3 DEF FormProofs!vars, FormProofs!form, formState
  <2>2. Next => UNCHANGED NotForms
    BY ViewsApart DEF Next
  <2>3. UNCHANGED NotForms \/ UNCHANGED vars
    BY <2>2
  <2>4. QED
    BY <2>1, <2>3 DEF NotForms, vars, common
<1>4. FormProofs!KeysKept => Forms!KeysKept
  BY DEF Forms!KeysKept, FormProofs!KeysKept, Forms!ToSet, FormProofs!ToSet, Forms!Effective,
     FormProofs!Effective, Forms!Known, FormProofs!Known, Forms!Current, FormProofs!Current,
     Forms!Loaded, FormProofs!Loaded, Forms!Decoded, FormProofs!Decoded, Forms!Remembered,
     FormProofs!Remembered
<1>5. FormProofs!SizesRoundUp => Forms!SizesRoundUp
  BY DEF FormProofs!SizesRoundUp, Forms!SizesRoundUp
<1>6. QED
  BY <1>2, <1>3, <1>4, <1>5

\* Neither a save nor a restart loses the key of a provider that stays.
THEOREM KeysKeptCorrect == Spec => KeysKept
<1>1. Inv /\ [Next]_vars => [(view \in Forms!View) => (Forms!KeysKept)]_vars
  BY SavesStep
<1>2. Spec => []Inv
  BY Invariance
<1>3. QED
  BY <1>1, <1>2, PTL DEF Spec, KeysKept

\* A save of limits nobody typed rounds them up to a unit, never down.
THEOREM SizesRoundUpCorrect == Spec => SizesRoundUp
<1>1. Inv /\ [Next]_vars => [(view \in Forms!View) => (Forms!SizesRoundUp)]_vars
  BY SavesStep
<1>2. Spec => []Inv
  BY Invariance
<1>3. QED
  BY <1>1, <1>2, PTL DEF Spec, SizesRoundUp
=============================================================================
