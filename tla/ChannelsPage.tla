---------------------------- MODULE ChannelsPage ----------------------------
(***************************************************************************)
(* ChannelsView and the channels store: the buttons of the rows, the dialog *)
(* for a history sync, and the dialog for the listen rules, global or of    *)
(* one channel.                                                            *)
(*                                                                         *)
(* A dialog may be hidden (mask, Escape) and another one opened while the   *)
(* handlers of the first are still waiting; what they do when they go on    *)
(* they do to the dialog that is open by then.                              *)
(*                                                                         *)
(* Abstracted: a rule is known by whose it is: a channel's own text, the    *)
(* global one, or the defaults of applyRuleToForm; what the user types in   *)
(* the dialog of x is x's text.  Web access and sync state are not kept;    *)
(* the filters, the sort order and the number of rows drawn only choose     *)
(* what is displayed.  The server acts when it answers.                     *)
(***************************************************************************)
EXTENDS Naturals, Sequences, SequencesExt

CONSTANTS
    Channel,    \* the channels in the list
    RuleId,     \* the ids the server can give to watch rules (bound)
    MaxJobs,    \* bound: handlers in flight when the user begins another
    MaxFaults,  \* bound: failed requests
    MaxPresses, \* bound: of them, buttons of the rows and of the toolbar
    MaxClicks   \* bound: dialogs opened, rules saved and buttons pressed

VARIABLES
    view,        \* "channels"
    watchRules,  \* server: telegram_watch_rules, by id
    globalRule,  \* server: the global listen rules
    listens,     \* server: listen_enabled
    items,       \* channels.items: the channels shown as listening
    busy,        \* channels.loading
    jobs,        \* the handlers in flight
    spins,       \* syncingChannelIds, checkingWebAccessChannelIds, listeningChannelIds,
                 \* clearingChannelIds and batchCheckingWebAccess
    ruleLoading, ruleSaving,
    open,        \* the dialog on screen; a channel is the question whether to clear it
    syncTarget,
    ruleScope, ruleTarget, channelRuleId, ruleForm,
    excused,     \* history: a form was filled late, for another dialog, or not at all
    failed,      \* a request failed, and no list arrived since
    faults, presses, clicks

server == <<watchRules, globalRule, listens>>
ruleDialog == <<ruleScope, ruleTarget, channelRuleId, ruleForm>>
ruleWaits == <<ruleLoading, ruleSaving>>
vars == <<view, server, items, busy, jobs, spins, ruleWaits, open, syncTarget, ruleDialog,
          excused, failed, faults, presses, clicks>>

View == {"channels"}
Text == Channel \cup {"global", "default"}
UnusedId == [channel |-> "none", text |-> "unused"]
Deleted == [channel |-> "none", text |-> "deleted"]
NoRule == {UnusedId, Deleted}
Pressed == {"load", "sync", "check", "batch", "listen", "unlisten", "clear"}
Kind == Pressed \cup {"analyze", "global_rules", "save", "use_global"}
Job == [kind : Kind, at : {"ask", "load"}, channel : Channel \cup {"none"},
        rule : RuleId \cup {"none"}, text : Text, asks : BOOLEAN]

Live(id) == watchRules[id] \notin NoRule
RulesOf(c) == {id \in RuleId : Live(id) /\ watchRules[id].channel = c}
UnusedIds == {id \in RuleId : watchRules[id] = UnusedId}

\* The spinner a handler puts up, if any.
SpinOf(job) == <<IF job.kind \in {"listen", "unlisten"} THEN "toggle" ELSE job.kind, job.channel>>
Spin == ({"sync", "check", "toggle", "clear"} \X Channel) \cup {<<"batch", "none">>}

TypeOK ==
    /\ view \in View
    /\ watchRules \in [RuleId -> [channel : Channel, text : Text] \cup NoRule]
    /\ globalRule \in Text /\ ruleForm \in Text
    /\ listens \subseteq Channel /\ items \subseteq Channel
    /\ \A k \in DOMAIN jobs : jobs[k] \in Job
    /\ spins \subseteq Spin
    /\ open \in {"none", "sync", "rule"} \cup Channel
    /\ {syncTarget, ruleTarget} \subseteq Channel \cup {"none"}
    /\ ruleScope \in {"global", "channel"}
    /\ channelRuleId \in RuleId \cup {"none"}
    /\ {busy, ruleLoading, ruleSaving, excused, failed} \subseteq BOOLEAN
    /\ faults \in 0..MaxFaults /\ presses \in 0..MaxPresses /\ clicks \in 0..MaxClicks

NewJob(kind, c) ==
    [kind |-> kind, at |-> IF kind = "load" THEN "load" ELSE "ask", channel |-> c,
     rule |-> "none", text |-> "default", asks |-> kind = "clear"]

\* onMounted; the store still holds the channels of an earlier visit.  Some
\* channels have a rule of their own, whichever ids they have.
Init ==
    /\ view \in View
    /\ \E ruled \in SUBSET Channel :
          LET id == CHOOSE f \in [Channel -> RuleId] : IsInjective(f)
          IN  watchRules = [n \in RuleId |->
                               IF \E c \in ruled : id[c] = n
                               THEN LET c == CHOOSE c \in ruled : id[c] = n
                                    IN  [channel |-> c, text |-> c]
                               ELSE UnusedId]
    /\ globalRule = "global"
    /\ listens = {} /\ items = {}
    /\ busy = TRUE /\ jobs = <<NewJob("load", "none")>>
    /\ spins = {} /\ ruleLoading = FALSE /\ ruleSaving = FALSE
    /\ open = "none" /\ syncTarget = "none"
    /\ ruleScope = "global" /\ ruleTarget = "none" /\ channelRuleId = "none"
    /\ ruleForm = "default"
    /\ excused = FALSE /\ failed = FALSE /\ faults = 0 /\ presses = 0 /\ clicks = 0

-----------------------------------------------------------------------------
(* The user.  A dialog covers the rows.                                     *)

Click == clicks < MaxClicks /\ clicks' = clicks + 1 /\ UNCHANGED presses

Press ==
    /\ clicks < MaxClicks /\ clicks' = clicks + 1
    /\ presses < MaxPresses /\ presses' = presses + 1

Begin(job) ==
    /\ Len(jobs) < MaxJobs
    /\ jobs' = Append(jobs, job) /\ busy' = TRUE
    /\ UNCHANGED <<view, server, items, failed, faults>>

Refresh ==
    /\ open = "none" /\ ~busy
    /\ Press /\ Begin(NewJob("load", "none"))
    /\ UNCHANGED <<spins, ruleWaits, open, syncTarget, ruleDialog, excused>>

\* setLoadingChannel before a request of a row or of the toolbar.
RowButton(job) ==
    /\ open = "none" /\ SpinOf(job) \notin spins
    /\ spins' = spins \cup {SpinOf(job)}
    /\ Press /\ Begin(job)
    /\ UNCHANGED <<ruleWaits, open, syncTarget, ruleDialog, excused>>

CheckWebAccess(c) == RowButton(NewJob("check", c))

\* The channels that pass the filters, also those not drawn yet.
BatchCheckWebAccess == RowButton(NewJob("batch", "none"))

\* What is asked for is the opposite of what the row shows.
ToggleListening(c) == RowButton(NewJob(IF c \in items THEN "unlisten" ELSE "listen", c))

OpenFor(question) ==
    /\ open = "none" /\ open' = question
    /\ Press
    /\ UNCHANGED <<view, server, items, busy, jobs, spins, ruleWaits, ruleDialog, excused, failed,
                   faults>>

SyncHistory(c) ==
    /\ <<"sync", c>> \notin spins
    /\ OpenFor("sync") /\ syncTarget' = c

ConfirmClearChannel(c) ==
    /\ <<"clear", c>> \notin spins
    /\ OpenFor(c) /\ UNCHANGED syncTarget

Confirmed(job) ==
    /\ Begin(job) /\ spins' = spins \cup {SpinOf(job)}
    /\ UNCHANGED <<ruleWaits, open, syncTarget, ruleDialog, excused, presses, clicks>>

ConfirmSyncHistory ==
    /\ open = "sync" /\ <<"sync", syncTarget>> \notin spins
    /\ Confirmed(NewJob("sync", syncTarget))

\* The question stays on screen until the server answered, and may be
\* confirmed twice.
ClearChannel == open \in Channel /\ Confirmed(NewJob("clear", open))

\* The question is no longer on screen.
Unasked(js) == [j \in DOMAIN js |-> [js[j] EXCEPT !.asks = FALSE]]

\* The mask or the Escape key hides a dialog and keeps what it was about.
Hide ==
    /\ open # "none" /\ open' = "none"
    /\ jobs' = IF open \in Channel THEN Unasked(jobs) ELSE jobs
    /\ UNCHANGED <<view, server, items, busy, spins, ruleWaits, syncTarget, ruleDialog, excused,
                   failed, faults, presses, clicks>>

CloseSyncModal ==
    /\ open = "sync" /\ open' = "none" /\ syncTarget' = "none"
    /\ UNCHANGED <<view, server, items, busy, jobs, spins, ruleWaits, ruleDialog, excused, failed,
                   faults, presses, clicks>>

CloseRuleModal ==
    /\ open = "rule" /\ open' = "none" /\ ruleTarget' = "none" /\ channelRuleId' = "none"
    /\ UNCHANGED <<view, server, items, busy, jobs, spins, ruleWaits, syncTarget, ruleScope,
                   ruleForm, excused, failed, faults, presses, clicks>>

\* The form is emptied and the rules of the dialog are asked for.
OpenRuleModal(job) ==
    /\ open = "none" /\ open' = "rule"
    /\ ruleTarget' = job.channel /\ ruleForm' = "default" /\ ruleLoading' = TRUE
    /\ Click /\ Begin(job)
    /\ UNCHANGED <<spins, ruleSaving, syncTarget, excused>>

OpenGlobalRules ==
    /\ ~(ruleLoading /\ ruleScope = "global")
    /\ ruleScope' = "global" /\ channelRuleId' = "none"
    /\ OpenRuleModal(NewJob("global_rules", "none"))

\* (mutant) The rule of the channel shown before is not forgotten.
OpenChannelRulesKept(c) ==
    /\ ~(ruleLoading /\ ruleTarget = c)
    /\ ruleScope' = "channel" /\ channelRuleId' = channelRuleId
    /\ OpenRuleModal(NewJob("analyze", c))

OpenChannelRules(c) ==
    /\ ~(ruleLoading /\ ruleTarget = c)
    /\ ruleScope' = "channel" /\ channelRuleId' = "none"
    /\ OpenRuleModal(NewJob("analyze", c))

TypeRule ==
    /\ open = "rule"
    /\ ruleForm' = IF ruleScope = "global" THEN "global" ELSE ruleTarget
    /\ UNCHANGED <<view, server, items, busy, jobs, spins, ruleWaits, open, syncTarget,
                   ruleScope, ruleTarget, channelRuleId, excused, failed, faults, presses, clicks>>

\* saveRule up to its first await, with what the dialog holds at the click.
SaveRule ==
    /\ open = "rule" /\ ~ruleSaving /\ ~ruleLoading
    /\ ruleSaving' = TRUE
    /\ Click /\ Begin([NewJob("save", ruleTarget) EXCEPT !.rule = channelRuleId, !.text = ruleForm])
    /\ UNCHANGED <<spins, ruleLoading, open, syncTarget, ruleDialog, excused>>

UseGlobalRule ==
    /\ open = "rule" /\ ruleScope = "channel" /\ channelRuleId # "none" /\ ~ruleSaving
    /\ ruleSaving' = TRUE
    /\ Click /\ Begin([NewJob("use_global", ruleTarget) EXCEPT !.rule = channelRuleId])
    /\ UNCHANGED <<spins, ruleLoading, open, syncTarget, ruleDialog, excused>>

-----------------------------------------------------------------------------
(* The server.                                                              *)

\* createWatchRule, updateWatchRule, deleteWatchRule: a channel has at most one
\* rule, and an id is never given twice.
Accepts(job) ==
    CASE job.kind = "save" /\ job.channel # "none" /\ job.at = "ask" ->
            IF job.rule = "none" THEN RulesOf(job.channel) = {} /\ UnusedIds # {}
            ELSE Live(job.rule) /\ RulesOf(job.channel) \subseteq {job.rule}
      [] job.kind = "use_global" /\ job.at = "ask" -> Live(job.rule)
      [] OTHER -> TRUE

\* An update writes the channel of the request, too, into the rule it names.
ServerDoes(job) ==
    /\ watchRules' =
          CASE job.kind = "save" /\ job.channel # "none" ->
                  LET id == IF job.rule = "none" THEN CHOOSE n \in UnusedIds : TRUE ELSE job.rule
                  IN  [watchRules EXCEPT ![id] = [channel |-> job.channel, text |-> job.text]]
            [] job.kind = "use_global" -> [watchRules EXCEPT ![job.rule] = Deleted]
            [] OTHER -> watchRules
    /\ globalRule' = IF job.kind = "save" /\ job.channel = "none" THEN job.text ELSE globalRule
    /\ listens' = CASE job.kind = "listen" -> listens \cup {job.channel}
                    [] job.kind \in {"unlisten", "clear"} -> listens \ {job.channel}
                    [] OTHER -> listens

-----------------------------------------------------------------------------
(* The answers.                                                             *)

\* (mutant) The spinner of a row is taken down only by success.
EndsOnly(k, ok) ==
    /\ jobs' = IF ok /\ jobs[k].asks THEN Unasked(RemoveAt(jobs, k)) ELSE RemoveAt(jobs, k)
    /\ spins' = IF ok THEN spins \ {SpinOf(jobs[k])} ELSE spins
    /\ ruleLoading' = (ruleLoading /\ jobs[k].kind \notin {"analyze", "global_rules"})
    /\ ruleSaving' = (ruleSaving /\ jobs[k].kind \notin {"save", "use_global"})

\* The end of a handler: each takes down what it put up, in a finally.
Ends(k, ok) ==
    /\ jobs' = IF ok /\ jobs[k].asks THEN Unasked(RemoveAt(jobs, k)) ELSE RemoveAt(jobs, k)
    /\ spins' = spins \ {SpinOf(jobs[k])}
    /\ ruleLoading' = (ruleLoading /\ jobs[k].kind \notin {"analyze", "global_rules"})
    /\ ruleSaving' = (ruleSaving /\ jobs[k].kind \notin {"save", "use_global"})

\* closeRuleModal and closeSyncModal at the end of a handler, whatever its
\* dialog shows by then; a question to clear closes only itself.
Closes(job) ==
    /\ open' = IF \/ job.kind = "sync" /\ open = "sync"
                  \/ job.kind = "clear" /\ job.asks /\ open \in Channel
                  \/ job.kind \in {"save", "use_global"} /\ open = "rule"
               THEN "none" ELSE open
    /\ syncTarget' = IF job.kind = "sync" THEN "none" ELSE syncTarget
    /\ IF job.kind \in {"save", "use_global"}
       THEN ruleTarget' = "none" /\ channelRuleId' = "none" /\ UNCHANGED <<ruleScope, ruleForm>>
       ELSE UNCHANGED ruleDialog

\* The first answer of a handler that loads the channels next.
GoesOn(k) ==
    LET job == jobs[k] IN
    /\ job.at = "ask" /\ Accepts(job)
    /\ <<job.kind, job.channel # "none">> \in
          {<<"check", TRUE>>, <<"batch", FALSE>>, <<"use_global", TRUE>>, <<"save", TRUE>>}
    /\ ServerDoes(job)
    /\ jobs' = [jobs EXCEPT ![k].at = "load"] /\ busy' = TRUE
    /\ UNCHANGED <<view, items, spins, ruleWaits, open, syncTarget, ruleDialog, excused, failed,
                   faults, presses, clicks>>

\* syncChannels, updateControl, clearChannel, updateGlobalListenRules; the
\* answer replaces one row of the list.
Answered(k) ==
    LET job == jobs[k] IN
    /\ job.at = "ask"
    /\ <<job.kind, job.channel # "none">> \in
          {<<"sync", TRUE>>, <<"listen", TRUE>>, <<"unlisten", TRUE>>, <<"clear", TRUE>>,
           <<"save", FALSE>>}
    /\ ServerDoes(job)
    /\ items' = IF job.kind \in {"sync", "save"} THEN items
                ELSE (items \ {job.channel}) \cup (listens' \cap {job.channel})
    /\ busy' = FALSE
    /\ Ends(k, TRUE) /\ Closes(job)
    /\ UNCHANGED <<view, excused, failed, faults, presses, clicks>>

\* loadChannels, alone or at the end of a handler.
Listed(k) ==
    /\ jobs[k].at = "load"
    /\ items' = listens /\ busy' = FALSE /\ failed' = FALSE
    /\ Ends(k, TRUE) /\ Closes(jobs[k])
    /\ UNCHANGED <<view, server, excused, faults, presses, clicks>>

\* The rules of a dialog arrive; they fill the form of the dialog that is open
\* by now, also over what was typed, and name its rule.
RulesArrive(k) ==
    LET job == jobs[k] IN
    /\ job.kind \in {"analyze", "global_rules"}
    /\ IF job.kind = "global_rules" THEN ruleForm' = globalRule /\ UNCHANGED channelRuleId
       ELSE IF RulesOf(job.channel) = {} THEN UNCHANGED <<ruleForm, channelRuleId>>
       ELSE \E id \in RulesOf(job.channel) :
               ruleForm' = watchRules[id].text /\ channelRuleId' = id
    /\ excused' = \/ excused
                  \/ job.channel # ruleTarget
                  \/ job.kind = "global_rules" /\ ruleScope = "channel"
                  \/ \E j \in DOMAIN jobs \ {k} : jobs[j].kind \in {"analyze", "global_rules"}
    /\ busy' = FALSE
    /\ Ends(k, TRUE)
    /\ UNCHANGED <<view, server, items, open, syncTarget, ruleScope, ruleTarget, failed, faults,
                   presses, clicks>>

\* A request that is refused or lost, or (done) whose answer is lost.
Fails(k, done) ==
    LET job == jobs[k] IN
    /\ faults' = IF Accepts(job) THEN faults + 1 ELSE faults
    /\ faults' <= MaxFaults
    /\ IF done THEN job.at = "ask" /\ Accepts(job) /\ ServerDoes(job) ELSE UNCHANGED server
    /\ busy' = FALSE /\ failed' = TRUE
    /\ excused' = (excused \/ job.kind \in {"analyze", "global_rules"})
    /\ Ends(k, FALSE)
    /\ UNCHANGED <<view, items, open, syncTarget, ruleDialog, presses, clicks>>

Next ==
    \/ Refresh \/ TypeRule \/ SaveRule \/ UseGlobalRule
    \/ BatchCheckWebAccess \/ ConfirmSyncHistory \/ ClearChannel
    \/ Hide \/ CloseSyncModal \/ CloseRuleModal \/ OpenGlobalRules
    \/ \E c \in Channel :
          \/ CheckWebAccess(c) \/ ToggleListening(c)
          \/ SyncHistory(c) \/ ConfirmClearChannel(c) \/ OpenChannelRules(c)
    \/ \E k \in DOMAIN jobs :
          \/ GoesOn(k) \/ Answered(k) \/ Listed(k) \/ RulesArrive(k)
          \/ \E done \in BOOLEAN : Fails(k, done)

Spec == Init /\ [][Next]_vars

-----------------------------------------------------------------------------
(* Properties.                                                              *)

\* A dialog never writes its rule over another's: a rule keeps its channel and
\* holds that channel's text or the defaults, the global rules keep theirs,
\* although one form, one rule id and one target serve all dialogs.  Excused
\* are the cases in which the code does mix them up: the rules of one dialog
\* arrived in another, or did not arrive and the defaults could be saved.
RulesStayHome ==
    ~excused =>
        /\ globalRule' = "global"
        /\ \A id \in RuleId : Live(id)' =>
              /\ watchRules'[id].text \in {watchRules'[id].channel, "default"}
              /\ Live(id) => watchRules'[id].channel = watchRules[id].channel

\* Whatever failed and in whatever order the answers came, in the end no button
\* spins, and no row shows a listening state that the server does not have
\* unless a failed request is still to be made good by a refresh.
QuietPageIsTrue ==
    jobs = <<>> =>
        /\ spins = {} /\ ~busy /\ ~ruleLoading /\ ~ruleSaving
        /\ failed \/ items = listens
=============================================================================
