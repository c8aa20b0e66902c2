------------------------------ MODULE WebPages ------------------------------
(***************************************************************************)
(* The pages of the web front end behind the log-in.  One is on screen at a *)
(* time; each has its own store and state, and all share the way a handler  *)
(* awaits an answer (jobs), a loading flag (busy) and what is on screen.    *)
(*                                                                         *)
(* A behaviour is one page, from its mount on: the pages do not write each  *)
(* other's state, and what a page does to itself when it is left and opened *)
(* again is in its own module (Leave, Remount).                            *)
(***************************************************************************)
EXTENDS Naturals, FiniteSets

CONSTANTS
    Login, Account, Slot,                            \* TelegramLogin
    Row, Size,                                       \* ListPage
    Channel, RuleId, MaxPresses,                     \* ChannelsPage
    Item,                                            \* SettingsLists
    Vendor, Keyless, RowId, Mega, Giga, MinLimit, Limits, MaxRows, MaxKey, MaxEdits,
                                                     \* SettingsForms
    MaxJobs, MaxFaults, MaxClicks                    \* all of them

ASSUME SlotAssumption == Slot \subseteq Nat \ {0} /\ \A s \in Slot : 1..s \subseteq Slot
ASSUME SizeAssumption ==
    /\ Size \subseteq Nat \ {0} /\ \E n \in Size : \A m \in Size : n <= m
    /\ Row \subseteq Nat /\ IsFiniteSet(Row)
ASSUME ChannelAssumption == {"none", "sync", "rule"} \cap Channel = {}
ASSUME ItemAssumption == "none" \notin Item /\ Item # {}
ASSUME UnitAssumption ==
    /\ {Mega, Giga, MinLimit} \subseteq Nat \ {0} /\ Giga % Mega = 0 /\ MinLimit % Mega = 0
    /\ Limits # {} /\ \A bytes \in Limits : bytes \in Nat /\ bytes >= MinLimit
ASSUME VendorAssumption ==
    /\ Keyless \subseteq Vendor /\ "blank" \notin Vendor /\ \E v, w \in Vendor : v # w
    /\ RowId # {} /\ Vendor \cap RowId = {}
ASSUME BoundAssumption ==
    {MaxJobs, MaxFaults, MaxPresses, MaxClicks, MaxEdits} \subseteq Nat /\ MaxKey \in Nat \ {0}

VARIABLES
    view, jobs, busy, items, shown, open, rows, excused, failed, faults, clicks,
    logins, accounts, password, mode, timer, sent, left,
    feed, total, filter, offset, size, ticked, dialog,
    watchRules, globalRule, listens, spins, ruleLoading, ruleSaving, syncTarget, ruleScope,
    ruleTarget, channelRuleId, ruleForm, presses,
    saved, form, saving,
    stored, config, apiKey, vendor, limit, filled, typed, edits

common == <<view, jobs, busy, faults, clicks>>
loginState == <<logins, accounts, password, mode, timer, sent, left>>
listState == <<feed, total, filter, offset, size, ticked, dialog>>
channelState == <<watchRules, globalRule, listens, spins, ruleLoading, ruleSaving, syncTarget,
                  ruleScope, ruleTarget, channelRuleId, ruleForm, presses>>
editState == <<saved, form, saving>>
formState == <<stored, config, apiKey, vendor, limit, filled, typed, edits>>
vars == <<common, items, shown, open, rows, excused, failed, loginState, listState, channelState,
          editState, formState>>

LoginPage == INSTANCE TelegramLogin
Paged == INSTANCE ListPage
Channels == INSTANCE ChannelsPage WITH MaxClicks <- MaxClicks + 1
Lists == INSTANCE SettingsLists
Forms == INSTANCE SettingsForms

\* The state of the pages that are not on screen.
NoLoginState ==
    /\ logins = "none" /\ accounts = "none" /\ password = "none" /\ mode = "none"
    /\ timer = "none" /\ sent = "none" /\ left = "none"
NoListState ==
    /\ feed = "none" /\ total = "none" /\ filter = "none" /\ offset = "none"
    /\ size = "none" /\ ticked = "none" /\ dialog = "none"
NoChannelState ==
    /\ watchRules = "none" /\ globalRule = "none" /\ listens = "none" /\ spins = "none"
    /\ ruleLoading = "none" /\ ruleSaving = "none" /\ syncTarget = "none"
    /\ ruleScope = "none" /\ ruleTarget = "none" /\ channelRuleId = "none"
    /\ ruleForm = "none" /\ presses = "none"
NoEditState ==
    /\ saved = "none" /\ form = "none" /\ saving = "none"
NoFormState ==
    /\ stored = "none" /\ config = "none" /\ apiKey = "none" /\ vendor = "none"
    /\ limit = "none" /\ filled = "none" /\ typed = "none" /\ edits = "none"

\* What a page does not have.
NotLogin == <<rows, excused, listState, channelState, editState, formState>>
NotPaged == <<open, loginState, channelState, editState, formState>>
NotChannels == <<shown, rows, loginState, listState, editState, formState>>
NotLists ==
    <<busy, shown, open, rows, excused, failed, loginState, listState, channelState, formState>>
NotForms == <<items, open, failed, loginState, listState, channelState, editState>>

Init ==
    \/ /\ LoginPage!Init
       /\ rows = "none" /\ excused = "none"
       /\ NoListState /\ NoChannelState /\ NoEditState /\ NoFormState
    \/ /\ Paged!Init
       /\ open = "none"
       /\ NoLoginState /\ NoChannelState /\ NoEditState /\ NoFormState
    \/ /\ Channels!Init
       /\ shown = "none" /\ rows = "none"
       /\ NoLoginState /\ NoListState /\ NoEditState /\ NoFormState
    \/ /\ Lists!Init
       /\ busy = "none" /\ shown = "none" /\ open = "none" /\ rows = "none"
       /\ excused = "none" /\ failed = "none"
       /\ NoLoginState /\ NoListState /\ NoChannelState /\ NoFormState
    \/ /\ Forms!Init
       /\ items = "none" /\ open = "none" /\ failed = "none"
       /\ NoLoginState /\ NoListState /\ NoChannelState /\ NoEditState

\* The page on screen stays the one that was opened.
Next ==
    /\ UNCHANGED view
    /\ \/ view \in LoginPage!View /\ LoginPage!Next /\ UNCHANGED NotLogin
       \/ view \in Paged!View /\ Paged!Next /\ UNCHANGED NotPaged
       \/ view \in Channels!View /\ Channels!Next /\ UNCHANGED NotChannels
       \/ view \in Lists!View /\ Lists!Next /\ UNCHANGED NotLists
       \/ view \in Forms!View /\ Forms!Next /\ UNCHANGED NotForms

\* Only a log-in has something to wait for: its timer and its answers.
Fairness ==
    /\ WF_vars(view \in LoginPage!View /\ LoginPage!TimerFires /\ UNCHANGED NotLogin)
    /\ \A s \in Slot :
          WF_vars(view \in LoginPage!View /\ LoginPage!Proceeds(s) /\ UNCHANGED NotLogin)

Spec == Init /\ [][Next]_vars /\ Fairness

-----------------------------------------------------------------------------
(* The properties of the pages, each for its own page.                      *)

\* The variables of the page on screen have their types.
TypeOK ==
    /\ view \in LoginPage!View => LoginPage!TypeOK
    /\ view \in Paged!View => Paged!TypeOK
    /\ view \in Channels!View => Channels!TypeOK
    /\ view \in Lists!View => Lists!TypeOK
    /\ view \in Forms!View => Forms!TypeOK

\* AccountsView: a code on screen is polled, or the page says that it is not.
CodeIsPolled == view \in LoginPage!View => LoginPage!CodeIsPolled

\* AccountsView: a scanned code ends in an account or an error.
ScanEnds ==
    \A i \in Login :
        (view \in LoginPage!View /\ LoginPage!Scanned(i))
            ~> (view \in LoginPage!View => LoginPage!GoneOn(i))

\* The lists: the page number lies within the pages there are.
PageInRange == view \in Paged!View => Paged!PageInRange

\* The lists: with no request in flight, the rows are those of the page named.
PageShown == view \in Paged!View => Paged!PageShown

\* The lists: a row taken off the list was deleted on the server.
RemovedIsDeleted == [][(view \in Paged!View) => (Paged!RemovedIsDeleted)]_vars

\* ChannelsView: no dialog writes its rule over another's.
RulesStayHome == [][(view \in Channels!View) => (Channels!RulesStayHome)]_vars

\* ChannelsView: with nothing in flight nothing spins, and the rows are true.
QuietPageIsTrue == view \in Channels!View => Channels!QuietPageIsTrue

\* SettingsView: a row holds what was typed for it.
OwnText == view \in Lists!View => Lists!OwnText

\* SettingsView: only a delete takes the secret of a webhook away.
SecretKept == [][(view \in Lists!View) => (Lists!SecretKept)]_vars

\* SettingsView: the key typed for one AI vendor never becomes another's.
KeysGoHome == view \in Forms!View => Forms!KeysGoHome

\* SettingsView: saving never loses the key of a provider that stays.
KeysKept == [][(view \in Forms!View) => (Forms!KeysKept)]_vars

\* SettingsView: saving limits nobody typed rounds them up, never down.
SizesRoundUp == [][(view \in Forms!View) => (Forms!SizesRoundUp)]_vars

\* SettingsView: the API key on screen is the valid one.
KeyShownIsLive == view \in Forms!View => Forms!KeyShownIsLive
=============================================================================
