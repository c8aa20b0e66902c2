--------------------------- MODULE SettingsLists ---------------------------
(***************************************************************************)
(* The two editable lists of SettingsView, the saved searches and the       *)
(* webhooks: one form that creates a row or edits the one whose id it       *)
(* keeps, and row buttons that send the row as it was shown.                *)
(*                                                                         *)
(* The form stays usable while its own save, a delete or a toggle waits for *)
(* an answer, and a handler that goes on resets whatever the form shows.    *)
(*                                                                         *)
(* Abstracted: the fields of a row are one text, known by the row it was    *)
(* typed for.  The server acts when it answers.                            *)
(***************************************************************************)
EXTENDS Naturals, Sequences, SequencesExt

CONSTANTS
    Item,       \* the ids the server can give to rows (bound)
    MaxJobs,    \* bound: handlers in flight when the user begins another
    MaxFaults,  \* bound: failed requests
    MaxClicks   \* bound: requests the user begins

VARIABLES
    view,    \* "saved-searches" or "webhooks"
    saved,   \* server: the rows
    items,   \* savedSearches, webhooks: the rows on screen
    form,    \* editingSavedSearchID and savedSearchForm, or those of the webhooks
    jobs,    \* the handlers in flight
    saving,  \* savedSearchSaving, webhookSaving
    faults, clicks

vars == <<view, saved, items, form, jobs, saving, faults, clicks>>

View == {"saved-searches", "webhooks"}
Text == Item \cup {"new", "blank"}
Unused == [text |-> "unused", secret |-> "blank"]   \* an id that was never given
Deleted == [text |-> "deleted", secret |-> "blank"]
Missing == {Unused, Deleted}
Fields == [text : Text, secret : Text]
Blank == [editing |-> "none", text |-> "blank", secret |-> "blank"]
Job == [kind : {"load", "save", "toggle", "delete"}, at : {"ask", "list"},
        item : Item \cup {"none"}, text : Text, secret : Text]

\* A row of the table, with its buttons.
Shown(i) == items[i] \notin Missing

TypeOK ==
    /\ view \in View
    /\ saved \in [Item -> Fields \cup Missing] /\ items \in [Item -> Fields \cup Missing]
    /\ form \in [editing : Item \cup {"none"}, text : Text, secret : Text]
    /\ \A k \in DOMAIN jobs : jobs[k] \in Job
    /\ saving \in BOOLEAN
    /\ faults \in 0..MaxFaults /\ clicks \in 0..MaxClicks

NewJob(kind, at, i) ==
    [kind |-> kind, at |-> at, item |-> i, text |-> "blank", secret |-> "blank"]

\* onMounted; a webhook may have a secret, a saved search has none.
Init ==
    /\ view \in View
    /\ \E fresh \in SUBSET Item, secrets \in SUBSET Item :
          /\ (CHOOSE i \in Item : TRUE) \in fresh
          /\ secrets \subseteq Item \ fresh /\ (view = "saved-searches" => secrets = {})
          /\ saved = [i \in Item |->
                         CASE i \in fresh -> Unused
                           [] i \in secrets -> [text |-> i, secret |-> i]
                           [] OTHER -> [text |-> i, secret |-> "blank"]]
    /\ items = [i \in Item |-> Unused]
    /\ form = Blank
    /\ jobs = <<NewJob("load", "list", "none")>>
    /\ saving = FALSE /\ faults = 0 /\ clicks = 0

-----------------------------------------------------------------------------
(* The form.                                                                *)

Typed(newForm) ==
    /\ form' = newForm
    /\ UNCHANGED <<view, saved, items, jobs, saving, faults, clicks>>

For == IF form.editing = "none" THEN "new" ELSE form.editing

TypeText == Typed([form EXCEPT !.text = For])

TypeSecret == view = "webhooks" /\ Typed([form EXCEPT !.secret = For])

\* resetSavedSearchForm, resetWebhookForm
ClickNew == Typed(Blank)

\* (mutant) The secret typed before stays in the form.
EditKept(i) ==
    /\ Shown(i)
    /\ Typed([editing |-> i, text |-> items[i].text, secret |-> form.secret])

\* editSavedSearch, editWebhook: no row brings its secret along.
Edit(i) ==
    /\ Shown(i)
    /\ Typed([editing |-> i, text |-> items[i].text, secret |-> "blank"])

-----------------------------------------------------------------------------
(* The requests.                                                            *)

Begin(job) ==
    /\ clicks < MaxClicks /\ clicks' = clicks + 1 /\ Len(jobs) < MaxJobs
    /\ jobs' = Append(jobs, job)
    /\ UNCHANGED <<view, saved, items, form, faults>>

\* saveSavedSearch, saveWebhook: the payload is built at the click.
Save ==
    /\ ~saving /\ form.text # "blank"
    /\ saving' = TRUE
    /\ Begin([kind |-> "save", at |-> "ask", item |-> form.editing,
              text |-> form.text, secret |-> form.secret])

\* toggleSavedSearch, toggleWebhook send the fields of the row shown, without
\* a secret.
Toggle(i) ==
    /\ Shown(i)
    /\ Begin([NewJob("toggle", "ask", i) EXCEPT !.text = items[i].text])
    /\ UNCHANGED saving

\* deleteSavedSearch, deleteWebhook.  No button of a row is ever disabled.
Delete(i) ==
    /\ Shown(i)
    /\ Begin(NewJob("delete", "ask", i))
    /\ UNCHANGED saving

\* An id that is gone is refused; a new row needs an id.
Accepts(job) ==
    CASE job.at = "list" -> TRUE
      [] job.at = "ask" /\ job.item = "none" -> \E i \in Item : saved[i] = Unused
      [] OTHER -> saved[job.item] \notin Missing

\* (mutant) A secret that was not typed is stored as an empty one.
StoreBlank(job) ==
    LET new == CHOOSE i \in Item : saved[i] = Unused
        owner(t) == IF t = "new" THEN new ELSE t
    IN
    saved' = IF job.item = "none"
             THEN [saved EXCEPT ![new] = [text |-> owner(job.text), secret |-> owner(job.secret)]]
             ELSE [saved EXCEPT ![job.item] = [text |-> job.text, secret |-> job.secret]]

\* createWebhook and updateWebhook with readWebhookRequest, and those of the
\* saved searches: a request without a secret keeps the one of the row.  The
\* text typed for a new row is the text of the row it becomes.
Store(job) ==
    LET new == CHOOSE i \in Item : saved[i] = Unused
        owner(t) == IF t = "new" THEN new ELSE t
    IN
    saved' = IF job.item = "none"
             THEN [saved EXCEPT ![new] = [text |-> owner(job.text), secret |-> owner(job.secret)]]
             ELSE [saved EXCEPT ![job.item] =
                      [text |-> job.text,
                       secret |-> IF job.secret = "blank" THEN @.secret ELSE job.secret]]

ServerDoes(job) ==
    IF job.kind = "delete" THEN saved' = [saved EXCEPT ![job.item] = Deleted] ELSE Store(job)

\* What is left of the form when a save or a delete was answered: a save
\* empties it whatever it shows by now.
FormAfter(job) ==
    IF job.kind = "save" \/ (job.kind = "delete" /\ form.editing = job.item) THEN Blank ELSE form

Answered(k) ==
    LET job == jobs[k] IN
    /\ job.at = "ask" /\ Accepts(job)
    /\ ServerDoes(job)
    /\ form' = FormAfter(job)
    /\ jobs' = [jobs EXCEPT ![k].at = "list"]
    /\ UNCHANGED <<view, items, saving, faults, clicks>>

\* loadSavedSearches, loadWebhooks: on mount and at the end of every handler.
Listed(k) ==
    /\ jobs[k].at = "list"
    /\ items' = saved
    /\ jobs' = RemoveAt(jobs, k)
    /\ saving' = (saving /\ jobs[k].kind # "save")
    /\ UNCHANGED <<view, saved, form, faults, clicks>>

\* A request that is refused or lost, or (done) whose answer is lost; the form
\* and the list stay as they are.
Fails(k, done) ==
    LET job == jobs[k] IN
    /\ faults' = IF Accepts(job) THEN faults + 1 ELSE faults
    /\ faults' <= MaxFaults
    /\ IF done THEN job.at = "ask" /\ Accepts(job) /\ ServerDoes(job) ELSE UNCHANGED saved
    /\ jobs' = RemoveAt(jobs, k)
    /\ saving' = (saving /\ job.kind # "save")
    /\ UNCHANGED <<view, items, form, clicks>>

Next ==
    \/ TypeText \/ TypeSecret \/ ClickNew \/ Save
    \/ \E i \in Item : Edit(i) \/ Toggle(i) \/ Delete(i)
    \/ \E k \in DOMAIN jobs :
          \/ Answered(k) \/ Listed(k)
          \/ \E done \in BOOLEAN : Fails(k, done)

Spec == Init /\ [][Next]_vars

-----------------------------------------------------------------------------
(* Properties.                                                              *)

\* What is stored in a row was typed for that row, text and secret, although
\* one form serves all rows, and is filled, emptied and given another id while
\* what it sent is still on its way.
OwnText ==
    \A i \in Item : saved[i] \notin Missing
                       => saved[i].text = i /\ saved[i].secret \in {i, "blank"}

\* Nothing but a delete takes the secret of a webhook away: a toggle and an
\* edit, which do not know it, keep it.
SecretKept ==
    \A i \in Item : saved[i].secret # "blank" /\ saved'[i] # Deleted
                       => saved'[i].secret # "blank"
=============================================================================
