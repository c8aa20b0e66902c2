------------------------ MODULE SettingsListsProofs ------------------------
(***************************************************************************)
(* Proofs about SettingsLists for any set of rows and any number of         *)
(* requests in flight, failed and begun.                                   *)
(***************************************************************************)
EXTENDS SettingsLists, SequenceTheorems, TLAPS

\* What the module takes for granted of its constants: no id is the null of
\* editingSavedSearchID and editingWebhookID.
Parameters ==
    /\ "none" \notin Item /\ Item # {}
    /\ MaxFaults \in Nat /\ MaxClicks \in Nat /\ MaxJobs \in Nat

\* Whose text a form for row i holds.
Owner(i) == IF i = "none" THEN "new" ELSE i

\* What a handler in flight carries was typed for the row it names.
Honest(job) ==
    /\ job \in Job
    /\ job.kind = "save" => job.text = Owner(job.item) /\ job.secret \in {Owner(job.item), "blank"}
    /\ job.kind = "toggle" => job.item \in Item /\ job.text = job.item /\ job.secret = "blank"
    /\ job.kind = "delete" => job.item \in Item
    /\ job.kind = "load" => job.at = "list"

HonestJob == {job \in Job : Honest(job)}

\* A table whose rows hold their own text and secret, or nothing.
Table == {s \in [Item -> Fields \cup Missing] :
             \A i \in Item : s[i] \notin Missing => s[i].text = i /\ s[i].secret \in {i, "blank"}}

Form == {f \in [editing : Item \cup {"none"}, text : Text, secret : Text] :
            f.text \in {Owner(f.editing), "blank"} /\ f.secret \in {Owner(f.editing), "blank"}}

Inv ==
    /\ view \in View /\ saving \in BOOLEAN
    /\ saved \in Table /\ items \in Table
    /\ form \in Form
    /\ jobs \in Seq(HonestJob)
    /\ faults \in 0..MaxFaults /\ clicks \in 0..MaxClicks

LEMMA InvHolds == Inv => TypeOK /\ OwnText
  BY ElementOfSeq DEF Inv, TypeOK, OwnText, Table, Form, HonestJob

-----------------------------------------------------------------------------
(* The operators the actions are built from.                                *)

LEMMA RemoveAtTyped ==
    ASSUME NEW S, NEW s \in Seq(S), NEW k \in DOMAIN s
    PROVE  RemoveAt(s, k) \in Seq(S)
<1>1. k \in 1..Len(s)
  BY LenProperties
<1>2. SubSeq(s, 1, k - 1) \in Seq(S) /\ SubSeq(s, k + 1, Len(s)) \in Seq(S)
  BY <1>1
<1>3. QED
  BY <1>2 DEF RemoveAt

LEMMA BlankTyped == Blank \in Form
  BY DEF Blank, Form, Owner, Text

LEMMA JobAt ==
    ASSUME Inv, NEW k \in DOMAIN jobs
    PROVE  jobs[k] \in Job /\ Honest(jobs[k])
  BY ElementOfSeq DEF Inv, HonestJob

\* The server stores what a handler carries in the row it was typed for.
LEMMA StoreTyped ==
    ASSUME Inv, Parameters, NEW job \in Job, Honest(job), job.kind \in {"save", "toggle"},
           job.at = "ask", Accepts(job), Store(job)
    PROVE  saved' \in Table
<1>1. CASE job.item = "none"
  <2> DEFINE new == CHOOSE i \in Item : saved[i] = Unused
             row == [text |-> new, secret |-> IF job.secret = "blank" THEN "blank" ELSE new]
  <2>1. job.kind = "save" /\ job.text = "new" /\ job.secret \in {"new", "blank"}
    BY <1>1 DEF Parameters, Honest, Owner
  <2>2. new \in Item
    BY <1>1 DEF Accepts
  <2>3. saved' = [saved EXCEPT ![new] = row]
    BY <1>1, <2>1 DEF Store
  <2>4. row \in Fields /\ row.text = new /\ row.secret \in {new, "blank"}
    BY <2>2 DEF Fields, Text
  <2> HIDE DEF new, row
  <2>5. saved' \in [Item -> Fields \cup Missing]
    BY <2>2, <2>3, <2>4 DEF Inv, Table
  <2>6. QED
    BY <2>2, <2>3, <2>4, <2>5 DEF Inv, Table
<1>2. CASE job.item # "none"
  <2> DEFINE secret == IF job.secret = "blank" THEN saved[job.item].secret ELSE job.secret
             row == [text |-> job.text, secret |-> secret]
  <2>1. job.item \in Item /\ job.text = job.item /\ job.secret \in {job.item, "blank"}
    BY <1>2 DEF Honest, Owner, Job
  <2>2. saved[job.item] \notin Missing
    BY <1>2 DEF Accepts
  <2>3. saved' = [saved EXCEPT ![job.item] = row]
    BY <1>2, <2>1 DEF Store, Inv, Table
  <2>4. row \in Fields /\ row.text = job.item /\ row.secret \in {job.item, "blank"}
    BY <2>1, <2>2 DEF Inv, Table, Fields, Text
  <2> HIDE DEF row
  <2>5. saved' \in [Item -> Fields \cup Missing]
    BY <2>1, <2>3, <2>4 DEF Inv, Table
  <2>6. QED
    BY <2>1, <2>3, <2>4, <2>5 DEF Inv, Table
<1>3. QED
  BY <1>1, <1>2

LEMMA ServerTyped ==
    ASSUME Inv, Parameters, NEW job \in Job, Honest(job), job.at = "ask", Accepts(job),
           ServerDoes(job)
    PROVE  saved' \in Table
<1>1. CASE job.kind = "delete"
  <2>1. job.item \in Item /\ saved' = [saved EXCEPT ![job.item] = Deleted]
    BY <1>1 DEF Honest, ServerDoes
  <2>2. Deleted \in Missing
    BY DEF Missing
  <2>3. QED
    BY <2>1, <2>2 DEF Inv, Table
<1>2. CASE job.kind # "delete"
  BY <1>2, StoreTyped DEF ServerDoes, Honest, Job
<1>3. QED
  BY <1>1, <1>2

-----------------------------------------------------------------------------
(* The invariant.                                                           *)

LEMMA InvInit == Parameters /\ Init => Inv
<1> SUFFICES ASSUME Parameters, Init PROVE Inv
  OBVIOUS
<1>1. saved \in Table
  <2>1. PICK secrets \in SUBSET Item, fresh \in SUBSET Item :
            saved = [i \in Item |->
                        CASE i \in fresh -> Unused
                          [] i \in secrets -> [text |-> i, secret |-> i]
                          [] OTHER -> [text |-> i, secret |-> "blank"]]
    BY DEF Init
  <2>2. QED
    BY <2>1 DEF Table, Fields, Missing, Text
<1>2. items \in Table
  BY DEF Init, Table, Missing
<1>3. form \in Form
  BY BlankTyped DEF Init
<1>4. jobs \in Seq(HonestJob)
  <2>1. NewJob("load", "list", "none") \in HonestJob
    BY DEF NewJob, HonestJob, Honest, Job, Text
  <2>2. QED
    BY <2>1 DEF Init
<1>5. view \in View /\ saving = FALSE /\ faults = 0 /\ clicks = 0
  BY DEF Init
<1>6. 0 \in 0..MaxFaults /\ 0 \in 0..MaxClicks
  BY DEF Parameters
<1>7. QED
  BY <1>1, <1>2, <1>3, <1>4, <1>5, <1>6 DEF Inv

LEMMA InvStep == Parameters /\ Inv /\ [Next]_vars => Inv'
<1> SUFFICES ASSUME Parameters, Inv, [Next]_vars PROVE Inv'
  OBVIOUS
<1>1. ASSUME NEW f \in Form, Typed(f) PROVE Inv'
  BY <1>1 DEF Typed, Inv
<1>2. CASE TypeText
  <2>1. [form EXCEPT !.text = For] \in Form
    BY DEF Inv, Form, For, Owner, Text
  <2>2. QED
    BY <1>1, <1>2, <2>1 DEF TypeText
<1>3. CASE TypeSecret
  <2>1. [form EXCEPT !.secret = For] \in Form
    BY DEF Inv, Form, For, Owner, Text
  <2>2. QED
    BY <1>1, <1>3, <2>1 DEF TypeSecret
<1>4. CASE ClickNew
  BY <1>1, <1>4, BlankTyped DEF ClickNew
<1>5. ASSUME NEW i \in Item, Edit(i) PROVE Inv'
  <2>1. items[i].text = i
    BY <1>5 DEF Edit, Shown, Inv, Table
  <2>2. [editing |-> i, text |-> items[i].text, secret |-> "blank"] \in Form
    BY <2>1 DEF Form, Owner, Text, Parameters
  <2>3. QED
    BY <1>1, <1>5, <2>2 DEF Edit
<1>6. ASSUME NEW job \in HonestJob, Begin(job), saving' \in BOOLEAN PROVE Inv'
  <2>1. clicks' \in 0..MaxClicks
    BY <1>6 DEF Begin, Inv, Parameters
  <2>2. jobs' \in Seq(HonestJob)
    BY <1>6, AppendProperties DEF Begin, Inv
  <2>3. QED
    BY <1>6, <2>1, <2>2 DEF Begin, Inv
<1>7. CASE Save
  <2> DEFINE job == [kind |-> "save", at |-> "ask", item |-> form.editing,
                     text |-> form.text, secret |-> form.secret]
  <2>1. job \in HonestJob
    BY <1>7 DEF Save, Inv, Form, HonestJob, Honest, Job
  <2>2. Begin(job) /\ saving' \in BOOLEAN
    BY <1>7 DEF Save
  <2> HIDE DEF job
  <2>3. QED
    BY <1>6, <2>1, <2>2
<1>8. ASSUME NEW i \in Item, Toggle(i) PROVE Inv'
  <2> DEFINE job == [NewJob("toggle", "ask", i) EXCEPT !.text = items[i].text]
  <2>1. items[i].text = i
    BY <1>8 DEF Toggle, Shown, Inv, Table
  <2>2. job = [kind |-> "toggle", at |-> "ask", item |-> i, text |-> i, secret |-> "blank"]
    BY <2>1 DEF NewJob
  <2>3. job \in HonestJob
    BY <2>2 DEF HonestJob, Honest, Job, Text
  <2>4. Begin(job) /\ saving' \in BOOLEAN
    BY <1>8 DEF Toggle, Inv
  <2> HIDE DEF job
  <2>5. QED
    BY <1>6, <2>3, <2>4
<1>9. ASSUME NEW i \in Item, Delete(i) PROVE Inv'
  <2>1. NewJob("delete", "ask", i) \in HonestJob
    BY DEF NewJob, HonestJob, Honest, Job, Text
  <2>2. Begin(NewJob("delete", "ask", i)) /\ saving' \in BOOLEAN
    BY <1>9 DEF Delete, Inv
  <2>3. QED
    BY <1>6, <2>1, <2>2
<1>10. ASSUME NEW k \in DOMAIN jobs, Answered(k) PROVE Inv'
  <2>1. jobs[k] \in Job /\ Honest(jobs[k])
    BY <1>10, JobAt
  <2>2. saved' \in Table
    BY <1>10, <2>1, ServerTyped DEF Answered
  <2>3. form' \in Form
    BY <1>10, BlankTyped DEF Answered, FormAfter, Inv
  <2>4. [jobs[k] EXCEPT !.at = "list"] \in HonestJob
    BY <2>1 DEF HonestJob, Honest, Job
  <2>5. jobs' = [jobs EXCEPT ![k] = [jobs[k] EXCEPT !.at = "list"]]
    BY <1>10 DEF Answered
  <2>6. jobs' \in Seq(HonestJob)
    BY <2>4, <2>5, ExceptSeq DEF Inv
  <2>7. QED
    BY <1>10, <2>2, <2>3, <2>6 DEF Answered, Inv
<1>11. ASSUME NEW k \in DOMAIN jobs, Listed(k) PROVE Inv'
  BY <1>11, RemoveAtTyped DEF Listed, Inv
<1>12. ASSUME NEW k \in DOMAIN jobs, NEW done \in BOOLEAN, Fails(k, done) PROVE Inv'
  <2>1. jobs[k] \in Job /\ Honest(jobs[k])
    BY <1>12, JobAt
  <2>2. saved' \in Table
    <3>1. CASE done
      BY <1>12, <2>1, <3>1, ServerTyped DEF Fails
    <3>2. CASE ~done
      BY <1>12, <3>2 DEF Fails, Inv
    <3>3. QED
      BY <3>1, <3>2
  <2>3. faults' \in 0..MaxFaults
    BY <1>12 DEF Fails, Inv, Parameters
  <2>4. jobs' \in Seq(HonestJob)
    BY <1>12, RemoveAtTyped DEF Fails, Inv
  <2>5. QED
    BY <1>12, <2>2, <2>3, <2>4 DEF Fails, Inv
<1>13. CASE UNCHANGED vars
  BY <1>13 DEF vars, Inv
<1>14. QED
  BY <1>2, <1>3, <1>4, <1>5, <1>7, <1>8, <1>9, <1>10, <1>11, <1>12, <1>13 DEF Next

-----------------------------------------------------------------------------
(* The theorems.                                                            *)

LEMMA Invariance == Parameters => (Spec => []Inv)
<1> SUFFICES ASSUME Parameters PROVE Spec => []Inv
  OBVIOUS
<1>1. Init => Inv
  BY InvInit
<1>2. Inv /\ [Next]_vars => Inv'
  BY InvStep
<1>3. QED
  BY <1>1, <1>2, PTL DEF Spec

\* The type invariant, for all constants.
THEOREM TypeCorrect == Parameters => (Spec => []TypeOK)
<1> SUFFICES ASSUME Parameters PROVE Spec => []TypeOK
  OBVIOUS
<1>1. Spec => []Inv
  BY Invariance
<1>2. Inv => TypeOK
  BY InvHolds
<1>3. QED
  BY <1>1, <1>2, PTL

\* However the one form is filled, emptied and given to another row while its
\* requests are on their way, no row stores what was typed for another.
THEOREM OwnTextCorrect == Parameters => (Spec => []OwnText)
<1> SUFFICES ASSUME Parameters PROVE Spec => []OwnText
  OBVIOUS
<1>1. Spec => []Inv
  BY Invariance
<1>2. Inv => OwnText
  BY InvHolds
<1>3. QED
  BY <1>1, <1>2, PTL

\* What the server does for a handler empties no secret.
LEMMA ServerKeepsSecrets ==
    ASSUME Inv, Parameters, NEW job \in Job, Honest(job), job.at = "ask", Accepts(job),
           ServerDoes(job)
    PROVE  SecretKept
<1>1. CASE job.kind = "delete"
  BY <1>1 DEF ServerDoes, SecretKept, Inv, Table, Honest
<1>2. CASE job.kind # "delete" /\ job.item = "none"
  <2> DEFINE new == CHOOSE i \in Item : saved[i] = Unused
  <2>1. new \in Item /\ saved[new] = Unused
    BY <1>2 DEF Accepts, Honest, Parameters
  <2>2. \A i \in Item : i # new => saved'[i] = saved[i]
    BY <1>2, <2>1 DEF ServerDoes, Store, Inv, Table
  <2>3. saved[new].secret = "blank"
    BY <2>1 DEF Unused
  <2> HIDE DEF new
  <2>4. QED
    BY <2>1, <2>2, <2>3 DEF SecretKept
<1>3. CASE job.kind # "delete" /\ job.item # "none"
  <2> DEFINE secret == IF job.secret = "blank" THEN saved[job.item].secret ELSE job.secret
  <2>1. saved' = [saved EXCEPT ![job.item] = [text |-> job.text, secret |-> secret]]
    BY <1>3 DEF ServerDoes, Store, Inv, Table, Job
  <2>2. job.item \in Item
    BY <1>3 DEF Job
  <2>3. saved'[job.item].secret = secret
    BY <2>1, <2>2 DEF Inv, Table
  <2>4. \A i \in Item : i # job.item => saved'[i] = saved[i]
    BY <2>1, <2>2 DEF Inv, Table
  <2>5. QED
    BY <2>2, <2>3, <2>4 DEF SecretKept
<1>4. QED
  BY <1>1, <1>2, <1>3

\* A step takes no stored secret away, but for a delete's.
LEMMA SecretKeptStep == Parameters /\ Inv /\ [Next]_vars => [SecretKept]_vars
<1> SUFFICES ASSUME Parameters, Inv, [Next]_vars PROVE SecretKept \/ UNCHANGED vars
  OBVIOUS
<1>1. ASSUME UNCHANGED saved PROVE SecretKept
  BY <1>1 DEF SecretKept
<1>2. ASSUME NEW k \in DOMAIN jobs, Answered(k) PROVE SecretKept
  BY <1>2, JobAt, ServerKeepsSecrets DEF Answered
<1>3. ASSUME NEW k \in DOMAIN jobs, NEW done \in BOOLEAN, Fails(k, done) PROVE SecretKept
  <2>1. CASE done
    BY <1>3, <2>1, JobAt, ServerKeepsSecrets DEF Fails
  <2>2. CASE ~done
    <3>1. UNCHANGED saved
      BY <1>3, <2>2 DEF Fails
    <3>2. QED
      BY <1>1, <3>1
  <2>3. QED
    BY <2>1, <2>2
<1>4. QED
  BY <1>1, <1>2, <1>3 DEF Next, TypeText, TypeSecret, ClickNew, Typed, Save, Edit, Toggle,
                          Delete, Begin, Listed

\* No handler but a delete takes a stored secret away.
THEOREM SecretKeptCorrect == Parameters => (Spec => [][SecretKept]_vars)
<1> SUFFICES ASSUME Parameters PROVE Spec => [][SecretKept]_vars
  OBVIOUS
<1>1. Inv /\ [Next]_vars => [SecretKept]_vars
  BY SecretKeptStep
<1>2. Spec => []Inv
  BY Invariance
<1>3. QED
  BY <1>1, <1>2, PTL DEF Spec
=============================================================================
