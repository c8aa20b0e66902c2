--------------------------- MODULE ListPageProofs ---------------------------
(***************************************************************************)
(* Proofs about ListPage for any rows, page sizes and any number of         *)
(* requests in flight, failed and begun: the page number exists, and the    *)
(* list is the page it names.                                              *)
(***************************************************************************)
EXTENDS ListPage, FiniteSetTheorems, SequenceTheorems, TLAPS

\* The rows are finite, and there is a least page size.
Parameters ==
    /\ Row \subseteq Nat /\ IsFiniteSet(Row)
    /\ Size \subseteq Nat \ {0} /\ \E n \in Size : \A m \in Size : n <= m
    /\ MaxFaults \in Nat /\ MaxClicks \in Nat /\ MaxJobs \in Nat

\* A handler that loads a page knows which one; so does one that was left.
Sound == {job \in Job : job.kind = "load" \/ ~job.own => job.query \in QuerySet}

\* What is on its way is the page the pagination names, and if nothing is, so
\* is what is shown.
Consistent ==
    ~excused =>
        /\ \A q \in Loads(jobs) : q.offset = offset /\ q.size = size
        /\ (Loads(jobs) = {} /\ ~failed /\ shown # NoQuery)
              => shown.offset = offset /\ shown.size = size

Typed ==
    /\ view \in View
    /\ rows \subseteq Row /\ feed \subseteq Row /\ items \subseteq Row /\ ticked \subseteq Row
    /\ total \in Nat /\ offset \in Nat /\ filter \in Filter /\ size \in Size
    /\ dialog \in [ids : SUBSET Row, bulk : BOOLEAN]
    /\ jobs \in Seq(Sound)
    /\ shown \in QuerySet \cup {NoQuery}
    /\ busy \in BOOLEAN /\ excused \in BOOLEAN /\ failed \in BOOLEAN
    /\ faults \in 0..MaxFaults /\ clicks \in 0..MaxClicks

Inv == Typed /\ PageInRange /\ Consistent

LEMMA InvHolds == Inv => TypeOK /\ PageInRange /\ PageShown
<1>1. Typed => \A k \in DOMAIN jobs : jobs[k] \in Job
  BY ElementOfSeq DEF Typed, Sound
<1>2. QED
  BY <1>1 DEF Inv, Typed, TypeOK, Consistent, PageShown

-----------------------------------------------------------------------------
(* Pages.                                                                   *)

LEMMA PagesTyped ==
    ASSUME NEW n \in Nat, NEW perPage \in Nat \ {0}
    PROVE  Pages(n, perPage) \in Nat \ {0}
<1>1. CASE n = 0
  BY <1>1 DEF Pages
<1>2. CASE n # 0
  <2>1. n + perPage - 1 \in Nat /\ n + perPage - 1 >= perPage
    BY <1>2
  <2>2. (n + perPage - 1) \div perPage >= 1 /\ (n + perPage - 1) \div perPage \in Nat
    BY <2>1
  <2>3. QED
    BY <1>2, <2>2 DEF Pages
<1>3. QED
  BY <1>1, <1>2

LEMMA PageOf ==
    ASSUME NEW p \in Nat \ {0}, NEW perPage \in Nat \ {0}
    PROVE  (p - 1) * perPage \in Nat /\ ((p - 1) * perPage) \div perPage + 1 = p
  OBVIOUS

LEMMA DefaultSizeTyped == Parameters => DefaultSize \in Size
  BY DEF Parameters, DefaultSize

LEMMA PageTyped == ASSUME Parameters, Typed PROVE page \in Nat \ {0}
  BY DEF Parameters, Typed, page

\* The watcher leads to a page that exists.
LEMMA ClampInRange ==
    ASSUME Parameters, Inv, NEW n \in Nat
    PROVE  Clamp(n) \in Nat /\ Clamp(n) \div size + 1 <= Pages(n, size)
<1> DEFINE pages == Pages(n, size)
<1>1. size \in Nat \ {0} /\ pages \in Nat \ {0} /\ page \in Nat /\ Pages(total, size) \in Nat
  BY PagesTyped, PageTyped DEF Parameters, Inv, Typed
<1>2. CASE pages # Pages(total, size) /\ page > pages
  BY <1>1, <1>2, PageOf DEF Clamp
<1>3. CASE ~(pages # Pages(total, size) /\ page > pages)
  <2>1. Clamp(n) = offset
    BY <1>3 DEF Clamp
  <2>2. page <= pages
    BY <1>1, <1>3 DEF Inv, PageInRange
  <2>3. QED
    BY <2>1, <2>2 DEF Inv, Typed, page
<1>4. QED
  BY <1>2, <1>3

-----------------------------------------------------------------------------
(* The handlers in flight.                                                  *)

LEMMA RemoveAtTyped ==
    ASSUME NEW S, NEW s \in Seq(S), NEW k \in DOMAIN s
    PROVE  /\ RemoveAt(s, k) \in Seq(S)
           /\ Len(RemoveAt(s, k)) = Len(s) - 1
           /\ \A m \in 1..Len(s) - 1 : RemoveAt(s, k)[m] = s[IF m < k THEN m ELSE m + 1]
<1>1. k \in 1..Len(s) /\ Len(s) \in Nat
  BY LenProperties
<1> DEFINE a == SubSeq(s, 1, k - 1)
           b == SubSeq(s, k + 1, Len(s))
<1>2. a \in Seq(S) /\ b \in Seq(S) /\ Len(a) = k - 1 /\ Len(b) = Len(s) - k
      /\ (\A m \in 1..k - 1 : a[m] = s[m]) /\ \A m \in 1..Len(s) - k : b[m] = s[k + m]
  BY <1>1
<1> HIDE DEF a, b
<1>3. a \o b \in Seq(S) /\ Len(a \o b) = Len(s) - 1
      /\ \A m \in 1..Len(s) - 1 : (a \o b)[m] = IF m <= k - 1 THEN a[m] ELSE b[m - (k - 1)]
  <2>1. a \o b \in Seq(S) /\ Len(a \o b) = Len(a) + Len(b)
        /\ \A m \in 1..Len(a) + Len(b) :
              (a \o b)[m] = IF m <= Len(a) THEN a[m] ELSE b[m - Len(a)]
    BY <1>2, ConcatProperties
  <2>2. Len(a) + Len(b) = Len(s) - 1
    BY <1>1, <1>2
  <2>3. QED
    BY <1>2, <2>1, <2>2
<1>4. \A m \in 1..Len(s) - 1 : (a \o b)[m] = s[IF m < k THEN m ELSE m + 1]
  <2> SUFFICES ASSUME NEW m \in 1..Len(s) - 1
               PROVE  (a \o b)[m] = s[IF m < k THEN m ELSE m + 1]
    OBVIOUS
  <2>1. CASE m < k
    BY <1>1, <1>2, <1>3, <2>1
  <2>2. CASE ~(m < k)
    <3>1. m - (k - 1) \in 1..Len(s) - k /\ k + (m - (k - 1)) = m + 1
      BY <1>1, <2>2
    <3>2. (a \o b)[m] = b[m - (k - 1)]
      BY <1>1, <1>3, <2>2
    <3>3. QED
      BY <1>2, <2>2, <3>1, <3>2
  <2>3. QED
    BY <2>1, <2>2
<1>5. QED
  BY <1>3, <1>4 DEF RemoveAt, a, b

LEMMA LoadsRemoved ==
    ASSUME NEW S, NEW js \in Seq(S), NEW k \in DOMAIN js
    PROVE  /\ Loads(RemoveAt(js, k)) \subseteq Loads(js)
           /\ js[k].kind # "load" => Loads(RemoveAt(js, k)) = Loads(js)
<1> DEFINE rest == RemoveAt(js, k)
<1>1. k \in 1..Len(js) /\ Len(js) \in Nat /\ DOMAIN js = 1..Len(js)
  BY LenProperties
<1>2. rest \in Seq(S) /\ Len(rest) = Len(js) - 1
      /\ \A m \in 1..Len(js) - 1 : rest[m] = js[IF m < k THEN m ELSE m + 1]
  BY RemoveAtTyped
<1>3. DOMAIN rest = 1..Len(js) - 1
  BY <1>2, LenProperties
<1> HIDE DEF rest
<1>4. ASSUME NEW m \in DOMAIN rest
      PROVE  \E j \in DOMAIN js : j # k /\ js[j] = rest[m]
  <2>1. CASE m < k
    <3>1. m \in DOMAIN js /\ m # k /\ js[m] = rest[m]
      BY <1>1, <1>2, <1>3, <2>1
    <3>2. QED
      BY <3>1
  <2>2. CASE ~(m < k)
    <3>1. m + 1 \in DOMAIN js /\ m + 1 # k /\ js[m + 1] = rest[m]
      BY <1>1, <1>2, <1>3, <2>2
    <3>2. QED
      BY <3>1
  <2>3. QED
    BY <2>1, <2>2
<1>5. ASSUME NEW j \in DOMAIN js, j # k
      PROVE  \E m \in DOMAIN rest : rest[m] = js[j]
  <2>1. CASE j < k
    BY <1>1, <1>2, <1>3, <2>1
  <2>2. CASE ~(j < k)
    <3>1. j - 1 \in DOMAIN rest /\ rest[j - 1] = js[j]
      BY <1>1, <1>2, <1>3, <1>5, <2>2
    <3>2. QED
      BY <3>1
  <2>3. QED
    BY <2>1, <2>2
<1>6. Loads(rest) \subseteq Loads(js)
  BY <1>4 DEF Loads
<1>7. ASSUME js[k].kind # "load" PROVE Loads(js) \subseteq Loads(rest)
  BY <1>5, <1>7 DEF Loads
<1>8. QED
  BY <1>6, <1>7 DEF rest

LEMMA LoadsAppended ==
    ASSUME NEW S, NEW js \in Seq(S), NEW job
    PROVE  Loads(Append(js, job))
              = Loads(js) \cup (IF job.kind = "load" THEN {job.query} ELSE {})
<1> DEFINE more == Append(js, job)
<1>1. Len(js) \in Nat /\ DOMAIN js = 1..Len(js)
  BY LenProperties
<1>2. DOMAIN more = 1..Len(js) + 1 /\ more[Len(js) + 1] = job
      /\ \A m \in 1..Len(js) : more[m] = js[m]
  BY <1>1
<1> HIDE DEF more
<1>3. DOMAIN more = DOMAIN js \cup {Len(js) + 1}
  BY <1>1, <1>2
<1>4. \A q : q \in Loads(more) <=> q \in Loads(js) \/ (job.kind = "load" /\ q = job.query)
  BY <1>1, <1>2, <1>3 DEF Loads
<1>5. QED
  BY <1>4 DEF more

LEMMA UnaskedTyped ==
    ASSUME NEW js \in Seq(Sound)
    PROVE  Unasked(js) \in Seq(Sound) /\ Loads(Unasked(js)) = Loads(js)
<1>1. DOMAIN js = 1..Len(js) /\ Len(js) \in Nat /\ \A k \in DOMAIN js : js[k] \in Sound
  BY LenProperties, ElementOfSeq
<1>2. \A job \in Sound : /\ [job EXCEPT !.closes = FALSE] \in Sound
                         /\ [job EXCEPT !.closes = FALSE].kind = job.kind
                         /\ [job EXCEPT !.closes = FALSE].query = job.query
  BY DEF Sound, Job
<1>3. Unasked(js) \in Seq(Sound)
  BY <1>1, <1>2, IsASeq DEF Unasked
<1>4. DOMAIN Unasked(js) = DOMAIN js
      /\ \A k \in DOMAIN js : /\ Unasked(js)[k].kind = js[k].kind
                              /\ Unasked(js)[k].query = js[k].query
  BY <1>1, <1>2 DEF Unasked
<1>5. QED
  BY <1>3, <1>4 DEF Loads

LEMMA LoadJobTyped ==
    ASSUME NEW q \in QuerySet, NEW own \in BOOLEAN, NEW closes \in BOOLEAN
    PROVE  /\ LoadJob(q, own, closes) \in Sound
           /\ LoadJob(q, own, closes).kind = "load" /\ LoadJob(q, own, closes).query = q
  BY DEF LoadJob, Sound, Job

\* With the request for q begun, nothing else is on its way, or it is excused.
LEMMA OnlyThePageAsked ==
    ASSUME NEW js \in Seq(Sound), NEW q \in QuerySet, NEW closes \in BOOLEAN,
           ~Crosses(js, q, TRUE)
    PROVE  Loads(Append(js, LoadJob(q, TRUE, closes))) = {q}
<1>1. Loads(js) = {} \/ Loads(js) = {q}
  BY DEF Crosses
<1> DEFINE job == LoadJob(q, TRUE, closes)
<1>2. job.kind = "load" /\ job.query = q
  BY LoadJobTyped
<1> HIDE DEF job
<1>3. Loads(Append(js, job)) = Loads(js) \cup {q}
  BY <1>2, LoadsAppended
<1>4. QED
  BY <1>1, <1>3 DEF job

\* Asking for a page leaves the page consistent.
LEMMA AsksKeeps ==
    ASSUME Typed, NEW js \in Seq(Sound), NEW q \in QuerySet, NEW ticks \in SUBSET Row,
           NEW closes \in BOOLEAN, Asks(js, q, ticks, closes)
    PROVE  /\ filter' \in Filter /\ offset' = q.offset /\ size' = q.size
           /\ offset' \in Nat /\ size' \in Size
           /\ ticked' \subseteq Row /\ jobs' \in Seq(Sound)
           /\ excused' \in BOOLEAN
           /\ Consistent'
<1>1. /\ filter' \in Filter /\ offset' = q.offset /\ size' = q.size
      /\ offset' \in Nat /\ size' \in Size
  BY DEF Asks, QuerySet
<1>2. ticked' \subseteq Row
  BY DEF Asks, Typed
<1>3. CASE Silent(q)
  <2>1. jobs' = js /\ excused' = TRUE
    BY <1>3 DEF Asks
  <2>2. QED
    BY <1>1, <1>2, <2>1 DEF Consistent, Typed
<1>4. CASE ~Silent(q)
  <2>1. jobs' = Append(js, LoadJob(q, TRUE, closes)) /\ excused' = Crosses(js, q, TRUE)
    <3>1. excused' = (Silent(q) \/ Crosses(js, q, TRUE))
      BY DEF Asks
    <3>2. Crosses(js, q, TRUE) \in BOOLEAN
      BY Zenon DEF Crosses
    <3>3. jobs' = Append(js, LoadJob(q, TRUE, closes))
      BY <1>4 DEF Asks
    <3>4. QED
      BY <1>4, <3>1, <3>2, <3>3
  <2>2. jobs' \in Seq(Sound)
    <3> DEFINE job == LoadJob(q, TRUE, closes)
    <3>1. job \in Sound
      BY LoadJobTyped
    <3> HIDE DEF job
    <3>2. Append(js, job) \in Seq(Sound)
      BY <3>1
    <3>3. QED
      BY <2>1, <3>2 DEF job
  <2>3. excused' \in BOOLEAN
    BY Zenon, <2>1 DEF Crosses
  <2>4. ~excused' => Loads(jobs)' = {q}
    <3>1. ASSUME ~excused' PROVE Loads(Append(js, LoadJob(q, TRUE, closes))) = {q}
      BY <2>1, <3>1, OnlyThePageAsked
    <3>2. QED
      BY <2>1, <3>1
  <2>5. QED
    BY <1>1, <1>2, <2>1, <2>2, <2>3, <2>4 DEF Consistent
<1>5. QED
  BY <1>3, <1>4

\* load, loadPage and runSearch are busy, or leave the flag to the others.
LEMMA AskForKeeps ==
    ASSUME Typed, NEW js \in Seq(Sound), NEW q \in QuerySet, NEW ticks \in SUBSET Row,
           NEW closes \in BOOLEAN, AskFor(js, q, ticks, closes)
    PROVE  /\ filter' \in Filter /\ offset' = q.offset /\ size' = q.size
           /\ offset' \in Nat /\ size' \in Size
           /\ ticked' \subseteq Row /\ jobs' \in Seq(Sound)
           /\ busy' \in BOOLEAN /\ excused' \in BOOLEAN
           /\ Consistent'
<1>1. Asks(js, q, ticks, closes) /\ busy' \in BOOLEAN
  BY DEF AskFor, Typed
<1>2. QED
  BY <1>1, AsksKeeps

\* The same of a user who asks for a page that exists.
LEMMA AskKeeps ==
    ASSUME Parameters, Inv, NEW q \in QuerySet, NEW ticks \in SUBSET Row, Ask(q, ticks),
           q.offset \div q.size + 1 <= Pages(total, q.size)
    PROVE  Inv'
<1>1. /\ AskFor(jobs, q, ticks, FALSE) /\ jobs \in Seq(Sound)
      /\ clicks < MaxClicks /\ clicks' = clicks + 1
      /\ UNCHANGED <<view, rows, feed, store, dialog, shown, failed, faults>>
  BY DEF Ask, Click, Inv, Typed
<1>2. /\ filter' \in Filter /\ offset' = q.offset /\ size' = q.size
      /\ offset' \in Nat /\ size' \in Size
      /\ ticked' \subseteq Row /\ jobs' \in Seq(Sound)
      /\ busy' \in BOOLEAN /\ excused' \in BOOLEAN
      /\ Consistent'
  BY <1>1, AskForKeeps DEF Inv
<1>3. PageInRange'
  BY <1>1, <1>2 DEF PageInRange, page, store
<1>4. clicks' \in 0..MaxClicks
  BY <1>1 DEF Inv, Typed, Parameters
<1>5. Typed'
  BY <1>1, <1>2, <1>4 DEF Inv, Typed, store
<1>6. QED
  BY <1>2, <1>3, <1>5 DEF Inv

\* The first page exists.
LEMMA FirstPage ==
    ASSUME Parameters, NEW n \in Nat, NEW perPage \in Size
    PROVE  0 \div perPage + 1 <= Pages(n, perPage)
<1>1. perPage \in Nat \ {0}
  BY DEF Parameters
<1>2. 0 \div perPage = 0 /\ Pages(n, perPage) \in Nat \ {0}
  BY <1>1, PagesTyped
<1>3. QED
  BY <1>2

-----------------------------------------------------------------------------
(* The invariant.                                                           *)

LEMMA InvInit == Parameters /\ Init => Inv
<1> SUFFICES ASSUME Parameters, Init PROVE Inv
  OBVIOUS
<1>1. First \in QuerySet /\ First.offset = 0 /\ First.size = DefaultSize /\ DefaultSize \in Size
  BY DefaultSizeTyped DEF First, QuerySet, Filter
<1>2. jobs \in Seq(Sound) /\ \A q \in Loads(jobs) : q = First
  <2>1. CASE view = "search"
    BY <2>1 DEF Init, Loads
  <2>2. CASE view # "search"
    <3> DEFINE job == LoadJob(First, TRUE, FALSE)
    <3>1. jobs = <<job>>
      BY <2>2 DEF Init
    <3>2. job \in Sound /\ job.query = First
      BY <1>1, LoadJobTyped
    <3> HIDE DEF job
    <3>3. DOMAIN jobs = {1} /\ jobs[1] = job
      BY <3>1
    <3>4. QED
      BY <3>1, <3>2, <3>3 DEF Loads
  <2>3. QED
    BY <2>1, <2>2
<1>3. Typed
  <2>1. offset \in Nat /\ size \in Size /\ jobs \in Seq(Sound)
    BY <1>1, <1>2 DEF Init
  <2>2. dialog \in [ids : SUBSET Row, bulk : BOOLEAN]
    BY DEF Init, NoDialog
  <2>3. view \in View /\ filter \in Filter /\ busy \in BOOLEAN
    BY DEF Init, View, Filter
  <2>4. /\ shown \in QuerySet \cup {NoQuery} /\ total \in Nat
        /\ excused \in BOOLEAN /\ failed \in BOOLEAN
    BY DEF Init
  <2>5. rows \subseteq Row /\ feed \subseteq Row /\ items \subseteq Row /\ ticked \subseteq Row
    BY DEF Init
  <2>6. faults \in 0..MaxFaults /\ clicks \in 0..MaxClicks
    BY DEF Init, Parameters
  <2>7. QED
    BY <2>1, <2>2, <2>3, <2>4, <2>5, <2>6 DEF Typed
<1>4. PageInRange
  BY <1>1, FirstPage DEF Init, PageInRange, page
<1>5. Consistent
  BY <1>1, <1>2 DEF Init, Consistent
<1>6. QED
  BY <1>3, <1>4, <1>5 DEF Inv

\* The user's steps that ask for a page.
LEMMA AsksKeep ==
    ASSUME Parameters, Inv,
           \/ \E f \in Filter : SelectLog(f) \/ SelectCategory(f) \/ ChangeRoute(f)
           \/ Submit \/ SortTasks \/ ResetFilters \/ Refresh
           \/ \E p \in 1..Cardinality(Row) : GoToPage(p)
           \/ \E n \in Size : ChangePageSize(n)
    PROVE  Inv'
<1>1. /\ offset \in Nat /\ size \in Size /\ size \in Nat \ {0} /\ filter \in Filter /\ total \in Nat
      /\ Query \in QuerySet /\ ticked \in SUBSET Row
  BY DEF Inv, Typed, Parameters, Query, QuerySet
<1>2. ASSUME NEW f \in Filter, NEW n \in Size, NEW ticks \in SUBSET Row,
             Ask([filter |-> f, offset |-> 0, size |-> n], ticks)
      PROVE  Inv'
  <2> DEFINE q == [filter |-> f, offset |-> 0, size |-> n]
  <2>1. q \in QuerySet /\ q.offset = 0 /\ q.size = n
    BY DEF QuerySet
  <2>2. q.offset \div q.size + 1 <= Pages(total, q.size)
    BY <1>1, <2>1, FirstPage
  <2> HIDE DEF q
  <2>3. Ask(q, ticks)
    BY <1>2 DEF q
  <2>4. QED
    BY <2>1, <2>2, <2>3, AskKeeps
<1>3. ASSUME Submit PROVE Inv'
  BY <1>1, <1>2, <1>3 DEF Submit, Query
<1>4. ASSUME SortTasks PROVE Inv'
  BY <1>3, <1>4 DEF SortTasks
<1>5. ASSUME NEW f \in Filter, FilterAndLoad(f) PROVE Inv'
  BY <1>1, <1>2, <1>5 DEF FilterAndLoad
<1>6. ASSUME NEW f \in Filter, SelectLog(f) \/ SelectCategory(f) PROVE Inv'
  BY <1>5, <1>6 DEF SelectLog, SelectCategory
<1>7. ASSUME ResetFilters PROVE Inv'
  BY <1>5, <1>7 DEF ResetFilters, Filter
<1>8. ASSUME NEW f \in Filter, ChangeRoute(f) PROVE Inv'
  <2>1. Ask([filter |-> f, offset |-> 0, size |-> size], {})
    BY <1>8 DEF ChangeRoute
  <2>2. QED
    BY <1>1, <1>2, <2>1
<1>9. ASSUME Refresh PROVE Inv'
  <2>1. PICK ticks \in SUBSET Row : Ask(Query, ticks)
    BY <1>1, <1>9 DEF Refresh
  <2>2. Query.offset \div Query.size + 1 <= Pages(total, Query.size)
    BY DEF Inv, PageInRange, page, Query
  <2>3. QED
    BY <1>1, <2>1, <2>2, AskKeeps
<1>10. ASSUME NEW p \in 1..Cardinality(Row), GoToPage(p) PROVE Inv'
  <2>1. Cardinality(Row) \in Nat
    BY FS_CardinalityType DEF Parameters
  <2>2. p \in Nat \ {0} /\ p <= Pages(total, size)
    BY <1>10, <2>1 DEF GoToPage, Reachable
  <2> DEFINE q == [Query EXCEPT !.offset = (p - 1) * size]
  <2>3. (p - 1) * size \in Nat /\ ((p - 1) * size) \div size + 1 = p
    BY <1>1, <2>2, PageOf
  <2>4. q \in QuerySet /\ q.offset = (p - 1) * size /\ q.size = size
    BY <1>1, <2>3 DEF QuerySet, Query
  <2>5. Ask(q, ticked)
    BY <1>10 DEF GoToPage
  <2> HIDE DEF q
  <2>6. q.offset \div q.size + 1 <= Pages(total, q.size)
    BY <2>2, <2>3, <2>4
  <2>7. QED
    BY <1>1, <2>4, <2>5, <2>6, AskKeeps
<1>11. ASSUME NEW n \in Size, ChangePageSize(n) PROVE Inv'
  BY <1>1, <1>2, <1>11 DEF ChangePageSize
<1>12. QED
  BY <1>3, <1>4, <1>6, <1>7, <1>8, <1>9, <1>10, <1>11

\* The handlers of a page that is left know the page they would ask for.
LEMMA LeftTyped ==
    ASSUME Parameters, Typed
    PROVE  [k \in DOMAIN jobs |->
              [kind |-> jobs[k].kind, ids |-> jobs[k].ids, bulk |-> jobs[k].bulk,
               query |-> IF jobs[k].kind = "load" THEN jobs[k].query ELSE Query,
               own |-> FALSE, closes |-> FALSE]] \in Seq(Sound)
<1>1. DOMAIN jobs = 1..Len(jobs) /\ Len(jobs) \in Nat /\ \A k \in DOMAIN jobs : jobs[k] \in Sound
  BY LenProperties, ElementOfSeq DEF Typed
<1>2. Query \in QuerySet
  BY DEF Typed, Query, QuerySet
<1>3. ASSUME NEW k \in DOMAIN jobs
      PROVE  [kind |-> jobs[k].kind, ids |-> jobs[k].ids, bulk |-> jobs[k].bulk,
              query |-> IF jobs[k].kind = "load" THEN jobs[k].query ELSE Query,
              own |-> FALSE, closes |-> FALSE] \in Sound
  <2>1. jobs[k] \in Job /\ (jobs[k].kind = "load" => jobs[k].query \in QuerySet)
    BY <1>1 DEF Sound
  <2> DEFINE q == IF jobs[k].kind = "load" THEN jobs[k].query ELSE Query
  <2>2. q \in QuerySet
    BY <1>2, <2>1
  <2> HIDE DEF q
  <2>3. [kind |-> jobs[k].kind, ids |-> jobs[k].ids, bulk |-> jobs[k].bulk,
         query |-> q, own |-> FALSE, closes |-> FALSE] \in Sound
    BY <2>1, <2>2 DEF Sound, Job
  <2>4. QED
    BY <2>3 DEF q
<1>4. QED
  BY <1>1, <1>3, IsASeq

\* The page is opened again: only what it asks for now is not excused.
LEMMA RemountKeeps == ASSUME Parameters, Inv, Remount PROVE Inv'
<1> DEFINE left == [k \in DOMAIN jobs |->
              [kind |-> jobs[k].kind, ids |-> jobs[k].ids, bulk |-> jobs[k].bulk,
               query |-> IF jobs[k].kind = "load" THEN jobs[k].query ELSE Query,
               own |-> FALSE, closes |-> FALSE]]
<1>1. left \in Seq(Sound)
  BY LeftTyped DEF Inv
<1>2. /\ IF view = "search"
         THEN jobs' = left /\ UNCHANGED busy /\ excused' = TRUE
         ELSE /\ jobs' = Append(left, LoadJob(First, TRUE, FALSE)) /\ busy' = TRUE
              /\ excused' = Crosses(left, First, TRUE)
      /\ clicks < MaxClicks /\ clicks' = clicks + 1
      /\ filter' = (IF view = "search" THEN "blank" ELSE "all")
      /\ offset' = 0 /\ size' = DefaultSize
      /\ ticked' = {} /\ dialog' = NoDialog /\ feed' = {}
      /\ UNCHANGED <<view, rows, store, shown, failed, faults>>
  BY DEF Remount, Click
<1> HIDE DEF left
<1>3. First \in QuerySet /\ First.offset = 0 /\ First.size = DefaultSize /\ DefaultSize \in Size
  BY DefaultSizeTyped DEF First, QuerySet, Filter
<1>4. jobs' \in Seq(Sound) /\ excused' \in BOOLEAN /\ (~excused' => Loads(jobs)' = {First})
  <2>1. CASE view = "search"
    BY <1>1, <1>2, <2>1
  <2>2. CASE view # "search"
    <3> DEFINE job == LoadJob(First, TRUE, FALSE)
    <3>1. job \in Sound
      BY <1>3, LoadJobTyped
    <3>2. ~Crosses(left, First, TRUE) => Loads(Append(left, job)) = {First}
      BY <1>1, <1>3, OnlyThePageAsked
    <3>3. Crosses(left, First, TRUE) \in BOOLEAN
      BY Zenon DEF Crosses
    <3>4. jobs' = Append(left, job) /\ excused' = Crosses(left, First, TRUE)
      BY <1>2, <2>2
    <3> HIDE DEF job
    <3>5. Append(left, job) \in Seq(Sound)
      BY <1>1, <3>1
    <3>6. jobs' \in Seq(Sound)
      BY <3>4, <3>5
    <3>7. ~excused' => Loads(jobs)' = {First}
      <4>1. ASSUME ~excused' PROVE Loads(Append(left, job)) = {First}
        BY <3>2, <3>4, <4>1
      <4>2. QED
        BY <3>4, <4>1
    <3>8. excused' \in BOOLEAN
      BY Zenon, <3>3, <3>4
    <3>9. QED
      BY <3>6, <3>7, <3>8
  <2>3. QED
    BY <2>1, <2>2
<1>5. dialog' \in [ids : SUBSET Row, bulk : BOOLEAN] /\ clicks' \in 0..MaxClicks
  BY <1>2 DEF NoDialog, Inv, Typed, Parameters
<1>6. filter' \in Filter /\ busy' \in BOOLEAN /\ offset' \in Nat /\ size' \in Size
  BY <1>2, <1>3 DEF Filter, Inv, Typed
<1>7. Typed'
  BY <1>2, <1>4, <1>5, <1>6 DEF Inv, Typed, store
<1>8. PageInRange'
  BY <1>2, <1>3, FirstPage DEF Inv, Typed, PageInRange, page, store
<1>9. Consistent'
  BY <1>2, <1>3, <1>4 DEF Consistent
<1>10. QED
  BY <1>7, <1>8, <1>9 DEF Inv

\* The steps that ask for nothing and move no page.
LEMMA StillKeeps ==
    ASSUME Parameters, Inv, UNCHANGED <<view, total, offset, size, excused, shown>>,
           Typed', Loads(jobs)' = Loads(jobs), failed' = failed
    PROVE  Inv'
<1>1. PageInRange'
  BY DEF Inv, PageInRange, page
<1>2. Consistent'
  BY DEF Inv, Consistent
<1>3. QED
  BY <1>1, <1>2 DEF Inv

\* A handler that loads nothing begins.
LEMMA RequestKeeps ==
    ASSUME Parameters, Inv, NEW job \in Sound, job.kind # "load", Request(job)
    PROVE  Inv'
<1>1. /\ clicks < MaxClicks /\ clicks' = clicks + 1
      /\ jobs' = Append(jobs, job) /\ busy' = TRUE
      /\ UNCHANGED <<view, rows, feed, store, filter, offset, size, ticked, dialog, shown,
                     excused, failed, faults>>
  BY DEF Request, Click
<1>2. jobs' \in Seq(Sound)
  BY <1>1 DEF Inv, Typed
<1>3. Loads(jobs)' = Loads(jobs)
  BY <1>1, LoadsAppended DEF Inv, Typed
<1>4. clicks' \in 0..MaxClicks
  BY <1>1 DEF Inv, Typed, Parameters
<1>5. Typed'
  BY <1>1, <1>2, <1>4 DEF Inv, Typed, store
<1>6. QED
  BY <1>1, <1>3, <1>5, StillKeeps DEF store

\* A load ends: its watcher asks for a page that exists, or the list is the
\* page that was asked for.
LEMMA LoadAnsweredKeeps ==
    ASSUME Parameters, Inv, NEW k \in DOMAIN jobs, LoadAnswered(k)
    PROVE  Inv'
<1> DEFINE job == jobs[k]
           n == Cardinality(Matching(job.query.filter))
           rest == RemoveAt(jobs, k)
           js == IF job.closes THEN Unasked(rest) ELSE rest
           q == [Query EXCEPT !.offset = Clamp(n)]
<1>1. /\ job.kind = "load"
      /\ items' = Slice(job.query) /\ total' = n
      /\ shown' = job.query /\ failed' = FALSE
      /\ dialog' = IF job.closes THEN NoDialog ELSE dialog
      /\ IF Clamp(n) # offset
         THEN Asks(js, q, ticked, FALSE)
         ELSE jobs' = js /\ UNCHANGED <<filter, offset, size, ticked, excused>>
      /\ busy' = FALSE
      /\ UNCHANGED <<view, rows, feed, faults, clicks>>
  BY DEF LoadAnswered
<1>2. job \in Sound /\ job.query \in QuerySet /\ job.query \in Loads(jobs)
  <2>1. job \in Sound
    BY ElementOfSeq DEF Inv, Typed
  <2>2. QED
    BY <1>1, <2>1 DEF Sound, Loads
<1>3. n \in Nat
  <2>1. Matching(job.query.filter) \subseteq Row
    BY DEF Matching, Inv, Typed
  <2>2. IsFiniteSet(Matching(job.query.filter))
    BY <2>1, FS_Subset DEF Parameters
  <2>3. QED
    BY <2>2, FS_CardinalityType
<1>4. items' \subseteq Row
  BY <1>1 DEF Slice, Matching, Inv, Typed
<1>5. js \in Seq(Sound) /\ Loads(js) \subseteq Loads(jobs)
  <2>1. rest \in Seq(Sound) /\ Loads(rest) \subseteq Loads(jobs)
    BY RemoveAtTyped, LoadsRemoved DEF Inv, Typed
  <2> HIDE DEF rest
  <2>2. Unasked(rest) \in Seq(Sound) /\ Loads(Unasked(rest)) = Loads(rest)
    BY <2>1, UnaskedTyped
  <2>3. QED
    BY <2>1, <2>2
<1>6. Clamp(n) \in Nat /\ Clamp(n) \div size + 1 <= Pages(n, size)
  BY <1>3, ClampInRange
<1>7. q \in QuerySet /\ q.offset = Clamp(n) /\ q.size = size
  BY <1>6 DEF Query, QuerySet, Inv, Typed
<1>8. dialog' \in [ids : SUBSET Row, bulk : BOOLEAN]
  BY <1>1 DEF NoDialog, Inv, Typed
<1> HIDE DEF job, n, rest, js, q
<1>9. CASE Clamp(n) # offset
  <2>1. Asks(js, q, ticked, FALSE) /\ ticked \in SUBSET Row
    BY <1>1, <1>9 DEF Inv, Typed
  <2>2. /\ filter' \in Filter /\ offset' = q.offset /\ size' = q.size
        /\ offset' \in Nat /\ size' \in Size
        /\ ticked' \subseteq Row /\ jobs' \in Seq(Sound)
        /\ excused' \in BOOLEAN
        /\ Consistent'
    BY <1>5, <1>7, <2>1, AsksKeeps DEF Inv
  <2>3. Typed'
    BY <1>1, <1>2, <1>3, <1>4, <1>8, <2>2 DEF Inv, Typed
  <2>4. PageInRange'
    BY <1>1, <1>6, <1>7, <2>2 DEF PageInRange, page
  <2>5. QED
    BY <2>2, <2>3, <2>4 DEF Inv
<1>10. CASE Clamp(n) = offset
  <2>1. jobs' = js /\ busy' = FALSE /\ UNCHANGED <<filter, offset, size, ticked, excused>>
    BY <1>1, <1>10
  <2>2. Typed'
    BY <1>1, <1>2, <1>3, <1>4, <1>5, <1>8, <2>1 DEF Inv, Typed
  <2>3. PageInRange'
    BY <1>1, <1>6, <1>10, <2>1 DEF PageInRange, page
  <2>4. Consistent'
    BY <1>1, <1>2, <1>5, <2>1 DEF Inv, Consistent
  <2>5. QED
    BY <2>2, <2>3, <2>4 DEF Inv
<1>11. QED
  BY <1>9, <1>10

\* A delete ends: it asks for the page the watcher leads to, or is excused.
LEMMA DeleteAnsweredKeeps ==
    ASSUME Parameters, Inv, NEW k \in DOMAIN jobs, DeleteAnswered(k)
    PROVE  Inv'
<1> DEFINE job == jobs[k]
<1>1. PICK refused \in SUBSET (job.ids \cap rows) :
        LET gone == (job.ids \cap rows) \ refused
            fewer == Cardinality(items \cap gone)
            n == Fewer(fewer)
            q == [Query EXCEPT !.offset = Clamp(n)]
            moved == q # Query
            js == IF moved THEN Append(RemoveAt(jobs, k), LoadJob(q, TRUE, FALSE))
                  ELSE RemoveAt(jobs, k)
            ticks == IF job.bulk THEN {} ELSE ticked \ job.ids
        IN
        /\ rows' = rows \ gone
        /\ items' = items \ gone
        /\ total' = n
        /\ IF job.own
           THEN AskFor(js, q, ticks, job.closes)
           ELSE /\ jobs' = Append(js, LoadJob(job.query, FALSE, FALSE))
                /\ offset' = q.offset /\ busy' = TRUE /\ excused' = TRUE
                /\ ticked' = IF moved /\ view = "tasks" THEN {} ELSE ticked
                /\ UNCHANGED <<filter, size>>
  BY DEF DeleteAnswered
<1> DEFINE gone == (job.ids \cap rows) \ refused
           n == Fewer(Cardinality(items \cap gone))
           q == [Query EXCEPT !.offset = Clamp(n)]
           moved == q # Query
           rest == RemoveAt(jobs, k)
           js == IF moved THEN Append(rest, LoadJob(q, TRUE, FALSE)) ELSE rest
           ticks == IF job.bulk THEN {} ELSE ticked \ job.ids
<1>2. /\ rows' = rows \ gone /\ items' = items \ gone /\ total' = n
      /\ IF job.own
         THEN AskFor(js, q, ticks, job.closes)
         ELSE /\ jobs' = Append(js, LoadJob(job.query, FALSE, FALSE))
              /\ offset' = q.offset /\ busy' = TRUE /\ excused' = TRUE
              /\ ticked' = (IF moved /\ view = "tasks" THEN {} ELSE ticked)
              /\ UNCHANGED <<filter, size>>
  BY <1>1
<1>3. UNCHANGED <<view, feed, dialog, shown, failed, faults, clicks>>
  BY DEF DeleteAnswered
<1>4. job \in Sound
  BY ElementOfSeq DEF Inv, Typed
<1>5. n \in Nat
  <2>1. items \cap gone \subseteq Row
    BY DEF Inv, Typed
  <2>2. Cardinality(items \cap gone) \in Nat
    BY <2>1, FS_Subset, FS_CardinalityType DEF Parameters
  <2>3. QED
    BY <2>2 DEF Fewer, Inv, Typed
<1>6. Clamp(n) \in Nat /\ Clamp(n) \div size + 1 <= Pages(n, size)
  BY <1>5, ClampInRange
<1>7. q \in QuerySet /\ q.offset = Clamp(n) /\ q.size = size
  BY <1>6 DEF Query, QuerySet, Inv, Typed
<1>8. rows' \subseteq Row /\ items' \subseteq Row /\ ticks \subseteq Row
  BY <1>2 DEF Inv, Typed
<1> HIDE DEF n, q
<1>9. js \in Seq(Sound)
  <2>1. rest \in Seq(Sound)
    BY RemoveAtTyped DEF Inv, Typed
  <2> DEFINE load == LoadJob(q, TRUE, FALSE)
  <2>2. load \in Sound
    BY <1>7, LoadJobTyped
  <2> HIDE DEF rest, load
  <2>3. Append(rest, load) \in Seq(Sound)
    BY <2>1, <2>2
  <2>4. QED
    BY <2>1, <2>3 DEF load
<1> HIDE DEF gone, moved, rest, js, ticks
<1>10. CASE job.own
  <2>1. AskFor(js, q, ticks, job.closes) /\ ticks \in SUBSET Row /\ job.closes \in BOOLEAN
    BY <1>2, <1>4, <1>8, <1>10 DEF Sound, Job
  <2>2. /\ filter' \in Filter /\ offset' = q.offset /\ size' = q.size
        /\ offset' \in Nat /\ size' \in Size
        /\ ticked' \subseteq Row /\ jobs' \in Seq(Sound)
        /\ busy' \in BOOLEAN /\ excused' \in BOOLEAN
        /\ Consistent'
    BY <1>7, <1>9, <2>1, AskForKeeps DEF Inv
  <2>3. Typed'
    BY <1>2, <1>3, <1>5, <1>8, <2>2 DEF Inv, Typed
  <2>4. PageInRange'
    BY <1>2, <1>6, <1>7, <2>2 DEF PageInRange, page
  <2>5. QED
    BY <2>2, <2>3, <2>4 DEF Inv
<1>11. CASE ~job.own
  <2>1. job.query \in QuerySet
    BY <1>4, <1>11 DEF Sound
  <2> DEFINE load == LoadJob(job.query, FALSE, FALSE)
  <2>2. load \in Sound
    BY <2>1, LoadJobTyped
  <2>3. /\ jobs' = Append(js, load)
        /\ offset' = q.offset /\ busy' = TRUE /\ excused' = TRUE
        /\ ticked' = (IF moved /\ view = "tasks" THEN {} ELSE ticked)
        /\ UNCHANGED <<filter, size>>
    BY <1>2, <1>11
  <2> HIDE DEF load, job
  <2>4. Append(js, load) \in Seq(Sound)
    BY <1>9, <2>2
  <2>5. jobs' \in Seq(Sound) /\ ticked' \subseteq Row /\ offset' \in Nat
    BY <1>6, <1>7, <2>3, <2>4 DEF Inv, Typed
  <2>6. Typed'
    BY <1>2, <1>3, <1>5, <1>8, <2>3, <2>5 DEF Inv, Typed
  <2>7. PageInRange'
    BY <1>2, <1>6, <1>7, <2>3 DEF PageInRange, page
  <2>8. Consistent'
    BY <2>3 DEF Consistent
  <2>9. QED
    BY <2>6, <2>7, <2>8 DEF Inv
<1>12. QED
  BY <1>10, <1>11

\* Every other end of a handler: nothing new is asked for.
LEMMA EndsKeep ==
    ASSUME Parameters, Inv, NEW k \in DOMAIN jobs, NEW done \in BOOLEAN,
           ActionAnswered(k) \/ Fails(k, done)
    PROVE  Inv'
<1>1. /\ RemoveAt(jobs, k) \in Seq(Sound) /\ Loads(RemoveAt(jobs, k)) \subseteq Loads(jobs)
      /\ jobs[k].kind # "load" => Loads(RemoveAt(jobs, k)) = Loads(jobs)
  BY RemoveAtTyped, LoadsRemoved DEF Inv, Typed
<1>2. jobs[k] \in Job
  BY ElementOfSeq DEF Inv, Typed, Sound
<1>3. CASE ActionAnswered(k)
  <2>1. /\ jobs[k].kind = "action" /\ jobs' = RemoveAt(jobs, k) /\ busy' = FALSE
        /\ UNCHANGED <<view, rows, total, filter, offset, size, ticked, dialog, shown, excused,
                       failed, faults, clicks>>
    BY <1>3 DEF ActionAnswered
  <2>2. PICK r \in jobs[k].ids : Apply(r) /\ feed' = feed \cup {r}
    BY <1>3 DEF ActionAnswered
  <2>3. items' \subseteq Row /\ feed' \subseteq Row
    BY <1>2, <2>2 DEF Apply, Inv, Typed, Job
  <2>4. Typed'
    BY <1>1, <2>1, <2>3 DEF Inv, Typed
  <2>5. Loads(jobs)' = Loads(jobs)
    BY <1>1, <2>1
  <2>6. QED
    BY <2>1, <2>4, <2>5, StillKeeps
<1>4. CASE Fails(k, done)
  <2>1. /\ jobs' = RemoveAt(jobs, k) /\ busy' = FALSE
        /\ failed' = (failed \/ jobs[k].kind = "load")
        /\ rows' \subseteq Row
        /\ UNCHANGED <<view, feed, store, filter, offset, size, ticked, dialog, shown, excused,
                       clicks>>
    BY <1>4 DEF Fails, Inv, Typed
  <2>2. faults' \in 0..MaxFaults
    BY <1>4 DEF Fails, Inv, Typed, Parameters
  <2>3. failed' \in BOOLEAN
    BY <2>1 DEF Inv, Typed
  <2>4. Typed'
    BY <1>1, <2>1, <2>2, <2>3 DEF Inv, Typed, store
  <2>5. PageInRange'
    BY <2>1 DEF Inv, PageInRange, page, store
  <2>6. CASE jobs[k].kind = "load"
    <3>1. failed'
      BY <2>1, <2>6
    <3>2. Consistent'
      BY <1>1, <2>1, <3>1 DEF Inv, Consistent
    <3>3. QED
      BY <2>4, <2>5, <3>2 DEF Inv
  <2>7. CASE jobs[k].kind # "load"
    <3>1. (~failed') => ~failed
      BY <2>1
    <3>2. Loads(jobs)' = Loads(jobs)
      BY <1>1, <2>1, <2>7
    <3>3. Consistent'
      BY <2>1, <3>1, <3>2 DEF Inv, Consistent
    <3>4. QED
      BY <2>4, <2>5, <3>3 DEF Inv
  <2>8. QED
    BY <2>6, <2>7
<1>5. QED
  BY <1>3, <1>4

LEMMA InvStep == Parameters /\ Inv /\ [Next]_vars => Inv'
<1> SUFFICES ASSUME Parameters, Inv, [Next]_vars PROVE Inv'
  OBVIOUS
<1>1. ASSUME UNCHANGED vars PROVE Inv'
  BY <1>1 DEF vars, store, Inv, Typed, PageInRange, page, Consistent, Loads
<1>2. ASSUME NEW f \in Filter, Choose(f) PROVE Inv'
  <2>1. Typed' /\ Loads(jobs)' = Loads(jobs)
    BY <1>2 DEF Choose, Inv, Typed, store, Loads
  <2>2. QED
    BY <1>2, <2>1, StillKeeps DEF Choose, store
<1>3. ASSUME NEW f \in Filter, SelectLog(f) \/ SelectCategory(f) \/ ChangeRoute(f) PROVE Inv'
  BY <1>3, AsksKeep
<1>4. ASSUME Submit \/ SortTasks \/ ResetFilters \/ Refresh PROVE Inv'
  BY <1>4, AsksKeep
<1>5. ASSUME NEW p \in 1..Cardinality(Row), GoToPage(p) PROVE Inv'
  BY <1>5, AsksKeep
<1>6. ASSUME NEW n \in Size, ChangePageSize(n) PROVE Inv'
  BY <1>6, AsksKeep
<1>7. ASSUME Remount PROVE Inv'
  BY <1>7, RemountKeeps
<1>8. ASSUME NEW ticks \in SUBSET Row, Tick(ticks) PROVE Inv'
  <2>1. Typed' /\ Loads(jobs)' = Loads(jobs)
    BY <1>8 DEF Tick, Inv, Typed, store, Loads
  <2>2. QED
    BY <1>8, <2>1, StillKeeps DEF Tick, store
<1>9. ASSUME TickAll \/ \E r \in Row : TickRow(r) PROVE Inv'
  <2>1. items \subseteq Row /\ ticked \subseteq Row
    BY DEF Inv, Typed
  <2>2. PICK ticks \in SUBSET Row : Tick(ticks)
    BY <1>9, <2>1 DEF TickAll, TickRow
  <2>3. QED
    BY <1>8, <2>2
<1>10. ASSUME NEW ids \in SUBSET Row, NEW bulk \in BOOLEAN, AskDelete(ids, bulk) PROVE Inv'
  <2>1. Typed' /\ Loads(jobs)' = Loads(jobs)
    BY <1>10 DEF AskDelete, Inv, Typed, store, Loads
  <2>2. QED
    BY <1>10, <2>1, StillKeeps DEF AskDelete, store
<1>11. ASSUME AskDeleteTicked \/ \E r \in Row : AskDeleteRow(r) PROVE Inv'
  <2>1. ticked \in SUBSET Row
    BY DEF Inv, Typed
  <2>2. PICK ids \in SUBSET Row, bulk \in BOOLEAN : AskDelete(ids, bulk)
    BY <1>11, <2>1 DEF AskDeleteTicked, AskDeleteRow
  <2>3. QED
    BY <1>10, <2>2
<1>12. ASSUME Dismiss PROVE Inv'
  <2>1. jobs' \in Seq(Sound) /\ Loads(jobs)' = Loads(jobs)
    BY <1>12, UnaskedTyped DEF Dismiss, Inv, Typed
  <2>2. Typed'
    BY <1>12, <2>1 DEF Dismiss, Inv, Typed, store, NoDialog
  <2>3. QED
    BY <1>12, <2>1, <2>2, StillKeeps DEF Dismiss, store
<1>13. ASSUME Confirm PROVE Inv'
  <2> DEFINE job == [kind |-> "delete", ids |-> dialog.ids, bulk |-> dialog.bulk,
                     query |-> NoQuery, own |-> TRUE, closes |-> TRUE]
  <2>1. job \in Sound /\ job.kind # "load"
    BY DEF Inv, Typed, Sound, Job
  <2>2. Request(job)
    BY <1>13 DEF Confirm
  <2> HIDE DEF job
  <2>3. QED
    BY <2>1, <2>2, RequestKeeps
<1>14. ASSUME NEW r \in Row, RunAction(r) PROVE Inv'
  <2> DEFINE job == [kind |-> "action", ids |-> {r}, bulk |-> FALSE,
                     query |-> NoQuery, own |-> TRUE, closes |-> FALSE]
  <2>1. job \in Sound /\ job.kind # "load"
    BY DEF Sound, Job
  <2>2. Request(job)
    BY <1>14 DEF RunAction
  <2> HIDE DEF job
  <2>3. QED
    BY <2>1, <2>2, RequestKeeps
<1>15. ASSUME NEW r \in Row, Published(r) \/ EventArrives(r) \/ Vanishes(r) PROVE Inv'
  <2>1. Typed' /\ Loads(jobs)' = Loads(jobs)
    <3>1. CASE Published(r)
      BY <3>1 DEF Published, Inv, Typed, store, Loads, Parameters
    <3>2. CASE EventArrives(r)
      BY <3>2 DEF EventArrives, Apply, Inv, Typed, store, Loads
    <3>3. CASE Vanishes(r)
      BY <3>3 DEF Vanishes, Inv, Typed, store, Loads, Parameters
    <3>4. QED
      BY <1>15, <3>1, <3>2, <3>3
  <2>2. UNCHANGED <<view, total, offset, size, excused, shown, failed>>
    BY <1>15 DEF Published, EventArrives, Vanishes, store
  <2>3. QED
    BY <2>1, <2>2, StillKeeps
<1>16. ASSUME NEW k \in DOMAIN jobs, LoadAnswered(k) \/ DeleteAnswered(k) PROVE Inv'
  BY <1>16, LoadAnsweredKeeps, DeleteAnsweredKeeps
<1>17. ASSUME NEW k \in DOMAIN jobs, NEW done \in BOOLEAN, ActionAnswered(k) \/ Fails(k, done)
       PROVE  Inv'
  BY <1>17, EndsKeep
<1>18. QED
  BY <1>1, <1>2, <1>3, <1>4, <1>5, <1>6, <1>7, <1>9, <1>11, <1>12, <1>13, <1>14, <1>15,
     <1>16, <1>17 DEF Next

LEMMA Invariance == Parameters => (Spec => []Inv)
<1> SUFFICES ASSUME Parameters PROVE Spec => []Inv
  OBVIOUS
<1>1. Init => Inv
  BY InvInit
<1>2. Inv /\ [Next]_vars => Inv'
  BY InvStep
<1>3. QED
  BY <1>1, <1>2, PTL DEF Spec

-----------------------------------------------------------------------------
(* The theorems.                                                            *)

\* Every state of a paged list is well typed, for any rows and page sizes.
THEOREM TypeCorrect == Parameters => (Spec => []TypeOK)
<1> SUFFICES ASSUME Parameters PROVE Spec => []TypeOK
  OBVIOUS
<1>1. Spec => []Inv
  BY Invariance
<1>2. Inv => TypeOK
  BY InvHolds
<1>3. QED
  BY <1>1, <1>2, PTL

\* Whatever loads, deletes and events are on their way and in whatever order
\* they end, the page number is one of the pages the total leaves.
THEOREM PageInRangeCorrect == Parameters => (Spec => []PageInRange)
<1> SUFFICES ASSUME Parameters PROVE Spec => []PageInRange
  OBVIOUS
<1>1. Spec => []Inv
  BY Invariance
<1>2. Inv => PageInRange
  BY InvHolds
<1>3. QED
  BY <1>1, <1>2, PTL

\* When nothing is on its way the list is the page its pagination names, but
\* for the excused ways in which the code mixes pages up.
THEOREM PageShownCorrect == Parameters => (Spec => []PageShown)
<1> SUFFICES ASSUME Parameters PROVE Spec => []PageShown
  OBVIOUS
<1>1. Spec => []Inv
  BY Invariance
<1>2. Inv => PageShown
  BY InvHolds
<1>3. QED
  BY <1>1, <1>2, PTL

\* A step takes a row off the list only when it is gone, or by an answered load.
LEMMA RemovedIsDeletedStep == [Next]_vars => [RemovedIsDeleted]_vars
<1> SUFFICES ASSUME Next PROVE RemovedIsDeleted \/ UNCHANGED vars
  OBVIOUS
<1>1. ASSUME items \subseteq items' PROVE RemovedIsDeleted
  BY <1>1 DEF RemovedIsDeleted
<1>2. ASSUME NEW k \in DOMAIN jobs, LoadAnswered(k) PROVE RemovedIsDeleted
  <2>1. jobs[k].kind = "load" /\ shown' = jobs[k].query
    BY <1>2 DEF LoadAnswered
  <2>2. QED
    BY <2>1 DEF RemovedIsDeleted
<1>3. ASSUME NEW k \in DOMAIN jobs, DeleteAnswered(k) PROVE RemovedIsDeleted
  <2>1. PICK refused \in SUBSET (jobs[k].ids \cap rows) :
          LET gone == (jobs[k].ids \cap rows) \ refused
          IN  rows' = rows \ gone /\ items' = items \ gone
    BY <1>3 DEF DeleteAnswered
  <2>2. QED
    BY <2>1 DEF RemovedIsDeleted
<1>4. ASSUME NEW k \in DOMAIN jobs, NEW done \in BOOLEAN, ActionAnswered(k) \/ Fails(k, done)
      PROVE  items \subseteq items'
  BY <1>4 DEF ActionAnswered, Fails, Apply, store
<1>5. ASSUME NEW r \in Row, Published(r) \/ EventArrives(r) \/ Vanishes(r)
      PROVE  items \subseteq items'
  BY <1>5 DEF Published, EventArrives, Vanishes, Apply, store
<1>6. ASSUME NEW q, NEW ticks, Ask(q, ticks) PROVE items \subseteq items'
  BY <1>6 DEF Ask, store
<1>7. ASSUME Submit \/ SortTasks \/ ResetFilters \/ Refresh \/ Remount \/ TickAll
             \/ AskDeleteTicked \/ Dismiss \/ Confirm
      PROVE  items \subseteq items'
  BY <1>6, <1>7 DEF Submit, SortTasks, ResetFilters, Refresh, FilterAndLoad, Remount, TickAll,
                    AskDeleteTicked, Dismiss, Confirm, Tick, AskDelete, Request, store
<1>8. /\ \A f \in Filter : Choose(f) \/ SelectLog(f) \/ SelectCategory(f) \/ ChangeRoute(f)
            => items \subseteq items'
      /\ \A p \in 1..Cardinality(Row) : GoToPage(p) => items \subseteq items'
      /\ \A n \in Size : ChangePageSize(n) => items \subseteq items'
      /\ \A r \in Row : TickRow(r) \/ AskDeleteRow(r) \/ RunAction(r) => items \subseteq items'
  BY <1>6 DEF Choose, SelectLog, SelectCategory, ChangeRoute, FilterAndLoad, GoToPage,
              ChangePageSize, TickRow, AskDeleteRow, RunAction, Tick, AskDelete, Request, store
<1>9. ASSUME NEW k \in DOMAIN jobs, LoadAnswered(k) \/ DeleteAnswered(k) PROVE RemovedIsDeleted
  BY <1>2, <1>3, <1>9
<1>10. ASSUME ~(items \subseteq items')
       PROVE  \E k \in DOMAIN jobs : LoadAnswered(k) \/ DeleteAnswered(k)
  BY <1>4, <1>5, <1>7, <1>8, <1>10 DEF Next
<1>11. QED
  BY <1>1, <1>9, <1>10

\* What a bulk delete takes off a list is deleted on the server.
THEOREM RemovedIsDeletedCorrect == Spec => [][RemovedIsDeleted]_vars
<1>1. [Next]_vars => [RemovedIsDeleted]_vars
  BY RemovedIsDeletedStep
<1>2. QED
  BY <1>1, PTL DEF Spec
=============================================================================
